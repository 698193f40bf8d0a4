---- MODULE SnapshotLoop ----
(***************************************************************************)
(* The billing snapshots: runSnapshotLoop (src/main.go) collects one per   *)
(* interval (Service.Collect), Store.Save adds it to the history in memory *)
(* and rewrites the store file, and Pusher.Push offers it to Vector.  Every*)
(* step may fail, and the process may be killed and restarted between any  *)
(* two of them; NewStore then reads the file back.                         *)
(*                                                                         *)
(* A snapshot is its number and CollectedAt; its samples are left out.     *)
(***************************************************************************)
EXTENDS Integers, Sequences, SequencesExt

CONSTANTS Retention,      \* Store.retention, 0 or less keeps everything
          MaxTime,        \* bound: the clock stops here
          MaxSnapshots,   \* bound: snapshots collected
          MaxCrashes,     \* bound: kills of the process
          ClockStepsBack  \* may the wall clock be set back?

ASSUME RetentionAssumption == Retention \in Int
ASSUME BoundsAssumption == {MaxTime, MaxSnapshots, MaxCrashes} \subseteq Nat
ASSUME ClockAssumption == ClockStepsBack \in BOOLEAN

VARIABLES
    clock,
    crashes,
    pc,         \* where the loop is: down, waiting, counters, identities,
                \* storing, persisting, writing, renaming or pushing
    next,       \* number of the next snapshot
    value,      \* the snapshot at hand
    items,      \* Store.items
    tmp,        \* the temporary file: its items, and whether it is whole
    disk,       \* the store file: the same
    posted,     \* history: snapshots that were POSTed
    saved,      \* history: snapshots whose Save returned nil
    newest      \* history: the latest CollectedAt ever stored

storeVars == <<items, tmp, disk, saved, newest>>
vars == <<clock, crashes, pc, next, value, storeVars, posted>>

None == [id |-> 0, at |-> 0]
\* A file that was created, and whatever its write has come to by then: empty,
\* or a part that NewStore cannot decode.
Partial == [whole |-> FALSE, items |-> <<>>]
Whole(history) == [whole |-> TRUE, items |-> history]
Running == pc # "down"

----------------------------------------------------------------------------
Tick == clock < MaxTime /\ clock' = clock + 1
        /\ UNCHANGED <<crashes, pc, next, value, storeVars, posted>>

StepBack == ClockStepsBack /\ clock > 0 /\ clock' = clock - 1
            /\ UNCHANGED <<crashes, pc, next, value, storeVars, posted>>

\* The ticker fires; the first collection of a run does not wait for it.
Wake == pc = "waiting" /\ next <= MaxSnapshots /\ pc' = "counters"
        /\ UNCHANGED <<clock, crashes, next, value, storeVars, posted>>

----------------------------------------------------------------------------
\* Service.Collect

CountersAnswer == pc = "counters" /\ pc' = "identities"
                  /\ UNCHANGED <<clock, crashes, next, value, storeVars, posted>>

\* (mutant: stores the zero snapshot)
MutantIdentitiesAnswer ==
    /\ pc = "identities" /\ next <= MaxSnapshots
    /\ value' = None /\ next' = next + 1
    /\ pc' = "storing"
    /\ UNCHANGED <<clock, crashes, storeVars, posted>>
IdentitiesAnswer ==
    /\ pc = "identities" /\ next <= MaxSnapshots
    /\ value' = [id |-> next, at |-> clock] /\ next' = next + 1
    /\ pc' = "storing"
    /\ UNCHANGED <<clock, crashes, storeVars, posted>>

\* Xray or Accounts fail or time out: this collection is given up.
SourceFails == pc \in {"counters", "identities"} /\ pc' = "waiting"
               /\ UNCHANGED <<clock, crashes, next, value, storeVars, posted>>

----------------------------------------------------------------------------
\* Store.Save, under Store.mu from here to its return.

Kept(item, new) == Retention <= 0 \/ item.at >= new.at - Retention

Chronological(s) == \A i, j \in DOMAIN s : i < j => s[i].at <= s[j].at

\* The snapshots S, of which no two are the same.  sort.Slice is not stable:
\* equal times may come out in any order.
Sorted(S) == {t \in [1..Cardinality(S) -> S] : ToSet(t) = S /\ Chronological(t)}

Store ==
    /\ pc = "storing" /\ pc' = "persisting"
    /\ items' \in Sorted({item \in ToSet(items) \cup {value} : Kept(item, value)})
    /\ newest' = IF value.at > newest THEN value.at ELSE newest
    /\ UNCHANGED <<clock, crashes, next, value, tmp, disk, saved, posted>>

\* persistLocked.  (mutant: writes the store file in place)
MutantCreateTemp ==
    /\ pc = "persisting" /\ pc' = "writing"
    /\ tmp' = Partial /\ disk' = Partial
    /\ UNCHANGED <<clock, crashes, next, value, items, saved, newest, posted>>
CreateTemp ==
    /\ pc = "persisting" /\ pc' = "writing"
    /\ tmp' = Partial
    /\ UNCHANGED <<clock, crashes, next, value, items, disk, saved, newest, posted>>

WriteTemp ==
    /\ pc = "writing" /\ pc' = "renaming"
    /\ tmp' = Whole(items)
    /\ UNCHANGED <<clock, crashes, next, value, items, disk, saved, newest, posted>>

\* The store file is whatever the temporary one is.
Rename ==
    /\ pc = "renaming" /\ pc' = "pushing"
    /\ disk' = tmp /\ tmp' = Partial
    /\ saved' = saved \cup {value}
    /\ UNCHANGED <<clock, crashes, next, value, items, newest, posted>>

\* (mutant: the error of Save is only logged)
MutantPersistFails ==
    /\ pc \in {"persisting", "writing", "renaming"} /\ pc' = "pushing"
    /\ tmp' = Partial
    /\ UNCHANGED <<clock, crashes, next, value, items, disk, saved, newest, posted>>
\* Any step of persistLocked fails: the temporary file is removed, the
\* snapshot stays in memory and is not pushed.
PersistFails ==
    /\ pc \in {"persisting", "writing", "renaming"} /\ pc' = "waiting"
    /\ tmp' = Partial
    /\ UNCHANGED <<clock, crashes, next, value, items, disk, saved, newest, posted>>

----------------------------------------------------------------------------
\* Pusher.Push

\* (mutant: waits for an answer that never comes)
MutantPush == pc = "pushing" /\ pc' = "pushing" /\ posted' = posted \cup {value}
              /\ UNCHANGED <<clock, crashes, next, value, storeVars>>
\* Accepted, refused, unreachable or timed out: an error is only logged, and
\* the snapshot is not offered again.
Push == pc = "pushing" /\ pc' = "waiting" /\ posted' = posted \cup {value}
        /\ UNCHANGED <<clock, crashes, next, value, storeVars>>

----------------------------------------------------------------------------
\* The process is killed; what it had in memory is gone.
Crash ==
    /\ Running /\ crashes < MaxCrashes
    /\ crashes' = crashes + 1 /\ pc' = "down"
    /\ value' = None /\ items' = <<>>
    /\ tmp' = Partial       \* the file stays behind, but nothing reads it
    /\ UNCHANGED <<clock, next, disk, saved, newest, posted>>

\* (mutant: starts with an empty history)
MutantRestart ==
    /\ pc = "down" /\ disk.whole
    /\ items' = <<>> /\ pc' = "counters"
    /\ UNCHANGED <<clock, crashes, next, value, tmp, disk, saved, newest, posted>>
\* main: NewStore reads the file, and ends the process if it cannot.
Restart ==
    /\ pc = "down" /\ disk.whole
    /\ items' \in Sorted(ToSet(disk.items)) /\ pc' = "counters"
    /\ UNCHANGED <<clock, crashes, next, value, tmp, disk, saved, newest, posted>>

----------------------------------------------------------------------------
Init ==
    /\ clock = 0 /\ crashes = 0
    /\ pc = "counters" /\ next = 1 /\ value = None
    /\ items = <<>> /\ tmp = Partial
    /\ disk = Whole(<<>>)      \* or no file at all
    /\ posted = {} /\ saved = {} /\ newest = 0

Collect == CountersAnswer \/ IdentitiesAnswer \/ SourceFails
Save == Store \/ CreateTemp \/ WriteTemp \/ Rename \/ PersistFails

Next == Tick \/ StepBack \/ Wake \/ Collect \/ Save \/ Push \/ Crash \/ Restart

Spec == Init /\ [][Next]_vars

(* Fairness: the ticker fires; every call of the loop ends, for each has a *)
(* timeout, one way or the other; a supervisor restarts the process; Xray  *)
(* and Accounts do not fail for ever.  The disk and Vector may.            *)
Fairness ==
    /\ WF_vars(Wake) /\ WF_vars(Collect) /\ WF_vars(Save) /\ WF_vars(Push)
    /\ WF_vars(Restart) /\ SF_vars(CountersAnswer) /\ SF_vars(IdentitiesAnswer)

FairSpec == Spec /\ Fairness

----------------------------------------------------------------------------
Snapshots == [id : 1..MaxSnapshots, at : 0..MaxTime]

TypeOK ==
    /\ clock \in 0..MaxTime /\ crashes \in 0..MaxCrashes
    /\ pc \in {"down", "waiting", "counters", "identities", "storing", "persisting",
               "writing", "renaming", "pushing"}
    /\ next \in 1..MaxSnapshots+1 /\ value \in Snapshots \cup {None}
    /\ items \in Seq(Snapshots)
    /\ {tmp, disk} \subseteq [whole : BOOLEAN, items : Seq(Snapshots)]
    /\ posted \subseteq Snapshots /\ saved \subseteq Snapshots
    /\ newest \in 0..MaxTime

InRetention(s) == Retention <= 0 \/ s.at >= newest - Retention

(* A snapshot that was saved stays in the store file, and after any crash  *)
(* in the history that is served, until one that is younger by more than   *)
(* the retention is stored: failed saves, restarts and a clock that is set *)
(* back lose none.                                                         *)
RetentionKept ==
    \A s \in saved : InRetention(s) =>
        /\ s \in ToSet(disk.items)
        /\ Running => s \in ToSet(items)

(* What Vector was ever offered is in the store file, so billing can fetch *)
(* it again from the exporter, even if the process is killed in the middle *)
(* of the next save.                                                       *)
PostedIsDurable ==
    \A s \in posted : InRetention(s) => s \in ToSet(disk.items)

(* However far a save has come when the process is killed, the store file  *)
(* holds a whole history: from a part of one the next start, and all later *)
(* ones, would end in Fatal, and from an empty file begin with nothing.    *)
StartupReadsStore == pc = "down" => disk.whole

(* Each successful snapshot is also POSTed (docs/tasks, snapshot push):    *)
(* when the loop is about to collect, those saved before were offered.     *)
EverySavedPosted == pc = "counters" => saved \subseteq posted

(* An unavailable Vector, or a disk that refuses every write, does not     *)
(* keep the exporter from collecting: unless it is down for good, snapshot *)
(* after snapshot is made of the two answers, whatever becomes of it.      *)
CollectionGoesOn == \A n \in 1..MaxSnapshots : <>(next > n)
====
