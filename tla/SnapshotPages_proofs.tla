---- MODULE SnapshotPages_proofs ----
(***************************************************************************)
(* Proofs about SnapshotLoop and SnapshotPages for every page size,        *)
(* retention and number of snapshots and crashes, and a clock that is set  *)
(* back at will.  Of the loop: what was saved or POSTed survives for the   *)
(* retention, and every start can read the store.  Of the pages: a client  *)
(* that follows the cursor gets each snapshot once, in order, and misses   *)
(* none but for equal times.                                               *)
(***************************************************************************)
EXTENDS SnapshotPages, FiniteSetTheorems, SequenceTheorems, TLAPS

----------------------------------------------------------------------------
(* The inductive invariant.  Nothing is younger than newest, so that a Save *)
(* with a clock that was set back keeps more than it need; what was saved  *)
(* and is still due is in memory and in the store file, and what is about  *)
(* to replace the store file is what is in memory, all of it.              *)

Stored == ToSet(items) \cup ToSet(disk.items) \cup ToSet(tmp.items) \cup saved
Due == {s \in saved : InRetention(s)}

LoopTypes ==
    /\ clock \in Nat /\ newest \in Nat /\ value.at \in Nat
    /\ pc \in {"down", "waiting", "counters", "identities", "storing", "persisting",
               "writing", "renaming", "pushing"}

NothingYounger == \A s \in Stored : s.at \in Nat /\ s.at <= newest

DueKept ==
    /\ Due \subseteq ToSet(disk.items)
    /\ Running => Due \subseteq ToSet(items)

SaveUnderWay ==
    /\ pc \in {"persisting", "writing", "renaming"} => value \in ToSet(items)
    /\ pc = "renaming" => tmp = Whole(items)
    /\ disk.whole = TRUE
    /\ pc = "pushing" => value \in saved
    /\ posted \subseteq saved

InOrder ==
    /\ Chronological(items) /\ Chronological(disk.items)

LoopInv == LoopTypes /\ NothingYounger /\ DueKept /\ SaveUnderWay /\ InOrder

(* The parts of the invariant speak of these variables only.               *)
invVars == <<clock, pc, value, items, tmp, disk, posted, saved, newest>>

LEMMA LoopInvStutters == ASSUME LoopInv, UNCHANGED invVars PROVE LoopInv'
  BY DEF invVars, LoopInv, LoopTypes, NothingYounger, Stored, DueKept, Due, InRetention, Running,
         SaveUnderWay, InOrder, Chronological, ToSet

(* The empty history is in order.                                          *)
LEMMA EmptyHistory == Chronological(<<>>) /\ ToSet(<<>>) = {} /\ Partial.items = <<>>
  BY DEF Chronological, ToSet, Partial

(* The steps that change neither memory nor disk.                          *)
LEMMA QuietKeeps ==
    ASSUME LoopInv, UNCHANGED <<storeVars, posted>>, clock' \in Nat, value'.at \in Nat,
           pc # "down", pc' \in {"waiting", "counters", "identities", "storing"}
    PROVE  LoopInv'
  <1>1. UNCHANGED <<items, tmp, disk, saved, newest, posted>> BY DEF storeVars
  <1> QED BY <1>1 DEF LoopInv, LoopTypes, NothingYounger, Stored, DueKept, Due, InRetention,
                      Running, SaveUnderWay, InOrder, Chronological, ToSet

(* Save: what it drops is out of the retention by the latest time stored.  *)
LEMMA StoreKeeps == ASSUME LoopInv, Store PROVE LoopInv'
  <1> DEFINE S == {item \in ToSet(items) \cup {value} : Kept(item, value)}
  <1>1. /\ pc = "storing" /\ pc' = "persisting"
        /\ UNCHANGED <<clock, value, tmp, disk, saved, posted>>
        /\ newest' = IF value.at > newest THEN value.at ELSE newest
        /\ items' \in Sorted(S)
    BY DEF Store
  <1>2. ToSet(items') = S /\ Chronological(items')
    BY <1>1 DEF Sorted
  <1>3. value.at \in Nat /\ newest \in Nat /\ newest' \in Nat
        /\ value.at <= newest' /\ newest <= newest'
    BY <1>1 DEF LoopInv, LoopTypes
  <1>4. value \in ToSet(items')
    BY <1>2, <1>3, RetentionAssumption DEF Kept
  <1>5. \A s \in Stored' : s.at \in Nat /\ s.at <= newest'
    <2>1. Stored' \subseteq Stored \cup {value} BY <1>1, <1>2 DEF Stored
    <2>2. \A s \in Stored : s.at \in Nat /\ s.at <= newest BY DEF LoopInv, NothingYounger
    <2> QED BY <1>3, <2>1, <2>2
  <1>6. \A s \in Due' : s \in Due /\ s \in ToSet(items')
    <2> SUFFICES ASSUME NEW s \in Due' PROVE s \in Due /\ s \in ToSet(items')
      OBVIOUS
    <2>1. s \in saved /\ (Retention <= 0 \/ s.at >= newest' - Retention)
      BY <1>1 DEF Due, InRetention
    <2>2. s.at \in Nat BY <2>1 DEF LoopInv, NothingYounger, Stored
    <2>3. Retention <= 0 \/ (s.at >= newest - Retention /\ s.at >= value.at - Retention)
      BY <1>3, <2>1, <2>2, RetentionAssumption
    <2>4. s \in Due BY <2>1, <2>3 DEF Due, InRetention
    <2>5. s \in ToSet(items) BY <1>1, <2>4 DEF LoopInv, DueKept, Running
    <2> QED BY <1>2, <2>3, <2>4, <2>5 DEF Kept
  <1> HIDE DEF S
  <1>7. LoopTypes' BY <1>1, <1>3 DEF LoopInv, LoopTypes
  <1>8. DueKept' BY <1>1, <1>6 DEF LoopInv, DueKept
  <1>9. SaveUnderWay' BY <1>1, <1>4 DEF LoopInv, SaveUnderWay
  <1>10. InOrder' BY <1>1, <1>2 DEF LoopInv, InOrder
  <1> QED BY <1>5, <1>7, <1>8, <1>9, <1>10 DEF LoopInv, NothingYounger

(* The temporary file is created or written, or one of the steps fails.    *)
LEMMA TempKeeps == ASSUME LoopInv, CreateTemp \/ WriteTemp \/ PersistFails PROVE LoopInv'
  <1>1. /\ pc \in {"persisting", "writing", "renaming"}
        /\ pc' \in {"writing", "renaming", "waiting"}
        /\ tmp' = Whole(items) \/ tmp' = Partial
        /\ pc' = "renaming" => tmp' = Whole(items)
        /\ UNCHANGED <<clock, value, items, disk, saved, newest, posted>>
    BY DEF CreateTemp, WriteTemp, PersistFails
  <1>2. Whole(items).items = items BY DEF Whole
  <1>3. Stored' \subseteq Stored
    BY <1>1, <1>2, EmptyHistory DEF Stored
  <1>4. NothingYounger' BY <1>1, <1>3 DEF LoopInv, NothingYounger
  <1>5. Due' = Due BY <1>1 DEF Due, InRetention
  <1>6. LoopTypes' BY <1>1 DEF LoopInv, LoopTypes
  <1>7. Whole(items)' = Whole(items) BY <1>1 DEF Whole
  <1>8. SaveUnderWay' BY <1>1, <1>7 DEF LoopInv, SaveUnderWay
  <1>9. DueKept' BY <1>1, <1>5 DEF LoopInv, DueKept, Running
  <1> QED BY <1>1, <1>4, <1>6, <1>8, <1>9 DEF LoopInv, InOrder

(* The rename puts the history in memory, with the new snapshot in it, in  *)
(* place of the store file.                                                *)
LEMMA RenameKeeps == ASSUME LoopInv, Rename PROVE LoopInv'
  <1>1. /\ pc = "renaming" /\ pc' = "pushing" /\ value \in ToSet(items)
        /\ disk' = Whole(items) /\ tmp' = Partial /\ saved' = saved \cup {value}
        /\ UNCHANGED <<clock, value, items, newest, posted>>
    BY DEF Rename, LoopInv, SaveUnderWay
  <1>2. disk'.items = items /\ disk'.whole = TRUE BY <1>1 DEF Whole
  <1>3. Stored' \subseteq Stored
    BY <1>1, <1>2, EmptyHistory DEF Stored
  <1>4. NothingYounger' BY <1>1, <1>3 DEF LoopInv, NothingYounger
  <1>5. Due \subseteq ToSet(items) BY <1>1 DEF LoopInv, DueKept, Running
  <1>6. Due' \subseteq Due \cup {value} BY <1>1 DEF Due, InRetention
  <1>7. DueKept' BY <1>1, <1>2, <1>5, <1>6 DEF DueKept
  <1>8. LoopTypes' BY <1>1 DEF LoopInv, LoopTypes
  <1>9. SaveUnderWay' BY <1>1, <1>2 DEF LoopInv, SaveUnderWay
  <1>10. InOrder' BY <1>1, <1>2 DEF LoopInv, InOrder
  <1> QED BY <1>4, <1>7, <1>8, <1>9, <1>10 DEF LoopInv

(* A kill empties the memory, and the next start fills it from the file.   *)
LEMMA CrashKeeps == ASSUME LoopInv, Crash PROVE LoopInv'
  <1>1. /\ pc' = "down" /\ value' = None /\ items' = <<>> /\ tmp' = Partial
        /\ UNCHANGED <<clock, disk, saved, newest, posted>>
    BY DEF Crash
  <1>2. Stored' \subseteq Stored BY <1>1, EmptyHistory DEF Stored
  <1>3. NothingYounger' BY <1>1, <1>2 DEF LoopInv, NothingYounger
  <1>4. Due' = Due BY <1>1 DEF Due, InRetention
  <1>5. LoopTypes' /\ SaveUnderWay' BY <1>1 DEF LoopInv, LoopTypes, SaveUnderWay, None
  <1>6. DueKept' BY <1>1, <1>4 DEF LoopInv, DueKept, Running
  <1> QED BY <1>1, <1>3, <1>5, <1>6, EmptyHistory DEF LoopInv, InOrder

LEMMA RestartKeeps == ASSUME LoopInv, Restart PROVE LoopInv'
  <1>1. /\ pc = "down" /\ pc' = "counters"
        /\ items' \in Sorted(ToSet(disk.items))
        /\ UNCHANGED <<clock, value, tmp, disk, saved, newest, posted>>
    BY DEF Restart
  <1>2. ToSet(items') = ToSet(disk.items) /\ Chronological(items')
    BY <1>1 DEF Sorted
  <1>3. Stored' \subseteq Stored BY <1>1, <1>2 DEF Stored
  <1>4. NothingYounger' BY <1>1, <1>3 DEF LoopInv, NothingYounger
  <1>5. Due' = Due BY <1>1 DEF Due, InRetention
  <1>6. LoopTypes' /\ SaveUnderWay' BY <1>1 DEF LoopInv, LoopTypes, SaveUnderWay
  <1>7. DueKept' BY <1>1, <1>2, <1>5 DEF LoopInv, DueKept
  <1> QED BY <1>1, <1>2, <1>4, <1>6, <1>7 DEF LoopInv, InOrder

(* The push, and the clock.                                                *)
LEMMA PushKeeps == ASSUME LoopInv, Push PROVE LoopInv'
  <1>1. /\ pc = "pushing" /\ pc' = "waiting" /\ posted' = posted \cup {value}
        /\ UNCHANGED <<clock, value, items, tmp, disk, saved, newest>>
    BY DEF Push, storeVars
  <1>2. Stored' = Stored /\ Due' = Due BY <1>1 DEF Stored, Due, InRetention
  <1> QED BY <1>1, <1>2 DEF LoopInv, LoopTypes, NothingYounger, DueKept, Running, SaveUnderWay,
                            InOrder

LEMMA ClockKeeps == ASSUME LoopInv, Tick \/ StepBack PROVE LoopInv'
  <1>1. /\ clock' \in Nat
        /\ UNCHANGED <<pc, value, items, tmp, disk, saved, newest, posted>>
    BY DEF Tick, StepBack, storeVars, LoopInv, LoopTypes
  <1>2. Stored' = Stored /\ Due' = Due BY <1>1 DEF Stored, Due, InRetention
  <1> QED BY <1>1, <1>2 DEF LoopInv, LoopTypes, NothingYounger, DueKept, Running, SaveUnderWay,
                            InOrder

(* Every step keeps the invariant.                                         *)
LEMMA LoopInvKept == ASSUME LoopInv, [Next]_vars PROVE LoopInv'
  <1>1. CASE Wake \/ CountersAnswer \/ SourceFails
    <2>1. /\ pc # "down" /\ pc' \in {"waiting", "counters", "identities", "storing"}
          /\ UNCHANGED <<clock, value, storeVars, posted>>
      BY <1>1 DEF Wake, CountersAnswer, SourceFails
    <2> QED BY <2>1, QuietKeeps DEF LoopInv, LoopTypes
  <1>2. CASE IdentitiesAnswer
    <2>1. /\ pc # "down" /\ pc' = "storing" /\ value'.at = clock
          /\ UNCHANGED <<clock, storeVars, posted>>
      BY <1>2 DEF IdentitiesAnswer
    <2> QED BY <2>1, QuietKeeps DEF LoopInv, LoopTypes
  <1>3. CASE Tick \/ StepBack BY <1>3, ClockKeeps
  <1>4. CASE Save BY <1>4, StoreKeeps, TempKeeps, RenameKeeps DEF Save
  <1>5. CASE Push BY <1>5, PushKeeps
  <1>6. CASE Crash \/ Restart BY <1>6, CrashKeeps, RestartKeeps
  <1>7. CASE UNCHANGED vars
    BY <1>7, LoopInvStutters DEF vars, storeVars, invVars
  <1> QED BY <1>1, <1>2, <1>3, <1>4, <1>5, <1>6, <1>7 DEF Next, Collect

LEMMA InitLoopInv == Init => LoopInv
  BY EmptyHistory DEF Init, None, LoopInv, LoopTypes, NothingYounger, Stored, DueKept, Due,
                      Running, SaveUnderWay, InOrder, Whole

----------------------------------------------------------------------------
(* No snapshot that was saved is lost within the retention, through failed *)
(* saves, kills, restarts and clocks that are set back.                    *)
THEOREM SavedSnapshotsKept == Spec => []RetentionKept
  <1>1. LoopInv => RetentionKept BY DEF LoopInv, DueKept, Due, RetentionKept
  <1>2. LoopInv /\ [Next]_vars => LoopInv' BY LoopInvKept
  <1> QED BY <1>1, <1>2, InitLoopInv, PTL DEF Spec

(* What was POSTed is in the store file for the retention.                 *)
THEOREM PostedSnapshotsDurable == Spec => []PostedIsDurable
  <1>1. LoopInv => PostedIsDurable
    BY DEF LoopInv, DueKept, SaveUnderWay, Due, PostedIsDurable
  <1>2. LoopInv /\ [Next]_vars => LoopInv' BY LoopInvKept
  <1> QED BY <1>1, <1>2, InitLoopInv, PTL DEF Spec

(* No kill, whichever step of a save it meets, leaves a store file that    *)
(* the next start cannot read: what is renamed over it has been written to *)
(* its end.                                                                *)
THEOREM StartReadsStore == Spec => []StartupReadsStore
  <1>1. LoopInv => StartupReadsStore BY DEF LoopInv, SaveUnderWay, StartupReadsStore
  <1>2. LoopInv /\ [Next]_vars => LoopInv' BY LoopInvKept
  <1> QED BY <1>1, <1>2, InitLoopInv, PTL DEF Spec

----------------------------------------------------------------------------
(* Types.  sort.Slice leaves a history of the same snapshots, each of them *)
(* once.                                                                   *)

NoRepeats(s) == \A i, j \in DOMAIN s : s[i] = s[j] => i = j

LEMMA ElementsFinite ==
    ASSUME NEW s \in Seq(Snapshots)
    PROVE  ToSet(s) \subseteq Snapshots /\ IsFiniteSet(ToSet(s))
  <1>1. Len(s) \in Nat /\ DOMAIN s = 1..Len(s) /\ s \in [1..Len(s) -> Snapshots]
    BY LenProperties
  <1>2. ToSet(s) \subseteq Snapshots BY <1>1 DEF ToSet
  <1>3. s \in Surjection(1..Len(s), ToSet(s)) BY <1>1 DEF Surjection, ToSet
  <1>4. IsFiniteSet(1..Len(s)) BY <1>1, FS_Interval
  <1> QED BY <1>2, <1>3, <1>4, FS_Surjection

LEMMA SortedTyped ==
    ASSUME NEW S, S \subseteq Snapshots, IsFiniteSet(S), NEW t \in Sorted(S)
    PROVE  t \in Seq(Snapshots) /\ ToSet(t) = S /\ Chronological(t) /\ NoRepeats(t)
  <1> DEFINE n == Cardinality(S)
  <1>1. n \in Nat BY FS_CardinalityType
  <1>2. t \in [1..n -> S] /\ ToSet(t) = S /\ Chronological(t) BY DEF Sorted
  <1>3. t \in Seq(Snapshots) BY <1>1, <1>2
  <1>4. IsFiniteSet(1..n) /\ Cardinality(1..n) = n BY <1>1, FS_Interval
  <1>5. t \in Surjection(1..n, S) BY <1>2 DEF Surjection, ToSet
  <1>6. t \in Injection(1..n, S) BY <1>4, <1>5, FS_SurjSameCardinalityImpliesInj
  <1> HIDE DEF n
  <1>7. NoRepeats(t) BY <1>2, <1>6 DEF Injection, IsInjective, NoRepeats
  <1> QED BY <1>2, <1>3, <1>7

LoopTyped ==
    /\ TypeOK /\ (pc = "storing" => value \in Snapshots)
    /\ NoRepeats(items)

LEMMA BoundsTyped == MaxTime \in Nat /\ MaxSnapshots \in Nat /\ MaxCrashes \in Nat
  BY BoundsAssumption

LEMMA PartialTyped == Partial \in [whole : BOOLEAN, items : Seq(Snapshots)]
  <1>1. <<>> \in Seq(Snapshots) OBVIOUS
  <1> QED BY <1>1 DEF Partial

LEMMA NoRepeatsInEmpty == NoRepeats(<<>>)
  BY DEF NoRepeats

(* The steps that change neither memory nor disk.                          *)
LEMMA QuietTyped ==
    ASSUME LoopTyped, Tick \/ StepBack \/ Wake \/ Collect
    PROVE  LoopTyped'
  <1>1. MaxTime \in Nat /\ MaxSnapshots \in Nat BY BoundsTyped
  <1>2. CASE Tick \/ StepBack
    BY <1>1, <1>2 DEF Tick, StepBack, LoopTyped, TypeOK, storeVars, Running, NoRepeats
  <1>3. CASE Wake \/ CountersAnswer \/ SourceFails
    BY <1>3 DEF Wake, CountersAnswer, SourceFails, LoopTyped, TypeOK, storeVars, Running, NoRepeats
  <1>4. CASE IdentitiesAnswer
    <2>1. /\ pc = "identities" /\ pc' = "storing" /\ next <= MaxSnapshots
          /\ value' = [id |-> next, at |-> clock] /\ next' = next + 1
          /\ UNCHANGED <<clock, crashes, items, tmp, disk, saved, newest, posted>>
      BY <1>4 DEF IdentitiesAnswer, storeVars
    <2>2. next \in 1..MaxSnapshots /\ clock \in 0..MaxTime
      BY <1>1, <2>1 DEF LoopTyped, TypeOK
    <2>3. value' \in Snapshots /\ next' \in 1..MaxSnapshots + 1
      BY <1>1, <2>1, <2>2 DEF Snapshots
    <2> QED BY <2>1, <2>3 DEF LoopTyped, TypeOK, Running, NoRepeats
  <1> QED BY <1>2, <1>3, <1>4 DEF Collect

LEMMA StoreTyped == ASSUME LoopTyped, Store PROVE LoopTyped'
  <1> DEFINE S == {item \in ToSet(items) \cup {value} : Kept(item, value)}
  <1>1. /\ pc = "storing" /\ pc' = "persisting"
        /\ items' \in Sorted(S)
        /\ newest' = IF value.at > newest THEN value.at ELSE newest
        /\ UNCHANGED <<clock, crashes, next, value, tmp, disk, saved, posted>>
    BY DEF Store
  <1>2. value \in Snapshots /\ items \in Seq(Snapshots)
    BY <1>1 DEF LoopTyped, TypeOK
  <1>3. ToSet(items) \subseteq Snapshots /\ IsFiniteSet(ToSet(items))
    BY <1>2, ElementsFinite
  <1>4. IsFiniteSet(ToSet(items) \cup {value}) BY <1>3, FS_AddElement
  <1>5. S \subseteq Snapshots /\ IsFiniteSet(S)
    <2>1. S \in SUBSET (ToSet(items) \cup {value}) OBVIOUS
    <2> QED BY <1>2, <1>3, <1>4, <2>1, FS_Subset
  <1> HIDE DEF S
  <1>6. items' \in Seq(Snapshots) /\ NoRepeats(items') BY <1>1, <1>5, SortedTyped
  <1>7. newest' \in 0..MaxTime
    <2>1. value.at \in 0..MaxTime BY <1>2 DEF Snapshots
    <2> QED BY <1>1, <2>1 DEF LoopTyped, TypeOK
  <1> QED BY <1>1, <1>6, <1>7 DEF LoopTyped, TypeOK, Running

LEMMA PersistTyped ==
    ASSUME LoopInv, LoopTyped, CreateTemp \/ WriteTemp \/ Rename \/ PersistFails
    PROVE  LoopTyped'
  <1>1. Partial \in [whole : BOOLEAN, items : Seq(Snapshots)] BY PartialTyped
  <1>2. CASE CreateTemp \/ WriteTemp \/ PersistFails
    <2>1. /\ tmp' = Whole(items) \/ tmp' = Partial
          /\ pc' \in {"writing", "renaming", "waiting"}
          /\ UNCHANGED <<clock, crashes, next, value, items, disk, saved, newest, posted>>
      BY <1>2 DEF CreateTemp, WriteTemp, PersistFails
    <2>2. Whole(items) \in [whole : BOOLEAN, items : Seq(Snapshots)]
      BY DEF LoopTyped, TypeOK, Whole
    <2> QED BY <1>1, <2>1, <2>2 DEF LoopTyped, TypeOK, NoRepeats
  <1>3. CASE Rename
    <2>1. /\ pc = "renaming" /\ pc' = "pushing" /\ tmp' = Partial
          /\ disk' = tmp /\ saved' = saved \cup {value}
          /\ UNCHANGED <<clock, crashes, next, value, items, newest, posted>>
      BY <1>3 DEF Rename
    <2>2. value \in Snapshots
      BY <2>1, ElementsFinite DEF LoopInv, SaveUnderWay, LoopTyped, TypeOK
    <2>3. disk' \in [whole : BOOLEAN, items : Seq(Snapshots)]
      BY <2>1 DEF LoopTyped, TypeOK
    <2> QED BY <1>1, <2>1, <2>2, <2>3 DEF LoopTyped, TypeOK, NoRepeats
  <1> QED BY <1>2, <1>3

LEMMA PushTyped == ASSUME LoopInv, LoopTyped, Push PROVE LoopTyped'
  <1>1. /\ pc = "pushing" /\ pc' = "waiting" /\ posted' = posted \cup {value}
        /\ UNCHANGED <<clock, crashes, next, value, items, tmp, disk, saved, newest>>
    BY DEF Push, storeVars
  <1>2. value \in Snapshots BY <1>1 DEF LoopInv, SaveUnderWay, LoopTyped, TypeOK
  <1> QED BY <1>1, <1>2 DEF LoopTyped, TypeOK, NoRepeats

LEMMA CrashTyped == ASSUME LoopTyped, Crash \/ Restart PROVE LoopTyped'
  <1>1. <<>> \in Seq(Snapshots) OBVIOUS
  <1>2. CASE Crash
    <2>1. /\ crashes < MaxCrashes /\ crashes' = crashes + 1 /\ pc' = "down"
          /\ value' = None /\ items' = <<>> /\ tmp' = Partial
          /\ UNCHANGED <<clock, next, disk, saved, newest, posted>>
      BY <1>2 DEF Crash
    <2>2. crashes' \in 0..MaxCrashes BY <2>1, BoundsTyped DEF LoopTyped, TypeOK
    <2> QED BY <1>1, <2>1, <2>2, NoRepeatsInEmpty, PartialTyped DEF LoopTyped, TypeOK, Running
  <1>3. CASE Restart
    <2>1. /\ pc' = "counters" /\ items' \in Sorted(ToSet(disk.items))
          /\ UNCHANGED <<clock, crashes, next, value, tmp, disk, saved, newest, posted>>
      BY <1>3 DEF Restart
    <2>2. disk.items \in Seq(Snapshots) BY DEF LoopTyped, TypeOK
    <2>3. items' \in Seq(Snapshots) /\ NoRepeats(items')
      BY <2>1, <2>2, ElementsFinite, SortedTyped
    <2> QED BY <2>1, <2>3 DEF LoopTyped, TypeOK
  <1> QED BY <1>2, <1>3

LEMMA LoopTypedKept == ASSUME LoopInv, LoopTyped, [Next]_vars PROVE LoopTyped'
  <1>1. CASE UNCHANGED vars
    BY <1>1 DEF vars, storeVars, LoopTyped, TypeOK, Running, NoRepeats
  <1> QED BY <1>1, QuietTyped, StoreTyped, PersistTyped, PushTyped, CrashTyped DEF Next, Save

LEMMA InitLoopTyped == Init => LoopTyped
  <1> SUFFICES ASSUME Init PROVE LoopTyped
    OBVIOUS
  <1>1. <<>> \in Seq(Snapshots) OBVIOUS
  <1>2. Whole(<<>>) \in [whole : BOOLEAN, items : Seq(Snapshots)] BY <1>1 DEF Whole
  <1> QED BY <1>1, <1>2, PartialTyped, BoundsTyped, NoRepeatsInEmpty
      DEF Init, LoopTyped, TypeOK

(* Every variable keeps its type: what is stored, written, saved or POSTed *)
(* is a snapshot that was collected.                                       *)
THEOREM LoopTypeCorrect == Spec => []TypeOK
  <1>1. LoopTyped => TypeOK BY DEF LoopTyped
  <1>2. LoopInv /\ LoopTyped /\ [Next]_vars => (LoopInv /\ LoopTyped)'
    BY LoopInvKept, LoopTypedKept
  <1> QED BY <1>1, <1>2, InitLoopInv, InitLoopTyped, PTL DEF Spec

----------------------------------------------------------------------------
(* Places in a list, counted from the first: the k-th of them.             *)

RankIn(P, i) == Cardinality({j \in P : j <= i})

LEMMA RanksGrow ==
    ASSUME NEW P \in SUBSET Nat, IsFiniteSet(P)
    PROVE  /\ \A i \in P : RankIn(P, i) \in 1..Cardinality(P)
           /\ \A i, j \in P : i < j => RankIn(P, i) < RankIn(P, j)
           /\ \A k \in 1..Cardinality(P) : \E i \in P : RankIn(P, i) = k
  <1> DEFINE Upto(i) == {j \in P : j <= i}
             n == Cardinality(P)
  <1>1. n \in Nat BY FS_CardinalityType
  <1>2. ASSUME NEW i \in P
        PROVE  IsFiniteSet(Upto(i)) /\ Cardinality(Upto(i)) \in 1..n
    <2>1. Upto(i) \in SUBSET P OBVIOUS
    <2>2. IsFiniteSet(Upto(i)) /\ Cardinality(Upto(i)) <= n BY <2>1, FS_Subset
    <2>3. i \in Upto(i) OBVIOUS
    <2>4. Cardinality(Upto(i)) # 0 BY <2>2, <2>3, FS_EmptySet
    <2>5. Cardinality(Upto(i)) \in Nat BY <2>2, FS_CardinalityType
    <2> QED BY <1>1, <2>2, <2>4, <2>5
  <1>3. ASSUME NEW i \in P, NEW j \in P, i < j
        PROVE  Cardinality(Upto(i)) < Cardinality(Upto(j))
    <2>1. i \in Nat /\ j \in Nat /\ \A x \in P : x \in Nat OBVIOUS
    <2>2. \A x \in P : x <= i => x <= j BY <1>3, <2>1
    <2>3. Upto(i) \in SUBSET Upto(j) BY <2>2
    <2>4. j \in Upto(j) /\ j \notin Upto(i) BY <1>3
    <2>5. IsFiniteSet(Upto(j)) /\ Cardinality(Upto(i)) \in Nat /\ Cardinality(Upto(j)) \in Nat
      BY <1>2
    <2>6. Upto(i) # Upto(j) BY <2>4
    <2> HIDE DEF Upto
    <2>7. Cardinality(Upto(i)) <= Cardinality(Upto(j))
          /\ Cardinality(Upto(j)) # Cardinality(Upto(i))
      BY <2>3, <2>5, <2>6, FS_Subset
    <2> QED BY <2>5, <2>7
  <1>4. ASSUME NEW k \in 1..n PROVE \E i \in P : Cardinality(Upto(i)) = k
    <2> DEFINE f == [i \in P |-> Cardinality(Upto(i))]
    <2>1. f \in [P -> 1..n] BY <1>2
    <2>2. \A i, j \in P : f[i] = f[j] => i = j
      <3> SUFFICES ASSUME NEW i \in P, NEW j \in P, i # j PROVE f[i] # f[j]
        OBVIOUS
      <3>1. i < j \/ j < i OBVIOUS
      <3>2. f[i] \in 1..n /\ f[j] \in 1..n BY <2>1
      <3>3. f[i] < f[j] \/ f[j] < f[i] BY <1>3, <3>1
      <3> QED BY <3>2, <3>3
    <2>3. f \in Injection(P, 1..n)
      <3> HIDE DEF f
      <3> QED BY <2>1, <2>2 DEF Injection, IsInjective
    <2>4. IsFiniteSet(1..n) /\ Cardinality(1..n) = n BY <1>1, FS_Interval
    <2> HIDE DEF f
    <2>5. f \in Surjection(P, 1..n) BY <2>3, <2>4, FS_Injection
    <2>6. PICK i \in P : f[i] = k BY <2>5 DEF Surjection
    <2> QED BY <2>6 DEF f
  <1> QED BY <1>2, <1>3, <1>4 DEF RankIn

(* The snapshots that match are those of the items, in their order.        *)
LEMMA MatchingInOrder ==
    ASSUME LoopInv, LoopTyped
    PROVE  /\ Matching \in Seq(Snapshots)
           /\ ToSet(Matching) = {item \in ToSet(items) : InWindow(item) /\ BehindCursor(item)}
           /\ Chronological(Matching) /\ NoRepeats(Matching)
  <1> DEFINE n == Cardinality(Places)
             at(k) == CHOOSE i \in Places : Rank(i) = k
             m == Matching
  <1>1. items \in Seq(Snapshots) /\ NoRepeats(items) /\ Chronological(items)
    BY DEF LoopTyped, TypeOK, LoopInv, InOrder
  <1>2. Len(items) \in Nat /\ DOMAIN items = 1..Len(items)
        /\ \A i \in 1..Len(items) : items[i] \in Snapshots
    BY <1>1, LenProperties, ElementOfSeq
  <1>3. Places \in SUBSET (1..Len(items)) BY <1>2 DEF Places
  <1>4. IsFiniteSet(Places) /\ Places \in SUBSET Nat
    <2>1. IsFiniteSet(1..Len(items)) BY <1>2, FS_Interval
    <2>2. IsFiniteSet(Places) BY <1>3, <2>1, FS_Subset
    <2>3. \A i \in Places : i \in Nat BY <1>2, <1>3
    <2> QED BY <2>2, <2>3
  <1>5. n \in Nat BY <1>4, FS_CardinalityType
  <1>6. \A i : Rank(i) = RankIn(Places, i) BY DEF Rank, RankIn
  <1>7. /\ \A i \in Places : Rank(i) \in 1..n
        /\ \A i, j \in Places : i < j => Rank(i) < Rank(j)
        /\ \A k \in 1..n : \E i \in Places : Rank(i) = k
    BY <1>4, <1>6, RanksGrow
  <1>8. m = [k \in 1..n |-> items[at(k)]] BY DEF Matching
  <1>9. \A k \in 1..n : at(k) \in Places /\ Rank(at(k)) = k BY <1>7
  <1>10. \A i \in Places : Rank(i) \in 1..n /\ at(Rank(i)) = i
    <2> SUFFICES ASSUME NEW i \in Places PROVE Rank(i) \in 1..n /\ at(Rank(i)) = i
      OBVIOUS
    <2> DEFINE j == at(Rank(i))
    <2>1. Rank(i) \in 1..n BY <1>7
    <2>2. j \in Places /\ Rank(j) = Rank(i) BY <1>9, <2>1
    <2> HIDE DEF j
    <2>3. ~(i < j) /\ ~(j < i) BY <1>7, <2>1, <2>2
    <2>4. i = j BY <1>3, <2>2, <2>3
    <2> QED BY <2>1, <2>4 DEF j
  <1>11. \A k, l \in 1..n : k < l => at(k) < at(l)
    <2> SUFFICES ASSUME NEW k \in 1..n, NEW l \in 1..n, k < l, ~(at(k) < at(l)) PROVE FALSE
      OBVIOUS
    <2> DEFINE i == at(k)
               j == at(l)
    <2>1. i \in Places /\ j \in Places /\ Rank(i) = k /\ Rank(j) = l /\ ~(i < j) BY <1>9
    <2> HIDE DEF i, j
    <2>2. i \in Nat /\ j \in Nat BY <1>4, <2>1
    <2>3. i = j \/ j < i BY <2>1, <2>2
    <2>4. k \in Nat /\ l \in Nat BY <1>5
    <2> QED BY <1>7, <2>1, <2>3, <2>4
  <1> HIDE DEF at, n, m
  <1>12. \A k \in 1..n : at(k) \in 1..Len(items) /\ m[k] = items[at(k)] BY <1>3, <1>8, <1>9
  <1>13. m \in [1..n -> Snapshots] BY <1>2, <1>8, <1>12
  <1>14. m \in Seq(Snapshots) /\ DOMAIN m = 1..n BY <1>5, <1>13
  <1>15. ASSUME NEW v \in ToSet(m)
         PROVE  v \in ToSet(items) /\ InWindow(v) /\ BehindCursor(v)
    <2>1. PICK k \in 1..n : v = m[k] BY <1>14, <1>15 DEF ToSet
    <2>2. at(k) \in Places /\ v = items[at(k)] BY <1>9, <1>12, <2>1
    <2> QED BY <2>2 DEF Places, ToSet
  <1>16. ASSUME NEW v \in ToSet(items), InWindow(v), BehindCursor(v)
         PROVE  v \in ToSet(m)
    <2>1. PICK i \in DOMAIN items : v = items[i] BY <1>16 DEF ToSet
    <2>2. i \in Places BY <1>16, <2>1 DEF Places
    <2>3. Rank(i) \in 1..n /\ m[Rank(i)] = v BY <1>10, <1>12, <2>1, <2>2
    <2> QED BY <1>14, <2>3 DEF ToSet
  <1>17. Chronological(m)
    BY <1>1, <1>2, <1>11, <1>12, <1>14 DEF Chronological
  <1>18. NoRepeats(m)
    <2> SUFFICES ASSUME NEW k \in 1..n, NEW l \in 1..n, m[k] = m[l] PROVE k = l
      BY <1>14 DEF NoRepeats
    <2>1. at(k) = at(l) BY <1>1, <1>2, <1>12 DEF NoRepeats
    <2> QED BY <1>9, <2>1
  <1> QED BY <1>14, <1>15, <1>16, <1>17, <1>18 DEF m

(* A page is the beginning of them, and has all of them or as many as the  *)
(* request allows; where it ends, has_more tells of a later one.           *)
LEMMA PageInOrder ==
    ASSUME LoopInv, LoopTyped
    PROVE  /\ Page \in Seq(Snapshots) /\ Chronological(Page) /\ NoRepeats(Page)
           /\ \A v \in ToSet(Page) : v \in ToSet(items) /\ InWindow(v) /\ BehindCursor(v)
           /\ Page # <<>> => Last(Page) \in ToSet(Page)
                             /\ \A v \in ToSet(Page) : v.at <= Last(Page).at
           /\ \A v \in ToSet(items) : InWindow(v) /\ BehindCursor(v) =>
                /\ Page # <<>>
                /\ v \in ToSet(Page) \/ v.at >= Last(Page).at
                /\ v.at > Last(Page).at => HasMore
  <1> DEFINE m == Matching
             n == Len(m)
             c == IF Len(Matching) < Limit THEN Len(Matching) ELSE Limit
             p == Page
  <1>1. /\ m \in Seq(Snapshots)
        /\ ToSet(m) = {item \in ToSet(items) : InWindow(item) /\ BehindCursor(item)}
        /\ Chronological(m) /\ NoRepeats(m)
    BY MatchingInOrder
  <1>2. n \in Nat /\ DOMAIN m = 1..n /\ \A i \in 1..n : m[i] \in Snapshots
    BY <1>1, LenProperties, ElementOfSeq
  <1>3. c \in Nat /\ c <= n /\ (n > 0 => c > 0) /\ (c < n => c = Limit)
    <2>1. Limit \in Nat /\ Limit > 0 BY LimitAssumption
    <2>2. n \in Nat /\ c = IF n < Limit THEN n ELSE Limit BY <1>2
    <2> HIDE DEF n, c
    <2> QED BY <2>1, <2>2
  <1>4. p = SubSeq(m, 1, c) BY DEF Page
  <1>5. HasMore <=> p # <<>> /\ \E v \in ToSet(m) : v.at > Last(p).at BY DEF HasMore
  <1> HIDE DEF m, n, c, p
  <1>6. p \in Seq(Snapshots) /\ Len(p) = c /\ \A i \in 1..c : p[i] = m[i]
    <2>1. \A i \in 1..c : m[i] \in Snapshots BY <1>2, <1>3
    <2>2. /\ SubSeq(m, 1, c) \in Seq(Snapshots)
          /\ Len(SubSeq(m, 1, c)) = IF 1 <= c THEN c - 1 + 1 ELSE 0
          /\ \A i \in 1..c - 1 + 1 : SubSeq(m, 1, c)[i] = m[1 + i - 1]
      BY <1>3, <2>1, SubSeqProperties
    <2> QED BY <1>3, <1>4, <2>2
  <1>7. DOMAIN p = 1..c BY <1>6, LenProperties
  <1>8. \A i \in 1..c : i \in 1..n BY <1>2, <1>3
  <1>9. Chronological(p) BY <1>1, <1>2, <1>6, <1>7, <1>8 DEF Chronological
  <1>10. NoRepeats(p) BY <1>1, <1>2, <1>6, <1>7, <1>8 DEF NoRepeats
  <1>11. ToSet(p) \subseteq ToSet(m) BY <1>2, <1>6, <1>7, <1>8 DEF ToSet
  <1>12. p # <<>> => c \in 1..c /\ Last(p) = p[c]
    <2> SUFFICES ASSUME p # <<>> PROVE c \in 1..c /\ Last(p) = p[c]
      OBVIOUS
    <2>1. c # 0 BY <1>6, EmptySeq
    <2> QED BY <1>3, <1>6, <2>1 DEF Last
  <1>13. n > 0 => p # <<>>
    <2>1. Len(<<>>) = 0 BY EmptySeq
    <2> QED BY <1>3, <1>6, <2>1
  <1>14. p # <<>> => Last(p) \in ToSet(p) BY <1>7, <1>12 DEF ToSet
  <1>15. \A v \in Snapshots : v.at \in 0..MaxTime BY DEF Snapshots
  <1>16. p # <<>> => \A v \in ToSet(p) : v.at <= Last(p).at
    <2> SUFFICES ASSUME p # <<>>, NEW i \in 1..c PROVE p[i].at <= p[c].at
      BY <1>7, <1>12 DEF ToSet
    <2>1. c \in 1..c BY <1>12
    <2>2. p[c].at \in 0..MaxTime BY <1>2, <1>6, <1>8, <1>15, <2>1
    <2>3. CASE i = c BY <2>2, <2>3, BoundsTyped
    <2>4. CASE i # c
      <3>1. i < c BY <1>3, <2>4
      <3> QED BY <1>7, <1>9, <2>1, <3>1 DEF Chronological
    <2> QED BY <2>3, <2>4
  <1>17. ASSUME NEW v \in ToSet(m)
         PROVE  /\ p # <<>>
                /\ v \in ToSet(p) \/ v.at >= Last(p).at
                /\ v.at > Last(p).at => HasMore
    <2>1. PICK i \in 1..n : v = m[i] BY <1>2, <1>17 DEF ToSet
    <2>2. p # <<>> BY <1>2, <1>13, <2>1
    <2>3. ASSUME i > c PROVE v.at >= Last(p).at
      <3>1. c \in 1..n /\ c < i BY <1>3, <1>8, <1>12, <2>2, <2>3
      <3>2. m[c].at <= m[i].at BY <1>1, <1>2, <3>1 DEF Chronological
      <3>3. Last(p) = m[c] BY <1>6, <1>12, <2>2
      <3>4. m[c].at \in 0..MaxTime /\ m[i].at \in 0..MaxTime BY <1>2, <1>15, <3>1
      <3> QED BY <2>1, <3>2, <3>3, <3>4, BoundsTyped
    <2>4. ASSUME ~(i > c) PROVE v \in ToSet(p)
      <3>1. i \in 1..c BY <1>3, <2>4
      <3> QED BY <1>6, <1>7, <2>1, <3>1 DEF ToSet
    <2> QED BY <1>5, <2>2, <2>3, <2>4
  <1> QED BY <1>1, <1>6, <1>9, <1>10, <1>11, <1>14, <1>16, <1>17 DEF p

----------------------------------------------------------------------------
(* The invariant of a fetch: what was delivered is not younger than the    *)
(* cursor, and each snapshot that was there all the time and is not        *)
(* younger either was delivered, or one of its time was.                   *)

PagesTyped ==
    /\ fetch \in {"idle", "paging", "done"}
    /\ since \in 0..MaxTime /\ until \in 0..MaxTime
    /\ cursor \in 0..MaxTime \cup {NoCursor}
    /\ delivered \in Seq(Snapshots)
    /\ present \subseteq Snapshots
    /\ Running => present \subseteq ToSet(items)

Passed(s) == \E d \in ToSet(delivered) : d.at = s.at

FetchInv ==
    /\ Chronological(delivered) /\ NoRepeats(delivered)
    /\ fetch = "idle" => cursor = NoCursor /\ delivered = <<>>
    /\ fetch = "paging" => \A d \in ToSet(delivered) : d.at <= cursor
    /\ fetch # "idle" => \A s \in present : InWindow(s)
    /\ fetch = "paging" => \A s \in present : s.at <= cursor => Passed(s)
    /\ fetch = "done" => \A s \in present : Passed(s)

PagesInv == LoopInv /\ LoopTyped /\ PagesTyped /\ FetchInv

(* A page behind what was delivered.                                       *)
LEMMA JoinedPlaces ==
    ASSUME NEW r \in Seq(Snapshots), NEW p \in Seq(Snapshots)
    PROVE  LET t == r \o p
           IN  /\ Len(r) \in Nat /\ Len(p) \in Nat
               /\ DOMAIN r = 1..Len(r) /\ DOMAIN p = 1..Len(p) /\ DOMAIN t = 1..Len(t)
               /\ t \in Seq(Snapshots) /\ Len(t) = Len(r) + Len(p)
               /\ \A i \in 1..Len(r) : i \in 1..Len(t) /\ t[i] = r[i]
               /\ \A i \in 1..Len(p) : Len(r) + i \in 1..Len(t) /\ t[Len(r) + i] = p[i]
               /\ \A i \in 1..Len(t) : i \notin 1..Len(r) =>
                     i > Len(r) /\ i - Len(r) \in 1..Len(p) /\ t[i] = p[i - Len(r)]
               /\ ToSet(t) = ToSet(r) \cup ToSet(p)
  <1> DEFINE t == r \o p
  <1>1. /\ Len(r) \in Nat /\ Len(p) \in Nat /\ DOMAIN r = 1..Len(r) /\ DOMAIN p = 1..Len(p)
    BY LenProperties
  <1>2. /\ t \in Seq(Snapshots) /\ Len(t) = Len(r) + Len(p)
        /\ \A i \in 1..Len(r) + Len(p) : t[i] = IF i <= Len(r) THEN r[i] ELSE p[i - Len(r)]
    BY ConcatProperties
  <1>3. DOMAIN t = 1..Len(t) BY <1>2, LenProperties
  <1> HIDE DEF t
  <1>4. \A i \in 1..Len(r) : i \in 1..Len(t) /\ t[i] = r[i] BY <1>1, <1>2
  <1>5. ASSUME NEW i \in 1..Len(p)
        PROVE  Len(r) + i \in 1..Len(t) /\ t[Len(r) + i] = p[i]
    <2>1. Len(r) + i \in 1..Len(r) + Len(p) /\ ~(Len(r) + i <= Len(r))
          /\ (Len(r) + i) - Len(r) = i
      BY <1>1
    <2> QED BY <1>2, <2>1
  <1>6. \A i \in 1..Len(t) : i \notin 1..Len(r) =>
           i > Len(r) /\ i - Len(r) \in 1..Len(p) /\ t[i] = p[i - Len(r)]
    BY <1>1, <1>2
  <1>7. ToSet(t) = ToSet(r) \cup ToSet(p)
    <2>1. ASSUME NEW v \in ToSet(t) PROVE v \in ToSet(r) \cup ToSet(p)
      BY <1>1, <1>3, <1>4, <1>6, <2>1 DEF ToSet
    <2>2. ASSUME NEW v \in ToSet(r) PROVE v \in ToSet(t)
      BY <1>1, <1>3, <1>4, <2>2 DEF ToSet
    <2>3. ASSUME NEW v \in ToSet(p) PROVE v \in ToSet(t)
      BY <1>1, <1>3, <1>5, <2>3 DEF ToSet
    <2> QED BY <2>1, <2>2, <2>3
  <1> QED BY <1>1, <1>2, <1>3, <1>4, <1>5, <1>6, <1>7 DEF t

LEMMA JoinedPages ==
    ASSUME NEW r \in Seq(Snapshots), NEW p \in Seq(Snapshots),
           Chronological(r), Chronological(p), NoRepeats(r), NoRepeats(p),
           \A v \in ToSet(r), w \in ToSet(p) : v.at < w.at
    PROVE  Chronological(r \o p) /\ NoRepeats(r \o p)
  <1> DEFINE t == r \o p
  <1>1. /\ Len(r) \in Nat /\ Len(p) \in Nat
        /\ DOMAIN r = 1..Len(r) /\ DOMAIN p = 1..Len(p) /\ DOMAIN t = 1..Len(t)
        /\ t \in Seq(Snapshots) /\ Len(t) = Len(r) + Len(p)
        /\ \A i \in 1..Len(r) : i \in 1..Len(t) /\ t[i] = r[i]
        /\ \A i \in 1..Len(t) : i \notin 1..Len(r) =>
              i > Len(r) /\ i - Len(r) \in 1..Len(p) /\ t[i] = p[i - Len(r)]
    BY JoinedPlaces
  <1> HIDE DEF t
  <1>2. \A v \in Snapshots : v.at \in 0..MaxTime BY DEF Snapshots
  <1>3. ASSUME NEW i \in 1..Len(t), NEW j \in 1..Len(t), i < j
        PROVE  t[i].at <= t[j].at /\ t[i] # t[j]
    <2>1. CASE i \in 1..Len(r) /\ j \in 1..Len(r)
      <3>1. t[i] = r[i] /\ t[j] = r[j] BY <1>1, <2>1
      <3>2. i # j BY <1>3
      <3> QED BY <1>1, <1>3, <2>1, <3>1, <3>2 DEF Chronological, NoRepeats
    <2>2. CASE i \in 1..Len(r) /\ j \notin 1..Len(r)
      <3>1. t[i] \in ToSet(r) BY <1>1, <2>2 DEF ToSet
      <3>2. t[j] \in ToSet(p) BY <1>1, <2>2 DEF ToSet
      <3>3. t[i].at < t[j].at BY <3>1, <3>2
      <3>4. t[i].at \in 0..MaxTime /\ t[j].at \in 0..MaxTime
        BY <1>1, <1>2, ElementOfSeq
      <3> QED BY <3>3, <3>4, BoundsTyped
    <2>3. CASE i \notin 1..Len(r)
      <3>1. j \notin 1..Len(r) BY <1>1, <1>3, <2>3
      <3>2. i - Len(r) \in 1..Len(p) /\ j - Len(r) \in 1..Len(p)
            /\ t[i] = p[i - Len(r)] /\ t[j] = p[j - Len(r)]
        BY <1>1, <2>3, <3>1
      <3>3. i - Len(r) < j - Len(r) /\ i - Len(r) # j - Len(r) BY <1>1, <1>3
      <3> QED BY <1>1, <3>2, <3>3 DEF Chronological, NoRepeats
    <2> QED BY <2>1, <2>2, <2>3
  <1>4. Chronological(t) BY <1>1, <1>3 DEF Chronological
  <1>5. NoRepeats(t)
    <2> SUFFICES ASSUME NEW i \in 1..Len(t), NEW j \in 1..Len(t), t[i] = t[j] PROVE i = j
      BY <1>1 DEF NoRepeats
    <2>1. ~(i < j) /\ ~(j < i) BY <1>3
    <2> QED BY <2>1
  <1> QED BY <1>4, <1>5 DEF t

LEMMA NoCursorBelow ==
    /\ NoCursor \in Int
    /\ \A s \in Snapshots : /\ s.at \in 0..MaxTime /\ s.at \in Int
                            /\ ~(s.at <= NoCursor) /\ NoCursor < s.at
  BY BoundsTyped DEF Snapshots, NoCursor

(* The client's first request.                                             *)
LEMMA AskKeeps ==
    ASSUME PagesInv, NEW s \in 0..MaxTime, NEW u \in 0..MaxTime, Ask(s, u)
    PROVE  PagesInv'
  <1>1. /\ fetch = "idle" /\ fetch' = "paging" /\ since' = s /\ until' = u
        /\ present' = {item \in ToSet(items) : item.at >= s /\ item.at <= u}
        /\ UNCHANGED <<vars, cursor, delivered>>
    BY DEF Ask
  <1>2. UNCHANGED <<clock, crashes, pc, next, value, items, tmp, disk, saved, newest, posted>>
    BY <1>1 DEF vars, storeVars
  <1>3. LoopInv' /\ LoopTyped'
    <2>1. [Next]_vars BY <1>1
    <2> QED BY <2>1, LoopInvKept, LoopTypedKept DEF PagesInv
  <1>4. PagesTyped'
    <2>1. items \in Seq(Snapshots) BY DEF PagesInv, LoopTyped, TypeOK
    <2>2. present' \subseteq ToSet(items) /\ ToSet(items) \subseteq Snapshots
      BY <1>1, <2>1, ElementsFinite
    <2> QED BY <1>1, <1>2, <2>2 DEF PagesInv, PagesTyped
  <1>5. cursor = NoCursor /\ delivered = <<>> BY <1>1 DEF PagesInv, FetchInv
  <1>6. items \in Seq(Snapshots) BY DEF PagesInv, LoopTyped, TypeOK
  <1>7. \A item \in present' : item \in Snapshots /\ InWindow(item)'
    BY <1>1, <1>6, ElementsFinite DEF InWindow
  <1>8. \A item \in present' : ~(item.at <= cursor') BY <1>1, <1>5, <1>7, NoCursorBelow
  <1>9. ToSet(<<>>) = {} /\ Chronological(<<>>) /\ NoRepeats(<<>>)
    BY EmptyHistory, NoRepeatsInEmpty
  <1>10. FetchInv' BY <1>1, <1>5, <1>7, <1>8, <1>9 DEF FetchInv
  <1> QED BY <1>3, <1>4, <1>10 DEF PagesInv

(* A page: its snapshots are younger than the cursor, and what it does not *)
(* bring is not older than its last.                                       *)
LEMMA GetPageKeeps == ASSUME PagesInv, GetPage PROVE PagesInv'
  <1> DEFINE p == Page
             l == Last(Page)
  <1>1. /\ fetch = "paging" /\ delivered' = delivered \o p
        /\ IF HasMore THEN cursor' = l.at /\ fetch' = "paging"
                      ELSE fetch' = "done" /\ UNCHANGED cursor
        /\ UNCHANGED <<vars, since, until, present>> /\ Running
    BY DEF GetPage, CanRead
  <1>2. UNCHANGED <<clock, crashes, pc, next, value, items, tmp, disk, saved, newest, posted>>
    BY <1>1 DEF vars, storeVars
  <1>3. LoopInv' /\ LoopTyped'
    <2>1. [Next]_vars BY <1>1
    <2> QED BY <2>1, LoopInvKept, LoopTypedKept DEF PagesInv
  <1>4. /\ p \in Seq(Snapshots) /\ Chronological(p) /\ NoRepeats(p)
        /\ \A v \in ToSet(p) : v \in ToSet(items) /\ InWindow(v) /\ BehindCursor(v)
        /\ p # <<>> => l \in ToSet(p) /\ \A v \in ToSet(p) : v.at <= l.at
        /\ \A v \in ToSet(items) : InWindow(v) /\ BehindCursor(v) =>
             p # <<>> /\ (v \in ToSet(p) \/ v.at >= l.at) /\ (v.at > l.at => HasMore)
    BY PageInOrder DEF PagesInv
  <1>5. HasMore => p # <<>> BY DEF HasMore
  <1>6. /\ delivered \in Seq(Snapshots) /\ Chronological(delivered) /\ NoRepeats(delivered)
        /\ present \subseteq ToSet(items) /\ ToSet(items) \subseteq Snapshots
        /\ \A d \in ToSet(delivered) : d.at <= cursor
        /\ \A s \in present : InWindow(s) /\ (s.at <= cursor => Passed(s))
        /\ cursor \in 0..MaxTime \cup {NoCursor} /\ cursor \in Int
    <2>1. items \in Seq(Snapshots) BY DEF PagesInv, LoopTyped, TypeOK
    <2>2. cursor \in 0..MaxTime \cup {NoCursor} BY DEF PagesInv, PagesTyped
    <2>3. cursor \in Int BY <2>2, BoundsTyped DEF NoCursor
    <2> QED BY <1>1, <2>1, <2>2, <2>3, ElementsFinite DEF PagesInv, PagesTyped, FetchInv
  <1>7. \A v \in Snapshots : BehindCursor(v) <=> v.at > cursor
    BY <1>6, NoCursorBelow DEF BehindCursor
  <1> HIDE DEF p, l
  <1>8. ToSet(p) \subseteq Snapshots /\ ToSet(delivered) \subseteq Snapshots
    BY <1>4, <1>6, ElementsFinite
  <1>9. \A v \in ToSet(delivered), w \in ToSet(p) : v.at < w.at
    <2> SUFFICES ASSUME NEW v \in ToSet(delivered), NEW w \in ToSet(p) PROVE v.at < w.at
      OBVIOUS
    <2>1. v.at <= cursor BY <1>6
    <2>2. w.at > cursor BY <1>4, <1>7, <1>8
    <2>3. v.at \in Int /\ w.at \in Int BY <1>8, NoCursorBelow
    <2> QED BY <1>6, <2>1, <2>2, <2>3
  <1>10. /\ delivered' \in Seq(Snapshots) /\ ToSet(delivered') = ToSet(delivered) \cup ToSet(p)
         /\ Chronological(delivered') /\ NoRepeats(delivered')
    BY <1>1, <1>4, <1>6, <1>9, JoinedPlaces, JoinedPages
  \* Not older than the last of the page, and no page behind it: as old as it.
  <1>11. ASSUME NEW s \in present, HasMore => s.at <= l.at
         PROVE  \E d \in ToSet(delivered') : d.at = s.at
    <2>1. s \in ToSet(items) /\ s \in Snapshots /\ InWindow(s) /\ s.at \in Int
      BY <1>6, NoCursorBelow
    <2>2. CASE s.at <= cursor BY <1>6, <1>10, <2>2 DEF Passed
    <2>3. CASE ~(s.at <= cursor)
      <3>1. BehindCursor(s) BY <1>6, <1>7, <2>1, <2>3
      <3>2. p # <<>> /\ (s \in ToSet(p) \/ s.at >= l.at) /\ (s.at > l.at => HasMore)
        BY <1>4, <2>1, <3>1
      <3>3. l \in ToSet(p) /\ l.at \in Int BY <1>4, <1>8, <3>2, NoCursorBelow
      <3>4. s \in ToSet(p) \/ s.at = l.at BY <1>11, <2>1, <3>2, <3>3
      <3> QED BY <1>10, <3>3, <3>4
    <2> QED BY <2>2, <2>3
  <1>12. PagesTyped'
    <2>1. HasMore => l.at \in 0..MaxTime BY <1>4, <1>5, <1>8, NoCursorBelow
    <2> QED BY <1>1, <1>2, <1>6, <1>10, <2>1 DEF PagesInv, PagesTyped, Running
  <1>13. FetchInv'
    <2>1. CASE HasMore
      <3>1. fetch' = "paging" /\ cursor' = l.at BY <1>1, <2>1
      <3>2. ASSUME NEW d \in ToSet(delivered') PROVE d.at <= l.at
        <4>1. l \in ToSet(p) /\ l.at \in Int BY <1>4, <1>5, <1>8, <2>1, NoCursorBelow
        <4>2. CASE d \in ToSet(p) BY <1>4, <1>5, <2>1, <4>2
        <4>3. CASE d \in ToSet(delivered)
          <5>1. d.at < l.at /\ d.at \in Int BY <1>8, <1>9, <4>1, <4>3, NoCursorBelow
          <5> QED BY <4>1, <5>1
        <4> QED BY <1>10, <4>2, <4>3
      <3>3. \A s \in present : s.at <= l.at => \E d \in ToSet(delivered') : d.at = s.at
        BY <1>11
      <3> QED BY <1>1, <1>6, <1>10, <3>1, <3>2, <3>3 DEF FetchInv, Passed, InWindow
    <2>2. CASE ~HasMore
      <3>1. fetch' = "done" BY <1>1, <2>2
      <3>2. \A s \in present : \E d \in ToSet(delivered') : d.at = s.at BY <1>11, <2>2
      <3> QED BY <1>1, <1>6, <1>10, <3>1, <3>2 DEF FetchInv, Passed, InWindow
    <2> QED BY <2>1, <2>2
  <1> QED BY <1>3, <1>12, <1>13 DEF PagesInv

(* The loop goes on, and what it removes is no longer looked for.          *)
LEMMA LoopStepKeeps == ASSUME PagesInv, LoopStep PROVE PagesInv'
  <1>1. /\ Next
        /\ present' = IF pc' = "down" THEN present ELSE present \cap ToSet(items')
        /\ UNCHANGED <<fetch, since, until, cursor, delivered>>
    BY DEF LoopStep
  <1>2. LoopInv' /\ LoopTyped' BY <1>1, LoopInvKept, LoopTypedKept DEF PagesInv
  <1>3. PagesTyped' BY <1>1 DEF PagesInv, PagesTyped, Running
  <1>4. FetchInv' BY <1>1 DEF PagesInv, FetchInv, Passed, InWindow
  <1> QED BY <1>2, <1>3, <1>4 DEF PagesInv

LEMMA PagesInvKept == ASSUME PagesInv, [PagesNext]_allVars PROVE PagesInv'
  <1>1. CASE \E w \in Windows : Ask(w[1], w[2]) BY <1>1, AskKeeps, WindowsAssumption
  <1>2. CASE GetPage BY <1>2, GetPageKeeps
  <1>3. CASE LoopStep BY <1>3, LoopStepKeeps
  <1>4. CASE UNCHANGED allVars
    <2>1. UNCHANGED <<vars, fetch, since, until, cursor, delivered, present>>
      BY <1>4 DEF allVars, clientVars
    <2>2. LoopInv' /\ LoopTyped'
      BY <2>1, LoopInvKept, LoopTypedKept DEF PagesInv
    <2>3. UNCHANGED <<items, pc>> BY <2>1 DEF vars, storeVars
    <2> QED BY <2>1, <2>2, <2>3 DEF PagesInv, PagesTyped, Running, FetchInv, Passed, InWindow
  <1> QED BY <1>1, <1>2, <1>3, <1>4 DEF PagesNext

LEMMA InitPagesInv == PagesInit => PagesInv
  <1> SUFFICES ASSUME PagesInit PROVE PagesTyped /\ FetchInv
    BY InitLoopInv, InitLoopTyped DEF PagesInv, PagesInit
  <1>1. <<>> \in Seq(Snapshots) OBVIOUS
  <1>2. Chronological(<<>>) /\ NoRepeats(<<>>) BY EmptyHistory, NoRepeatsInEmpty
  <1> QED BY <1>1, <1>2, BoundsTyped DEF PagesInit, PagesTyped, FetchInv

(* No snapshot is delivered twice, and they come in chronological order,   *)
(* whatever is saved, removed or lost between two pages.                   *)
THEOREM EachDeliveredOnce == PagesSpec => []DeliveredOnce
  <1>1. PagesInv => DeliveredOnce
    BY DEF PagesInv, FetchInv, DeliveredOnce, Chronological, NoRepeats, PagesTyped
  <1>2. PagesInv /\ [PagesNext]_allVars => PagesInv' BY PagesInvKept
  <1> QED BY <1>1, <1>2, InitPagesInv, PTL DEF PagesSpec

(* A finished fetch misses no snapshot that was there all the time, but    *)
(* for one with the time of another one.                                   *)
THEOREM MissesOnlyTied == PagesSpec => []NoneMissedUnlessTied
  <1>1. PagesInv => NoneMissedUnlessTied
    BY DEF PagesInv, FetchInv, Passed, NoneMissedUnlessTied
  <1>2. PagesInv /\ [PagesNext]_allVars => PagesInv' BY PagesInvKept
  <1> QED BY <1>1, <1>2, InitPagesInv, PTL DEF PagesSpec

----------------------------------------------------------------------------
(* Types.  A client gets at most as many snapshots as were collected: no   *)
(* two that are kept anywhere have the same number.                        *)

Seen ==
    ToSet(items) \cup ToSet(disk.items) \cup ToSet(tmp.items) \cup ToSet(delivered)
        \cup ({value} \ {None})

NumberedOnce ==
    /\ \A s, t \in Seen : s.id = t.id => s = t
    /\ \A s \in Seen : s.id < next

LEMMA FewerSeenKeeps ==
    ASSUME NumberedOnce, Seen' \subseteq Seen, next' = next
    PROVE  NumberedOnce'
  BY DEF NumberedOnce

LEMMA LoopStepNumbers == ASSUME PagesInv, NumberedOnce, LoopStep PROVE NumberedOnce'
  <1>1. Next /\ UNCHANGED delivered BY DEF LoopStep
  <1>2. LoopTyped /\ TypeOK /\ ToSet(<<>>) = {}
    BY EmptyHistory DEF PagesInv, LoopTyped
  <1>3. CASE Tick \/ StepBack \/ Wake \/ CountersAnswer \/ SourceFails \/ Push
    <2>1. UNCHANGED <<next, value, items, tmp, disk>>
      BY <1>3 DEF Tick, StepBack, Wake, CountersAnswer, SourceFails, Push, storeVars
    <2> QED BY <1>1, <2>1, FewerSeenKeeps DEF Seen
  <1>4. CASE IdentitiesAnswer
    <2>1. /\ value' = [id |-> next, at |-> clock] /\ next' = next + 1
          /\ UNCHANGED <<items, tmp, disk>>
      BY <1>4 DEF IdentitiesAnswer, storeVars
    <2>2. Seen' \subseteq Seen \cup {value'} BY <1>1, <2>1 DEF Seen
    <2>3. next \in Nat /\ value'.id = next BY <1>2, <2>1, BoundsTyped DEF TypeOK
    <2>4. \A s \in Seen : s.id \in Int
      <3>1. items \in Seq(Snapshots) /\ disk.items \in Seq(Snapshots)
            /\ tmp.items \in Seq(Snapshots)
            /\ delivered \in Seq(Snapshots) /\ value \in Snapshots \cup {None}
        BY <1>2 DEF TypeOK, PagesInv, PagesTyped
      <3>2. Seen \subseteq Snapshots BY <3>1, ElementsFinite DEF Seen
      <3> QED BY <3>2, BoundsTyped DEF Snapshots
    <2> QED BY <2>1, <2>2, <2>3, <2>4 DEF NumberedOnce
  <1>5. CASE Store
    <2>1. /\ pc = "storing" /\ UNCHANGED <<next, value, tmp, disk>>
          /\ items' \in Sorted({item \in ToSet(items) \cup {value} : Kept(item, value)})
      BY <1>5 DEF Store
    <2>2. ToSet(items') \subseteq ToSet(items) \cup {value} BY <2>1 DEF Sorted
    <2>3. value # None
      <3>1. value.id # 0 BY <1>2, <2>1, BoundsTyped DEF LoopTyped, Snapshots
      <3> QED BY <3>1 DEF None
    <2>4. Seen' \subseteq Seen BY <1>1, <2>1, <2>2, <2>3 DEF Seen
    <2> QED BY <2>1, <2>4, FewerSeenKeeps
  <1>6. CASE CreateTemp \/ WriteTemp \/ Rename \/ PersistFails
    <2>1. /\ tmp'.items = items \/ tmp'.items = <<>>
          /\ disk'.items = disk.items \/ disk'.items = tmp.items
          /\ UNCHANGED <<next, value, items>>
      BY <1>6, EmptyHistory DEF CreateTemp, WriteTemp, Whole, Rename, PersistFails
    <2>2. Seen' \subseteq Seen BY <1>1, <1>2, <2>1 DEF Seen
    <2> QED BY <2>1, <2>2, FewerSeenKeeps
  <1>7. CASE Crash
    <2>1. value' = None /\ items' = <<>> /\ tmp'.items = <<>> /\ UNCHANGED <<next, disk>>
      BY <1>7, EmptyHistory DEF Crash
    <2>2. Seen' \subseteq Seen BY <1>1, <1>2, <2>1 DEF Seen
    <2> QED BY <2>1, <2>2, FewerSeenKeeps
  <1>8. CASE Restart
    <2>1. items' \in Sorted(ToSet(disk.items)) /\ UNCHANGED <<next, value, tmp, disk>>
      BY <1>8 DEF Restart
    <2>2. Seen' \subseteq Seen BY <1>1, <2>1 DEF Seen, Sorted
    <2> QED BY <2>1, <2>2, FewerSeenKeeps
  <1> QED BY <1>1, <1>3, <1>4, <1>5, <1>6, <1>7, <1>8 DEF Next, Collect, Save

LEMMA NumberedOnceKept ==
    ASSUME PagesInv, PagesInv', NumberedOnce, [PagesNext]_allVars
    PROVE  NumberedOnce'
  <1>1. CASE GetPage
    <2>1. /\ delivered' = delivered \o Page
          /\ UNCHANGED <<next, value, items, tmp, disk>>
      BY <1>1 DEF GetPage, vars, storeVars
    <2>2. Page \in Seq(Snapshots) /\ ToSet(Page) \subseteq ToSet(items)
      BY PageInOrder DEF PagesInv
    <2>3. ToSet(delivered') \subseteq ToSet(delivered) \cup ToSet(Page)
      <3>1. delivered \in Seq(Snapshots) BY DEF PagesInv, PagesTyped
      <3> QED BY <2>1, <2>2, <3>1, JoinedPlaces
    <2>4. Seen' \subseteq Seen BY <2>1, <2>2, <2>3 DEF Seen
    <2> QED BY <2>1, <2>4, FewerSeenKeeps
  <1>2. CASE LoopStep BY <1>2, LoopStepNumbers
  <1>3. CASE (\E w \in Windows : Ask(w[1], w[2])) \/ UNCHANGED allVars
    <2>1. UNCHANGED <<next, value, items, tmp, disk, delivered>>
      BY <1>3 DEF Ask, allVars, clientVars, vars, storeVars
    <2> QED BY <2>1, FewerSeenKeeps DEF Seen
  <1> QED BY <1>1, <1>2, <1>3 DEF PagesNext

LEMMA CountUpTo ==
    ASSUME NEW m \in Nat
    PROVE  IsFiniteSet(1..m) /\ Cardinality(1..m) = m
  <1>1. /\ IsFiniteSet(1..m)
        /\ Cardinality(1..m) = IF 1 > m THEN 0 ELSE m - 1 + 1
    <2>1. 1 \in Int /\ m \in Int OBVIOUS
    <2> QED BY ONLY <2>1, FS_Interval
  <1>2. (IF 1 > m THEN 0 ELSE m - 1 + 1) = m OBVIOUS
  <1> QED BY <1>1, <1>2

LEMMA FewDelivered ==
    ASSUME PagesInv, NumberedOnce
    PROVE  Len(delivered) <= MaxSnapshots
  <1> DEFINE n == Len(delivered)
             f == [i \in 1..n |-> delivered[i].id]
  <1>1. /\ delivered \in Seq(Snapshots) /\ n \in Nat /\ DOMAIN delivered = 1..n
        /\ \A i \in 1..n : delivered[i] \in Snapshots
    BY LenProperties, ElementOfSeq DEF PagesInv, PagesTyped
  <1>2. f \in [1..n -> 1..MaxSnapshots] BY <1>1 DEF Snapshots
  <1>3. \A i, j \in 1..n : f[i] = f[j] => i = j
    <2> SUFFICES ASSUME NEW i \in 1..n, NEW j \in 1..n, delivered[i].id = delivered[j].id
                 PROVE  i = j
      OBVIOUS
    <2>1. delivered[i] \in Seen /\ delivered[j] \in Seen BY <1>1 DEF Seen, ToSet
    <2>2. delivered[i] = delivered[j] BY <2>1 DEF NumberedOnce
    <2> QED BY <1>1, <2>2 DEF PagesInv, FetchInv, NoRepeats
  <1> HIDE DEF f
  <1>4. f \in Injection(1..n, 1..MaxSnapshots) BY <1>2, <1>3 DEF Injection, IsInjective
  <1>5. /\ IsFiniteSet(1..MaxSnapshots) /\ Cardinality(1..MaxSnapshots) = MaxSnapshots
        /\ Cardinality(1..n) = n
    BY <1>1, BoundsTyped, CountUpTo
  <1> QED BY <1>4, <1>5, FS_Injection

LEMMA InitNumberedOnce == PagesInit => NumberedOnce
  <1> SUFFICES ASSUME PagesInit PROVE Seen = {}
    BY DEF NumberedOnce
  <1> QED BY EmptyHistory DEF PagesInit, Init, Whole, Seen

(* A client has snapshots that were collected, each at most once.          *)
THEOREM PagesTypeCorrect == PagesSpec => []PagesTypeOK
  <1>1. ASSUME PagesInv, NumberedOnce PROVE PagesTypeOK
    <2> QED BY <1>1, FewDelivered DEF PagesInv, PagesTyped, PagesTypeOK
  <1>2. PagesInv /\ NumberedOnce => PagesTypeOK BY <1>1
  <1>3. PagesInv /\ NumberedOnce /\ [PagesNext]_allVars => (PagesInv /\ NumberedOnce)'
    BY PagesInvKept, NumberedOnceKept
  <1> QED BY <1>2, <1>3, InitPagesInv, InitNumberedOnce, PTL DEF PagesSpec
====
