---- MODULE SlidingWindow ----
(***************************************************************************)
(* What the log parser promises about connections, without saying what is  *)
(* stored of them: a report counts those younger than the horizon among    *)
(* the latest Cap that were recorded, as long as time does not go back.    *)
(* After that the number may be wrong.  ConnWindow implements it with a    *)
(* ring that overwrites, forgets from its tail, only ever looks at its     *)
(* oldest entry and counts by its size.                                    *)
(***************************************************************************)
EXTENDS Integers, Sequences, FiniteSets

CONSTANT Cap            \* how many connections are counted at most

VARIABLES recorded,     \* the timestamps of the connections, as recorded
          horizon,      \* the cutoff of the latest report
          counted,      \* what the latest report said
          orderly       \* has time never gone back?

vars == <<recorded, horizon, counted, orderly>>

Init == recorded = <<>> /\ horizon \in Int /\ counted = 0 /\ orderly = TRUE

Record ==
    /\ Len(recorded') = Len(recorded) + 1
    /\ recorded' = Append(recorded, recorded'[Len(recorded')])
    /\ UNCHANGED <<horizon, counted, orderly>>

Advance ==
    /\ horizon' \in Int /\ (orderly => horizon' >= horizon)
    /\ UNCHANGED <<recorded, counted, orderly>>

Recent == {n \in DOMAIN recorded : n > Len(recorded) - Cap}
Younger == {n \in Recent : recorded[n] > horizon}

Report ==
    /\ counted' \in 0..Cap /\ (orderly => counted' = Cardinality(Younger))
    /\ UNCHANGED <<recorded, horizon, orderly>>

GoBack == orderly' = FALSE /\ UNCHANGED <<recorded, horizon, counted>>

Next == Record \/ Advance \/ Report \/ GoBack

Spec == Init /\ [][Next]_vars
====
