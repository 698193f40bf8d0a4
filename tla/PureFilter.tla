---- MODULE PureFilter ----
(***************************************************************************)
(* What IPFilter.ShouldFilter promises (src/internal/logparser/filter.go): *)
(* whoever asks, and whatever was asked before, an address is filtered     *)
(* exactly when it is on one of the lists.  There is no cache here.        *)
(***************************************************************************)
CONSTANTS Addresses,
          Listed                \* the addresses to be excluded

VARIABLE answer                 \* the latest answer, to whichever caller

Answer(ip) == answer' = [asked |-> TRUE, ip |-> ip, filtered |-> ip \in Listed]

Init == answer = [asked |-> FALSE]
Next == \E ip \in Addresses : Answer(ip)

Spec == Init /\ [][Next]_answer
====
