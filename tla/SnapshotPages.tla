---- MODULE SnapshotPages ----
(***************************************************************************)
(* A billing client that fetches a window of the snapshot history page by  *)
(* page (Handler in src/internal/snapshot/http.go, Store.Window in         *)
(* store.go) while the snapshot loop saves, removes, fails and restarts    *)
(* (SnapshotLoop).  The client is not part of the exporter: it asks for    *)
(* since, until and a limit, and follows next_cursor while has_more says   *)
(* so; an unanswered request it repeats.                                   *)
(***************************************************************************)
EXTENDS SnapshotLoop

CONSTANTS Limit,              \* snapshots per page, at least 1 in any request
          Windows             \* the pairs of times a client may ask for

ASSUME LimitAssumption == Limit \in Nat \ {0}
ASSUME WindowsAssumption == Windows \subseteq (0..MaxTime) \X (0..MaxTime)

VARIABLES
    fetch,      \* the client: idle, paging or done
    since, until,
    cursor,     \* CollectedAt of the last snapshot it got, NoCursor at first
    delivered,  \* the snapshots it got, in order
    present     \* history: those of the window that were in the store
                \* at its first request, and ever since while it ran

clientVars == <<fetch, since, until, cursor, delivered, present>>
allVars == <<vars, clientVars>>

NoCursor == -1

----------------------------------------------------------------------------
\* Store.Window, for the request at hand.

InWindow(item) == item.at >= since /\ item.at <= until
\* (mutant: the cursor is the first of the next page, not the last of this)
MutantBehindCursor(item) == cursor = NoCursor \/ item.at >= cursor
BehindCursor(item) == cursor = NoCursor \/ item.at > cursor

\* The places of the snapshots that match, and these in the order of the items.
Places == {i \in DOMAIN items : InWindow(items[i]) /\ BehindCursor(items[i])}
Rank(i) == Cardinality({j \in Places : j <= i})
Matching == [k \in 1..Cardinality(Places) |-> items[CHOOSE i \in Places : Rank(i) = k]]
Page == SubSeq(Matching, 1, IF Len(Matching) < Limit THEN Len(Matching) ELSE Limit)

\* (mutant: every page says it is the last)
MutantHasMore == FALSE
HasMore == Page # <<>> /\ \E item \in ToSet(Matching) : item.at > Last(Page).at

\* Save holds Store.mu while it sorts and persists; Window takes it for reading.
CanRead == Running /\ pc \notin {"persisting", "writing", "renaming"}

Ask(s, u) ==
    /\ fetch = "idle" /\ Running /\ fetch' = "paging"
    /\ since' = s /\ until' = u
    /\ present' = {item \in ToSet(items) : item.at >= s /\ item.at <= u}
    /\ UNCHANGED <<vars, cursor, delivered>>

GetPage ==
    /\ fetch = "paging" /\ CanRead
    /\ delivered' = delivered \o Page
    /\ IF HasMore THEN cursor' = Last(Page).at /\ fetch' = "paging"
                  ELSE fetch' = "done" /\ UNCHANGED cursor
    /\ UNCHANGED <<vars, since, until, present>>

LoopStep ==
    /\ Next
    /\ present' = IF pc' = "down" THEN present ELSE present \cap ToSet(items')
    /\ UNCHANGED <<fetch, since, until, cursor, delivered>>

----------------------------------------------------------------------------
PagesInit ==
    /\ Init
    /\ fetch = "idle" /\ since = 0 /\ until = 0 /\ cursor = NoCursor
    /\ delivered = <<>> /\ present = {}

PagesNext == (\E w \in Windows : Ask(w[1], w[2])) \/ GetPage \/ LoopStep

PagesSpec == PagesInit /\ [][PagesNext]_allVars

(* Nothing is asked of the client.                                         *)
FairPagesSpec == PagesSpec /\ Fairness

----------------------------------------------------------------------------
PagesTypeOK ==
    /\ fetch \in {"idle", "paging", "done"}
    /\ since \in 0..MaxTime /\ until \in 0..MaxTime
    /\ cursor \in 0..MaxTime \cup {NoCursor}
    /\ delivered \in Seq(Snapshots) /\ Len(delivered) <= MaxSnapshots
    /\ present \subseteq Snapshots

(* No snapshot is delivered twice, and they come in chronological order    *)
(* across the pages, whatever is saved, removed or lost between two of     *)
(* them.                                                                   *)
DeliveredOnce ==
    \A i, j \in DOMAIN delivered : i < j =>
        /\ delivered[i] # delivered[j]
        /\ delivered[i].at <= delivered[j].at

(* A finished fetch holds every snapshot of the window that was in the     *)
(* history from its beginning to its end, across a restart between two     *)
(* pages as well, but for those collected at the very same time as another *)
(* one: the cursor skips them when a page ends between the two.            *)
NoneMissedUnlessTied ==
    fetch = "done" => \A s \in present :
        \E d \in ToSet(delivered) : d = s \/ (d.at = s.at /\ d # s)
====
