---- MODULE ConnWindow ----
(***************************************************************************)
(* The time-windowed user metrics of the log parser                        *)
(* (src/internal/logparser/parser.go): Xray appends lines to its access    *)
(* log, the parse goroutine turns the new lines into a batch and merges it *)
(* into MetricsData under metrics.mu, and each scrape (GetMetrics) purges  *)
(* what has left the window and counts the rest.                           *)
(*                                                                         *)
(* A log line is the two things these metrics read of it, the client's     *)
(* address and its timestamp.  Time is a small integer and that of the     *)
(* program UTC; but Xray stamps its lines in local time and names no zone, *)
(* and parseLine takes what it reads for UTC.                              *)
(***************************************************************************)
EXTENDS Integers, Sequences, FiniteSets

CONSTANTS IPs,             \* client addresses (none of them filtered)
          Cap,             \* ConnectionsBufCap
          Window,          \* Config.TimeWindow
          MaxTime,         \* bound: the clock stops here
          MaxLines,        \* bound: lines that Xray writes
          MaxStepBacks,    \* bound: how often the wall clock is set back
          ZoneOffset       \* how far the host's local time is ahead of UTC

ASSUME CapAssumption == Cap \in Nat \ {0}
ASSUME BoundsAssumption ==
    Window \in Nat /\ MaxTime \in Nat /\ MaxLines \in Nat /\ MaxStepBacks \in Nat
ASSUME IPsAssumption == IsFiniteSet(IPs)
ASSUME ZoneAssumption == ZoneOffset \in Int

VARIABLES
    clock,                 \* the wall clock of the host
    latest,                \* history: the latest time it has shown
    stepBacks,             \* history: how often it was set back
    log,                   \* the access log, as Xray has written it
    pc,                    \* the parse goroutine: waiting, reading, ended (the
                           \* reading, it wants the lock) or merging
    consumed,              \* log lines it has read
    parseCutoff,           \* cutoff of the current parseLogFile
    batchIPs,              \* delta.uniqueIPs
    batchStamps,           \* delta.timestamps
    ConnectionTimestamps,  \* the ring: index i of the slice is element i+1
    BufHead, BufSize,      \* ConnectionsBufHead, ConnectionsBufSize
    UniqueIPs,             \* address -> when it was last seen
    mu,                    \* who holds metrics.mu: free, merge or scrape
    cutoff,                \* cutoff of the current or latest GetMetrics
    activeIPs,             \* its count of active addresses
    report,                \* what the latest GetMetrics returned, and when
    applied,               \* history: log lines merged so far
    merged                 \* history: timestamps merged so far, in order

timeVars == <<clock, latest, stepBacks>>
ringVars == <<ConnectionTimestamps, BufHead, BufSize>>
batchVars == <<parseCutoff, batchIPs, batchStamps>>
scrapeVars == <<cutoff, activeIPs, report>>
vars == <<timeVars, log, pc, consumed, batchVars, ringVars, UniqueIPs, mu,
          scrapeVars, applied, merged>>

\* The digits of the host's local time, and the times they are taken for.
Local(t) == t + ZoneOffset
Times == Local(0)..Local(MaxTime)

\* A Go map[string]time.Time is a function on the keys it holds.
LastSeen(m) == \E S \in SUBSET IPs : m \in [S -> Times]
NoneSeen == [ip \in {} |-> 0]

----------------------------------------------------------------------------
\* Xray and the host's clock.

Tick ==
    /\ clock < MaxTime
    /\ clock' = clock + 1
    /\ latest' = IF clock' > latest THEN clock' ELSE latest
    /\ UNCHANGED <<stepBacks, log, pc, consumed, batchVars, ringVars, UniqueIPs, mu,
                   scrapeVars, applied, merged>>

StepBack ==
    /\ stepBacks < MaxStepBacks /\ stepBacks' = stepBacks + 1
    /\ clock > 0 /\ clock' = clock - 1
    /\ UNCHANGED <<latest, log, pc, consumed, batchVars, ringVars, UniqueIPs, mu,
                   scrapeVars, applied, merged>>

XrayLogs(ip) ==
    /\ Len(log) < MaxLines
    /\ log' = Append(log, [ip |-> ip, ts |-> Local(clock)])
    /\ UNCHANGED <<timeVars, pc, consumed, batchVars, ringVars, UniqueIPs, mu,
                   scrapeVars, applied, merged>>

----------------------------------------------------------------------------
\* parseLogFile, once per tick of parseLoop.

ParseBegin ==
    /\ pc = "waiting"
    /\ pc' = "reading"
    /\ parseCutoff' = clock - Window
    /\ batchIPs' = NoneSeen /\ batchStamps' = <<>>
    /\ UNCHANGED <<timeVars, log, consumed, ringVars, UniqueIPs, mu, scrapeVars,
                   applied, merged>>

Before(t, c) == t < c
\* (mutant: not strict)
MutantAfter(t, c) == t >= c
After(t, c) == t > c

\* An entry that is already too old is not a user metric.
SkipLine ==
    /\ pc = "reading" /\ consumed < Len(log)
    /\ Before(log[consumed + 1].ts, parseCutoff)
    /\ consumed' = consumed + 1
    /\ UNCHANGED <<timeVars, log, pc, batchVars, ringVars, UniqueIPs, mu, scrapeVars,
                   applied, merged>>

\* The map m with ip set to ts.
Seen(m, ip, ts) == [a \in DOMAIN m \cup {ip} |-> IF a = ip THEN ts ELSE m[a]]

KeepLine ==
    /\ pc = "reading" /\ consumed < Len(log)
    /\ LET e == log[consumed + 1]
       IN  /\ ~Before(e.ts, parseCutoff)
           /\ batchStamps' = Append(batchStamps, e.ts)
           /\ batchIPs' = Seen(batchIPs, e.ip, e.ts)
    /\ consumed' = consumed + 1
    /\ UNCHANGED <<timeVars, log, pc, parseCutoff, ringVars, UniqueIPs, mu, scrapeVars,
                   applied, merged>>

\* What merging the batch makes of UniqueIPs: the batch wins.
\* (mutant: what was seen first wins)
MutantMergedIPs ==
    [ip \in DOMAIN UniqueIPs \cup DOMAIN batchIPs |->
        IF ip \in DOMAIN UniqueIPs THEN UniqueIPs[ip] ELSE batchIPs[ip]]
MergedIPs ==
    [ip \in DOMAIN UniqueIPs \cup DOMAIN batchIPs |->
        IF ip \in DOMAIN batchIPs THEN batchIPs[ip] ELSE UniqueIPs[ip]]

\* At the end of the file, or at an error wherever it comes, the pass reads
\* no further: what is written from now on is left to the next one, ...
StopReading ==
    /\ pc = "reading" /\ pc' = "ended"
    /\ UNCHANGED <<timeVars, log, consumed, batchVars, ringVars, UniqueIPs, mu,
                   scrapeVars, applied, merged>>

\* ... and the batch is merged under metrics.mu.
BeginMerge ==
    /\ pc = "ended" /\ mu = "free"
    /\ mu' = "merge" /\ pc' = "merging"
    /\ UniqueIPs' = MergedIPs
    /\ UNCHANGED <<timeVars, log, consumed, batchVars, ringVars, scrapeVars, applied,
                   merged>>

\* addConnectionTimestamp grows the slice up to the cap, then reuses it.
Growing == BufHead = Len(ConnectionTimestamps) /\ Len(ConnectionTimestamps) < Cap

\* (mutant: the size is not capped)
MutantNextSize == BufSize + 1
NextSize == IF BufSize < Cap THEN BufSize + 1 ELSE BufSize

\* (mutant: the head stays where it is once the slice is full)
MutantAdd(ts) ==
    /\ ConnectionTimestamps' =
          IF Growing THEN Append(ConnectionTimestamps, ts)
                     ELSE [ConnectionTimestamps EXCEPT ![BufHead + 1] = ts]
    /\ BufHead' = IF Growing THEN (BufHead + 1) % Cap ELSE BufHead
    /\ BufSize' = NextSize
addConnectionTimestamp(ts) ==
    /\ ConnectionTimestamps' =
          IF Growing THEN Append(ConnectionTimestamps, ts)
                     ELSE [ConnectionTimestamps EXCEPT ![BufHead + 1] = ts]
    /\ BufHead' = (BufHead + 1) % Cap
    /\ BufSize' = NextSize

MergeStamp ==
    /\ pc = "merging" /\ batchStamps # <<>>
    /\ addConnectionTimestamp(Head(batchStamps))
    /\ batchStamps' = Tail(batchStamps)
    /\ merged' = Append(merged, Head(batchStamps))
    /\ UNCHANGED <<timeVars, log, pc, consumed, parseCutoff, batchIPs, UniqueIPs, mu,
                   scrapeVars, applied>>

EndMerge ==
    /\ pc = "merging" /\ batchStamps = <<>>
    /\ mu' = "free" /\ pc' = "waiting"
    /\ applied' = consumed
    /\ UNCHANGED <<timeVars, log, consumed, batchVars, ringVars, UniqueIPs, scrapeVars,
                   merged>>

----------------------------------------------------------------------------
\* GetMetrics, under metrics.mu for all of its steps.

ActiveAt(c) == {ip \in DOMAIN UniqueIPs : After(UniqueIPs[ip], c)}

BeginScrape ==
    /\ mu = "free"
    /\ mu' = "scrape"
    /\ cutoff' = clock - Window
    /\ UniqueIPs' = [ip \in ActiveAt(cutoff') |-> UniqueIPs[ip]]
    /\ activeIPs' = Cardinality(ActiveAt(cutoff'))
    /\ UNCHANGED <<timeVars, log, pc, consumed, batchVars, ringVars, report, applied,
                   merged>>

\* Go's remainder takes the sign of the dividend; TLA+'s is never negative.
GoRem(a, b) == IF a >= 0 THEN a % b ELSE -((-a) % b)

\* (mutant: the sign of the remainder is forgotten)
MutantTailIndex == GoRem(BufHead - BufSize, Cap)
TailIndex == GoRem(GoRem(BufHead - BufSize, Cap) + Cap, Cap)

\* (mutant: never empties the ring)
MutantOldestExpired ==
    BufSize > 1 /\ ~After(ConnectionTimestamps[TailIndex + 1], cutoff)
\* (mutant: looks at the newest entry)
MutantNewestExpired ==
    BufSize > 0 /\ ~After(ConnectionTimestamps[GoRem(BufHead - 1 + Cap, Cap) + 1], cutoff)
OldestExpired ==
    BufSize > 0 /\ ~After(ConnectionTimestamps[TailIndex + 1], cutoff)

ExpireOldest ==
    /\ mu = "scrape" /\ OldestExpired
    /\ BufSize' = BufSize - 1
    /\ UNCHANGED <<timeVars, log, pc, consumed, batchVars, ConnectionTimestamps, BufHead,
                   UniqueIPs, mu, scrapeVars, applied, merged>>

\* (mutant: returns without unlocking)
MutantEndScrape ==
    /\ mu = "scrape" /\ ~OldestExpired
    /\ mu' = "scrape"
    /\ report' = [users |-> activeIPs, conns |-> BufSize, cutoff |-> cutoff,
                  upTo |-> applied]
    /\ UNCHANGED <<timeVars, log, pc, consumed, batchVars, ringVars, UniqueIPs, cutoff,
                   activeIPs, applied, merged>>
EndScrape ==
    /\ mu = "scrape" /\ ~OldestExpired
    /\ mu' = "free"
    /\ report' = [users |-> activeIPs, conns |-> BufSize, cutoff |-> cutoff,
                  upTo |-> applied]
    /\ UNCHANGED <<timeVars, log, pc, consumed, batchVars, ringVars, UniqueIPs, cutoff,
                   activeIPs, applied, merged>>

----------------------------------------------------------------------------
Init ==
    /\ clock = 0 /\ latest = 0 /\ stepBacks = 0 /\ log = <<>>
    /\ pc = "waiting" /\ consumed = 0
    /\ parseCutoff = 0 /\ batchIPs = NoneSeen /\ batchStamps = <<>>
    /\ ConnectionTimestamps = <<>> /\ BufHead = 0 /\ BufSize = 0
    /\ UniqueIPs = NoneSeen
    /\ mu = "free" /\ cutoff = -Window /\ activeIPs = 0
    /\ report = [users |-> 0, conns |-> 0, cutoff |-> 0, upTo |-> 0]
    /\ applied = 0 /\ merged = <<>>

ReadLine == SkipLine \/ KeepLine
Parse == ParseBegin \/ ReadLine \/ StopReading \/ BeginMerge \/ MergeStamp \/ EndMerge
Scrape == BeginScrape \/ ExpireOldest \/ EndScrape

Next == Tick \/ StepBack \/ (\E ip \in IPs : XrayLogs(ip)) \/ Parse \/ Scrape

Spec == Init /\ [][Next]_vars

(* Fairness: the ticker of parseLoop keeps firing and a goroutine that can *)
(* run does; a Lock() that waits on a sync.RWMutex gets it in the end      *)
(* (strong fairness), however often scrapes take it in between; and not    *)
(* all passes meet an error before they have read a line.  Nothing makes   *)
(* Prometheus scrape, Xray log or the clock advance.                       *)
Fairness ==
    /\ WF_vars(ParseBegin) /\ SF_vars(ReadLine) /\ WF_vars(StopReading)
    /\ SF_vars(BeginMerge) /\ WF_vars(MergeStamp) /\ WF_vars(EndMerge)
    /\ WF_vars(ExpireOldest) /\ WF_vars(EndScrape)

FairSpec == Spec /\ Fairness

----------------------------------------------------------------------------
TypeOK ==
    /\ clock \in 0..MaxTime /\ latest \in 0..MaxTime /\ stepBacks \in 0..MaxStepBacks
    /\ log \in Seq([ip : IPs, ts : Times])
    /\ pc \in {"waiting", "reading", "ended", "merging"}
    /\ consumed \in 0..Len(log)
    /\ parseCutoff \in Int
    /\ LastSeen(batchIPs)
    /\ batchStamps \in Seq(Times)
    /\ ConnectionTimestamps \in Seq(Times)
    /\ BufHead \in 0..Cap-1
    /\ BufSize \in 0..Cap
    /\ LastSeen(UniqueIPs)
    /\ mu \in {"free", "merge", "scrape"}
    /\ cutoff \in Int
    /\ activeIPs \in Nat
    /\ report \in [users : Nat, conns : 0..Cap, cutoff : Int, upTo : Nat]
    /\ applied \in 0..consumed
    /\ merged \in Seq(Times)

(* No index into the slice is ever out of range, which would panic in the  *)
(* parse goroutine (nothing recovers there: the exporter dies) or in a     *)
(* scrape: neither the slot addConnectionTimestamp overwrites nor the      *)
(* oldest one GetMetrics looks at.                                         *)
RingIndexInBounds ==
    /\ ~Growing => BufHead < Len(ConnectionTimestamps)
    /\ BufSize > 0 => TailIndex \in 0..Len(ConnectionTimestamps)-1

\* The remembered entries, oldest first, read off the ring.
Ring == [i \in 1..BufSize |-> ConnectionTimestamps[((TailIndex + i - 1) % Cap) + 1]]

(* The ring holds the newest entries that were merged, in their order: an  *)
(* overwrite only ever loses the oldest.                                   *)
RingHoldsNewest ==
    /\ BufSize <= Len(merged)
    /\ \A i \in 1..BufSize : Ring[i] = merged[Len(merged) - BufSize + i]

(* Whatever the clock does, no connection is dropped early: one whose stamp*)
(* is still in the window by the latest time the host has shown stays in   *)
(* the ring, unless Cap newer ones were merged.  A clock that is set back  *)
(* makes GetMetrics count too many, for a while, but forget none.          *)
YoungNotForgotten ==
    \A i \in DOMAIN merged :
        i > Len(merged) - Cap /\ merged[i] > latest - Window
            => i > Len(merged) - BufSize

(* The claim of GetMetrics on its loop over the tail: because entries are  *)
(* stored chronologically, once the oldest one left is in the window the   *)
(* remaining size is the number of connections in the window.              *)
RemainingSizeIsCount ==
    mu = "scrape" /\ ~OldestExpired
        => BufSize = Cardinality({i \in 1..BufSize : After(Ring[i], cutoff)})

Orderly == stepBacks = 0
LoggedAt(i) == log[i].ts - ZoneOffset
AtMostCap(n) == IF n > Cap THEN Cap ELSE n

\* The lines merged when the latest report was taken that were logged in the
\* window as the parser sees it: the zone's offset makes it longer or shorter.
InReport == {i \in 1..report.upTo : LoggedAt(i) > report.cutoff - ZoneOffset}

(* As long as the clock is not set back, a scrape returns the connections  *)
(* logged in the latest Window + ZoneOffset, the window itself on a host   *)
(* in UTC, among all lines merged by then, up to the capacity of the       *)
(* buffer.  It takes the batches, the skipped lines, the overwrites and    *)
(* the expiries of all scrapes so far to be right.                         *)
ReportedConnections == Orderly => report.conns = AtMostCap(Cardinality(InReport))

(* The users it returns are the clients of these lines, each counted once. *)
ReportedUsers == Orderly => report.users = Cardinality({log[i].ip : i \in InReport})

(* What GetMetrics says it returns, the activity within the time window:   *)
(* the connections logged in the latest Window.                            *)
WindowReported ==
    Orderly => report.conns =
        AtMostCap(Cardinality({i \in 1..report.upTo : LoggedAt(i) > report.cutoff}))

(* Every line Xray writes is part of the metrics in the end, however the   *)
(* scrapes contend for the lock.                                           *)
LinesMerged == \A n \in 1..MaxLines : (Len(log) >= n) ~> (applied >= n)

(* The ring is a sliding window over what was merged: what a scrape counts*)
(* by the size of the ring are the younger ones of the latest Cap.         *)
Window_ == INSTANCE SlidingWindow
             WITH recorded <- merged, horizon <- cutoff, counted <- report.conns,
                  orderly <- Orderly
ImplementsSlidingWindow == Window_!Spec
====
