---- MODULE ConnWindow_proofs ----
(***************************************************************************)
(* Proofs about ConnWindow for every capacity, window and set of clients:  *)
(* its variables keep their types, no index leaves the ring, and the ring  *)
(* holds the newest entries merged, in their order.  As long as the clock  *)
(* is not set back, every scrape returns what was logged in its window, as *)
(* the host's zone shifts it, and the ring implements SlidingWindow.       *)
(***************************************************************************)
EXTENDS ConnWindow, FiniteSetTheorems, SequenceTheorems, TLAPS

(* Times are integers, that of the clock one of them.                      *)
LEMMA TimesInt ==
    /\ Times \subseteq Int
    /\ \A t \in 0..MaxTime : Local(t) \in Times
    /\ \A t \in Int : Local(t) = t + ZoneOffset
    /\ ZoneOffset \in Int
  BY BoundsAssumption, ZoneAssumption DEF Times, Local

----------------------------------------------------------------------------
(* Remainders, for the few arguments the ring has.                         *)

(* A number below the divisor is its own remainder.                        *)
LEMMA ModSmall == ASSUME NEW c \in Nat \ {0}, NEW x \in 0..c-1 PROVE x % c = x
  BY Z3

(* Between the divisor and its double the remainder is the difference.     *)
LEMMA ModOnce == ASSUME NEW c \in Nat \ {0}, NEW x \in c..2*c-1 PROVE x % c = x - c
  BY Z3

(* The write position after the next write: it wraps at the capacity.      *)
LEMMA NextHead ==
    ASSUME BufHead \in 0..Cap-1
    PROVE  (BufHead + 1) % Cap = IF BufHead + 1 = Cap THEN 0 ELSE BufHead + 1
  <1>1. CASE BufHead + 1 = Cap
    BY <1>1, ModOnce, CapAssumption
  <1>2. CASE BufHead + 1 # Cap
    <2>1. BufHead + 1 \in 0..Cap-1 BY <1>2, CapAssumption
    <2> QED BY <1>2, <2>1, ModSmall, CapAssumption
  <1> QED BY <1>1, <1>2

(* The oldest of s entries is s places behind the write position h, around *)
(* the ring: the sign of Go's remainder is made good by adding Cap.        *)
TailAt(h, s) == GoRem(GoRem(h - s, Cap) + Cap, Cap)

LEMMA TailAtIs ==
    ASSUME NEW h \in 0..Cap-1, NEW s \in 0..Cap
    PROVE  TailAt(h, s) = IF s <= h THEN h - s ELSE h - s + Cap
  <1> DEFINE d == h - s
  <1>1. CASE s <= h
    <2>1. d \in 0..Cap-1 /\ d >= 0 /\ d + Cap \in Cap..2*Cap-1 /\ d + Cap >= 0
      BY <1>1, CapAssumption
    <2>2. GoRem(d, Cap) = d BY <2>1, ModSmall, CapAssumption DEF GoRem
    <2>3. GoRem(d + Cap, Cap) = d BY <2>1, ModOnce, CapAssumption DEF GoRem
    <2> QED BY <1>1, <2>2, <2>3 DEF TailAt
  <1>2. CASE s > h /\ s - h = Cap
    <2>1. d < 0 /\ -d = Cap /\ Cap \in Cap..2*Cap-1 /\ 0 \in 0..Cap-1
      BY <1>2, CapAssumption
    <2>2. (-d) % Cap = 0 BY <2>1, ModOnce, CapAssumption
    <2>3. GoRem(d, Cap) = 0 BY <2>1, <2>2 DEF GoRem
    <2>4. GoRem(Cap, Cap) = 0 BY <2>1, ModOnce, CapAssumption DEF GoRem
    <2>5. 0 + Cap = Cap BY CapAssumption
    <2>6. TailAt(h, s) = 0 BY <2>3, <2>4, <2>5 DEF TailAt
    <2> QED BY <1>2, <2>6, CapAssumption
  <1>3. CASE s > h /\ s - h < Cap
    <2>1. d < 0 /\ -d \in 0..Cap-1 /\ d + Cap \in 0..Cap-1 /\ d + Cap >= 0 /\ -(-d) = d
      BY <1>3, CapAssumption
    <2>2. (-d) % Cap = -d BY <2>1, ModSmall, CapAssumption
    <2>3. GoRem(d, Cap) = d BY <2>1, <2>2 DEF GoRem
    <2>4. GoRem(d + Cap, Cap) = d + Cap BY <2>1, ModSmall, CapAssumption DEF GoRem
    <2> QED BY <1>3, <2>3, <2>4 DEF TailAt
  <1> QED BY <1>1, <1>2, <1>3, CapAssumption

(* The slot of the i-th oldest of s entries.                               *)
SlotAt(h, s, i) == ((TailAt(h, s) + i - 1) % Cap) + 1

LEMMA SlotAtIs ==
    ASSUME NEW h \in 0..Cap-1, NEW s \in 0..Cap, NEW i \in 1..s
    PROVE  SlotAt(h, s, i) = IF s < h + i THEN h - s + i ELSE h - s + i + Cap
  <1> DEFINE x == TailAt(h, s) + i - 1
  <1>1. TailAt(h, s) = IF s <= h THEN h - s ELSE h - s + Cap
    BY TailAtIs
  <1>2. CASE x \in 0..Cap-1
    <2>1. x % Cap = x BY <1>2, ModSmall, CapAssumption
    <2> QED BY <1>1, <1>2, <2>1, CapAssumption DEF SlotAt
  <1>3. CASE x \in Cap..2*Cap-1
    <2>1. x % Cap = x - Cap BY <1>3, ModOnce, CapAssumption
    <2> QED BY <1>1, <1>3, <2>1, CapAssumption DEF SlotAt
  <1>4. x \in 0..Cap-1 \/ x \in Cap..2*Cap-1
    BY <1>1, CapAssumption
  <1> QED BY <1>2, <1>3, <1>4

----------------------------------------------------------------------------
(* Type correctness.                                                       *)

(* Recording an address keeps a map of addresses a map of addresses.       *)
LEMMA SeenType ==
    ASSUME NEW m, LastSeen(m), NEW ip \in IPs, NEW ts \in Times
    PROVE  LastSeen(Seen(m, ip, ts))
  <1>1. PICK S \in SUBSET IPs : m \in [S -> Times]
    BY DEF LastSeen
  <1>2. S \cup {ip} \in SUBSET IPs OBVIOUS
  <1>3. Seen(m, ip, ts) \in [S \cup {ip} -> Times]
    BY <1>1 DEF Seen
  <1> QED BY <1>2, <1>3 DEF LastSeen

(* So does merging a batch into UniqueIPs.                                 *)
LEMMA MergedIPsType ==
    ASSUME LastSeen(UniqueIPs), LastSeen(batchIPs)
    PROVE  LastSeen(MergedIPs)
  <1>1. PICK S \in SUBSET IPs : UniqueIPs \in [S -> Times]
    BY DEF LastSeen
  <1>2. PICK R \in SUBSET IPs : batchIPs \in [R -> Times]
    BY DEF LastSeen
  <1>3. S \cup R \in SUBSET IPs OBVIOUS
  <1>4. MergedIPs \in [S \cup R -> Times]
    BY <1>1, <1>2 DEF MergedIPs
  <1> QED BY <1>3, <1>4 DEF LastSeen

(* Purging leaves a map of addresses, and a finite number of them.         *)
LEMMA PurgedType ==
    ASSUME LastSeen(UniqueIPs), NEW c \in Int
    PROVE  /\ LastSeen([ip \in ActiveAt(c) |-> UniqueIPs[ip]])
           /\ Cardinality(ActiveAt(c)) \in Nat
  <1>1. PICK S \in SUBSET IPs : UniqueIPs \in [S -> Times]
    BY DEF LastSeen
  <1>2. ActiveAt(c) \in SUBSET IPs /\ ActiveAt(c) \subseteq S
    BY <1>1 DEF ActiveAt
  <1>3. [ip \in ActiveAt(c) |-> UniqueIPs[ip]] \in [ActiveAt(c) -> Times]
    BY <1>1, <1>2
  <1>4. IsFiniteSet(ActiveAt(c))
    BY <1>2, FS_Subset, IPsAssumption
  <1> QED BY <1>2, <1>3, <1>4, FS_CardinalityType DEF LastSeen

(* The head of a sequence is one of its elements.                          *)
LEMMA HeadType == ASSUME NEW S, NEW s \in Seq(S), s # <<>> PROVE Head(s) \in S
  OBVIOUS

(* The entry overwritten or appended keeps the slice a slice.              *)
LEMMA AddedType ==
    ASSUME TypeOK, NEW ts \in Times, addConnectionTimestamp(ts)
    PROVE  /\ ConnectionTimestamps' \in Seq(Times)
           /\ BufHead' \in 0..Cap-1
           /\ BufSize' \in 0..Cap
  <1>1. ConnectionTimestamps' \in Seq(Times)
    <2>1. CASE Growing
      BY <2>1, AppendProperties DEF TypeOK, addConnectionTimestamp
    <2>2. CASE ~Growing /\ BufHead + 1 \in 1..Len(ConnectionTimestamps)
      BY <2>2, ExceptSeq DEF TypeOK, addConnectionTimestamp
    <2>3. CASE ~Growing /\ BufHead + 1 \notin 1..Len(ConnectionTimestamps)
      <3>1. ConnectionTimestamps \in [1..Len(ConnectionTimestamps) -> Times]
        BY LenProperties DEF TypeOK
      <3>2. ConnectionTimestamps' = ConnectionTimestamps
        BY <2>3, <3>1 DEF addConnectionTimestamp
      <3> QED BY <3>2 DEF TypeOK
    <2> QED BY <2>1, <2>2, <2>3
  <1>2. BufHead' \in 0..Cap-1
    BY NextHead, CapAssumption DEF TypeOK, addConnectionTimestamp
  <1>3. BufSize' \in 0..Cap
    BY CapAssumption DEF TypeOK, addConnectionTimestamp, NextSize
  <1> QED BY <1>1, <1>2, <1>3

LEMMA InitTypeOK == Init => TypeOK
  <1> SUFFICES ASSUME Init PROVE TypeOK
    OBVIOUS
  <1>1. LastSeen(NoneSeen)
    <2>1. NoneSeen \in [{} -> Times] BY DEF NoneSeen
    <2> QED BY <2>1 DEF LastSeen
  <1> QED BY <1>1, CapAssumption, BoundsAssumption, TimesInt DEF Init, TypeOK

LEMMA NextTypeOK == TypeOK /\ [Next]_vars => TypeOK'
  <1> SUFFICES ASSUME TypeOK, [Next]_vars PROVE TypeOK'
    OBVIOUS
  <1> USE CapAssumption, BoundsAssumption, TimesInt
  <1>0. Times' = Times
    BY DEF Times, Local
  <1> USE <1>0
  <1> USE DEF timeVars, ringVars, batchVars, scrapeVars
  <1>1. CASE Tick
    BY <1>1 DEF TypeOK, Tick
  <1>2. CASE StepBack
    BY <1>2 DEF TypeOK, StepBack
  <1>3. ASSUME NEW ip \in IPs, XrayLogs(ip) PROVE TypeOK'
    <2>1. [ip |-> ip, ts |-> Local(clock)] \in [ip : IPs, ts : Times]
      BY TimesInt DEF TypeOK
    <2>2. log' \in Seq([ip : IPs, ts : Times]) /\ consumed \in 0..Len(log')
      BY <1>3, <2>1 DEF TypeOK, XrayLogs
    <2> QED BY <1>3, <2>2 DEF TypeOK, XrayLogs
  <1>4. CASE ParseBegin
    <2>1. LastSeen(NoneSeen)
      <3>1. NoneSeen \in [{} -> Times] BY DEF NoneSeen
      <3> QED BY <3>1 DEF LastSeen
    <2> QED BY <1>4, <2>1 DEF TypeOK, ParseBegin
  <1>5. CASE SkipLine
    BY <1>5 DEF TypeOK, SkipLine
  <1>6. CASE KeepLine
    <2> DEFINE e == log[consumed + 1]
    <2>1. e \in [ip : IPs, ts : Times]
      <3>1. consumed + 1 \in 1..Len(log)
        BY <1>6, LenProperties DEF TypeOK, KeepLine
      <3> QED BY <3>1, ElementOfSeq DEF TypeOK
    <2>2. LastSeen(Seen(batchIPs, e.ip, e.ts))
      BY <2>1, SeenType DEF TypeOK
    <2>3. LastSeen(batchIPs')
      BY <1>6, <2>2 DEF KeepLine
    <2>4. batchStamps' \in Seq(Times)
      <3>1. e.ts \in Times BY <2>1
      <3>2. batchStamps \in Seq(Times) /\ batchStamps' = Append(batchStamps, e.ts)
        BY <1>6 DEF TypeOK, KeepLine
      <3> QED BY <3>1, <3>2, AppendProperties
    <2>5. LastSeen(UniqueIPs')
      BY <1>6 DEF TypeOK, KeepLine
    <2> HIDE DEF e
    <2> QED BY <1>6, <2>3, <2>4, <2>5 DEF TypeOK, KeepLine
  <1>14. CASE StopReading
    BY <1>14 DEF TypeOK, StopReading
  <1>7. CASE BeginMerge
    <2>1. LastSeen(UniqueIPs') /\ LastSeen(batchIPs')
      BY <1>7, MergedIPsType DEF TypeOK, BeginMerge
    <2> QED BY <1>7, <2>1 DEF TypeOK, BeginMerge
  <1>8. CASE MergeStamp
    <2>1. Head(batchStamps) \in Times
      BY <1>8, HeadType DEF TypeOK, MergeStamp
    <2>2. /\ ConnectionTimestamps' \in Seq(Times)
          /\ BufHead' \in 0..Cap-1
          /\ BufSize' \in 0..Cap
      BY <1>8, <2>1, AddedType DEF MergeStamp
    <2>3. batchStamps' \in Seq(Times) /\ merged' \in Seq(Times)
      BY <1>8, <2>1 DEF TypeOK, MergeStamp
    <2>4. LastSeen(UniqueIPs') /\ LastSeen(batchIPs')
      BY <1>8 DEF TypeOK, MergeStamp
    <2> QED BY <1>8, <2>2, <2>3, <2>4 DEF TypeOK, MergeStamp
  <1>9. CASE EndMerge
    BY <1>9 DEF TypeOK, EndMerge
  <1>10. CASE BeginScrape
    <2>1. clock - Window \in Int
      BY DEF TypeOK
    <2>2. LastSeen(UniqueIPs') /\ activeIPs' \in Nat
      BY <1>10, <2>1, PurgedType DEF TypeOK, BeginScrape
    <2>3. LastSeen(batchIPs')
      BY <1>10 DEF TypeOK, BeginScrape
    <2> QED BY <1>10, <2>1, <2>2, <2>3 DEF TypeOK, BeginScrape
  <1>11. CASE ExpireOldest
    BY <1>11 DEF TypeOK, ExpireOldest, OldestExpired
  <1>12. CASE EndScrape
    BY <1>12 DEF TypeOK, EndScrape
  <1>13. CASE UNCHANGED vars
    BY <1>13 DEF TypeOK, vars
  <1> QED
    BY <1>1, <1>2, <1>3, <1>4, <1>5, <1>6, <1>7, <1>8, <1>9, <1>10, <1>11, <1>12,
       <1>13, <1>14 DEF Next, Parse, ReadLine, Scrape

(* Every variable keeps its type: in particular the write position and the *)
(* size of the ring stay within its capacity.                              *)
THEOREM TypeCorrect == Spec => []TypeOK
  BY InitTypeOK, NextTypeOK, PTL DEF Spec

----------------------------------------------------------------------------
(* The ring.                                                               *)

(* Nothing but the steps of the merge and of the expiry touches the ring   *)
(* or the history of what was merged.                                      *)
LEMMA RingSteps ==
    ASSUME [Next]_vars
    PROVE  \/ MergeStamp
           \/ ExpireOldest
           \/ UNCHANGED <<ringVars, merged>>
  BY DEF Next, Parse, ReadLine, Scrape, Tick, StepBack, XrayLogs, ParseBegin, SkipLine,
         KeepLine, StopReading, BeginMerge, EndMerge, BeginScrape, EndScrape, vars, ringVars

(* What the ring looks like: the slice is full, or the write position is   *)
(* at its end; the entries held are among those written.                   *)
RingShape ==
    /\ Len(ConnectionTimestamps) <= Cap
    /\ Len(ConnectionTimestamps) < Cap => BufHead = Len(ConnectionTimestamps)
    /\ BufSize <= Len(ConnectionTimestamps)

(* The shape of the slice survives every step.                             *)
LEMMA NextRingShape ==
    ASSUME TypeOK, RingShape, [Next]_vars
    PROVE  RingShape'
  <1>1. CASE MergeStamp
    <2>1. Head(batchStamps) \in Times
      BY <1>1, HeadType DEF TypeOK, MergeStamp
    <2>2. Len(ConnectionTimestamps) \in Nat
      BY LenProperties DEF TypeOK
    <2>3. BufHead' = IF BufHead + 1 = Cap THEN 0 ELSE BufHead + 1
      BY <1>1, NextHead DEF TypeOK, MergeStamp, addConnectionTimestamp
    <2>4. BufSize' = IF BufSize < Cap THEN BufSize + 1 ELSE BufSize
      BY <1>1 DEF MergeStamp, addConnectionTimestamp, NextSize
    <2>5. CASE Growing
      <3>1. Len(ConnectionTimestamps') = Len(ConnectionTimestamps) + 1
        BY <1>1, <2>1, <2>5, AppendProperties
           DEF TypeOK, MergeStamp, addConnectionTimestamp
      <3> QED
        BY SMTT(40), <2>2, <2>3, <2>4, <2>5, <3>1, CapAssumption DEF TypeOK, RingShape, Growing
    <2>6. CASE ~Growing
      <3>1. BufHead + 1 \in 1..Len(ConnectionTimestamps)
            /\ Len(ConnectionTimestamps) = Cap
        BY SMTT(40), <2>2, <2>6, CapAssumption DEF TypeOK, RingShape, Growing
      <3>2. Len(ConnectionTimestamps') = Len(ConnectionTimestamps)
        BY <1>1, <2>1, <2>6, <3>1, ExceptSeq
           DEF TypeOK, MergeStamp, addConnectionTimestamp
      <3> QED
        BY <2>2, <2>3, <2>4, <3>1, <3>2, CapAssumption DEF TypeOK, RingShape
    <2> QED BY <2>5, <2>6
  <1>2. CASE ExpireOldest
    BY <1>2, LenProperties DEF TypeOK, RingShape, ExpireOldest, OldestExpired
  <1>3. CASE UNCHANGED <<ringVars, merged>>
    BY <1>3 DEF RingShape, ringVars
  <1> QED BY <1>1, <1>2, <1>3, RingSteps

(* With this shape no index leaves the slice.                              *)
LEMMA ShapeInBounds ==
    ASSUME TypeOK, RingShape
    PROVE  RingIndexInBounds
  <1>1. Len(ConnectionTimestamps) \in Nat
    BY LenProperties DEF TypeOK
  <1>2. TailIndex = IF BufSize <= BufHead THEN BufHead - BufSize
                                          ELSE BufHead - BufSize + Cap
    BY TailAtIs DEF TypeOK, TailIndex, TailAt
  <1> QED
    BY SMTT(40), <1>1, <1>2, CapAssumption DEF TypeOK, RingShape, RingIndexInBounds, Growing

(* The parse goroutine and the scrapes never index the slice of            *)
(* timestamps out of range, whatever was appended, overwritten and expired *)
(* before: the exporter does not panic there.                              *)
THEOREM IndexSafe == Spec => []RingIndexInBounds
  <1>1. Init => TypeOK /\ RingShape
    <2>1. Init => RingShape
      BY CapAssumption DEF Init, RingShape
    <2> QED BY <2>1, InitTypeOK
  <1>2. TypeOK /\ RingShape /\ [Next]_vars => (TypeOK /\ RingShape)'
    BY NextTypeOK, NextRingShape
  <1>3. TypeOK /\ RingShape => RingIndexInBounds
    BY ShapeInBounds
  <1> QED BY <1>1, <1>2, <1>3, PTL DEF Spec

----------------------------------------------------------------------------
(* The content of the ring.                                                *)

(* RingHoldsNewest, read through the slots.                                *)
LEMMA RingBySlots ==
    RingHoldsNewest <=>
      /\ BufSize <= Len(merged)
      /\ \A i \in 1..BufSize :
            ConnectionTimestamps[SlotAt(BufHead, BufSize, i)]
                = merged[Len(merged) - BufSize + i]
  BY DEF RingHoldsNewest, Ring, SlotAt, TailAt, TailIndex

(* One more timestamp merged: the entries that stay keep their place in    *)
(* the order, the new one is the newest, and in a full ring it took the    *)
(* slot of the oldest.                                                     *)
LEMMA MergeHoldsNewest ==
    ASSUME TypeOK, RingShape, RingHoldsNewest, MergeStamp
    PROVE  RingHoldsNewest'
  <1> DEFINE CT == ConnectionTimestamps
             n == Len(merged)
             t == Head(batchStamps)
  <1>1. t \in Times
    BY HeadType DEF TypeOK, MergeStamp
  <1>2. /\ n \in Nat /\ Len(merged') = n + 1 /\ merged'[n+1] = t
        /\ \A j \in 1..n : merged'[j] = merged[j]
    BY <1>1, AppendProperties, LenProperties DEF TypeOK, MergeStamp
  <1>3. Len(CT) \in Nat
    BY LenProperties DEF TypeOK
  <1>4. /\ CT'[BufHead + 1] = t
        /\ \A j \in 1..Len(CT) : j # BufHead + 1 => CT'[j] = CT[j]
    <2>1. CASE Growing
      BY <1>1, <2>1, AppendProperties
         DEF TypeOK, MergeStamp, addConnectionTimestamp, Growing
    <2>2. CASE ~Growing
      <3>1. BufHead + 1 \in 1..Len(CT)
        BY <1>3, <2>2, CapAssumption DEF TypeOK, RingShape, Growing
      <3> QED
        BY SMTT(40), <1>1, <2>2, <3>1, ExceptSeq DEF TypeOK, MergeStamp, addConnectionTimestamp
    <2> QED BY <2>1, <2>2
  <1>5. BufHead' = IF BufHead + 1 = Cap THEN 0 ELSE BufHead + 1
    BY NextHead DEF TypeOK, MergeStamp, addConnectionTimestamp
  <1>6. BufSize' = IF BufSize < Cap THEN BufSize + 1 ELSE BufSize
    BY DEF MergeStamp, addConnectionTimestamp, NextSize
  <1>7. BufHead' \in 0..Cap-1 /\ BufSize' \in 1..Cap
    BY <1>5, <1>6, CapAssumption DEF TypeOK
  <1>8. PICK h \in 0..Cap-1, s \in 1..Cap : h = BufHead' /\ s = BufSize'
    BY <1>7
  <1>a. /\ h = IF BufHead + 1 = Cap THEN 0 ELSE BufHead + 1
        /\ s = IF BufSize < Cap THEN BufSize + 1 ELSE BufSize
    BY <1>5, <1>6, <1>8
  <1>b. BufHead \in 0..Cap-1 /\ BufSize \in 0..Cap
    BY DEF TypeOK
  <1>9. TailIndex' = TailAt(h, s)
    BY <1>8 DEF TailIndex, TailAt, GoRem
  <1>10. /\ BufSize <= n
         /\ \A i \in 1..BufSize :
               CT[SlotAt(BufHead, BufSize, i)] = merged[n - BufSize + i]
    BY RingBySlots
  <1>11. ASSUME NEW i \in 1..s
         PROVE  CT'[SlotAt(h, s, i)] = merged'[n + 1 - s + i]
    <2>1. SlotAt(h, s, i) = IF s < h + i THEN h - s + i ELSE h - s + i + Cap
      BY SlotAtIs
    <2>2. CASE i = s
      <3>1. SlotAt(h, s, i) = BufHead + 1
        BY <1>a, <1>b, <2>1, <2>2, CapAssumption
      <3>2. n + 1 - s + i = n + 1
        BY <1>2, <2>2
      <3> QED BY <1>2, <1>4, <3>1, <3>2
    <2>3. CASE i # s
      <3> DEFINE k == IF BufSize < Cap THEN i ELSE i + 1
      <3>1. k \in 1..BufSize
        BY <1>a, <1>b, <2>3, CapAssumption
      <3>2. SlotAt(BufHead, BufSize, k) =
              IF BufSize < BufHead + k THEN BufHead - BufSize + k
                                       ELSE BufHead - BufSize + k + Cap
        BY <1>b, <3>1, SlotAtIs
      <3>3. SlotAt(h, s, i) = SlotAt(BufHead, BufSize, k)
        BY <1>a, <1>b, <2>1, <2>3, <3>1, <3>2, CapAssumption
      <3>4. /\ SlotAt(BufHead, BufSize, k) \in 1..Len(CT)
            /\ SlotAt(BufHead, BufSize, k) # BufHead + 1
        BY <1>3, <1>b, <2>3, <3>1, <3>2, CapAssumption DEF RingShape
      <3>5. n + 1 - s + i = n - BufSize + k /\ n - BufSize + k \in 1..n
        BY <1>2, <1>a, <1>b, <1>10, <2>3, <3>1, CapAssumption
      <3> HIDE DEF k
      <3> QED BY <1>2, <1>4, <1>10, <3>1, <3>3, <3>4, <3>5
    <2> QED BY <2>2, <2>3
  <1>12. s <= n + 1
    BY SMTT(40), <1>2, <1>6, <1>8, <1>10 DEF TypeOK
  <1> QED
    BY SMTT(40), <1>2, <1>8, <1>9, <1>11, <1>12 DEF RingHoldsNewest, Ring, SlotAt

(* Expiring the oldest entry leaves the others where they are.             *)
LEMMA ExpireHoldsNewest ==
    ASSUME TypeOK, RingHoldsNewest, ExpireOldest
    PROVE  RingHoldsNewest'
  <1> DEFINE n == Len(merged)
  <1>1. /\ BufSize \in 1..Cap /\ BufSize' = BufSize - 1
        /\ UNCHANGED <<BufHead, ConnectionTimestamps, merged>>
    BY DEF TypeOK, ExpireOldest, OldestExpired
  <1>2. n \in Nat /\ BufSize <= n
    BY LenProperties DEF TypeOK, RingHoldsNewest
  <1>3. PICK s \in 0..Cap-1 : s = BufSize' /\ s = BufSize - 1
    BY <1>1, CapAssumption
  <1>4. TailIndex' = TailAt(BufHead, s)
    BY <1>1, <1>3 DEF TailIndex, TailAt, GoRem
  <1>5. ASSUME NEW i \in 1..s
        PROVE  ConnectionTimestamps[SlotAt(BufHead, s, i)] = merged[n - s + i]
    <2>1. i + 1 \in 1..BufSize /\ n - s + i = n - BufSize + (i + 1)
      BY <1>1, <1>2, <1>3
    <2>2. SlotAt(BufHead, s, i) = IF s < BufHead + i THEN BufHead - s + i
                                                     ELSE BufHead - s + i + Cap
      <3>1. BufHead \in 0..Cap-1 /\ s \in 0..Cap BY CapAssumption DEF TypeOK
      <3> QED BY <3>1, SlotAtIs
    <2>3. SlotAt(BufHead, BufSize, i + 1) =
            IF BufSize < BufHead + (i + 1) THEN BufHead - BufSize + (i + 1)
                                           ELSE BufHead - BufSize + (i + 1) + Cap
      BY <2>1, SlotAtIs DEF TypeOK
    <2>4. SlotAt(BufHead, s, i) = SlotAt(BufHead, BufSize, i + 1)
      BY <1>1, <1>3, <2>2, <2>3, CapAssumption DEF TypeOK
    <2> QED BY <2>1, <2>4, RingBySlots
  <1> QED
    BY <1>1, <1>2, <1>3, <1>4, <1>5 DEF RingHoldsNewest, Ring, SlotAt

Inv == TypeOK /\ RingShape /\ RingHoldsNewest

(* Growth, wrap, overwrite and expiry keep the shape and the content.      *)
LEMMA NextInv == Inv /\ [Next]_vars => Inv'
  <1> SUFFICES ASSUME Inv, [Next]_vars PROVE RingHoldsNewest'
    BY NextTypeOK, NextRingShape DEF Inv
  <1>1. CASE MergeStamp
    BY <1>1, MergeHoldsNewest DEF Inv
  <1>2. CASE ExpireOldest
    BY <1>2, ExpireHoldsNewest DEF Inv
  <1>3. CASE UNCHANGED <<ringVars, merged>>
    BY <1>3 DEF Inv, RingHoldsNewest, Ring, TailIndex, ringVars
  <1> QED BY <1>1, <1>2, <1>3, RingSteps

(* The ring always holds the newest of all timestamps ever merged, in the  *)
(* order they were merged: neither the wrap of the write position nor an   *)
(* overwrite nor an expiry loses or reorders any of them.                  *)
THEOREM HoldsNewest == Spec => []RingHoldsNewest
  <1>1. Init => Inv
    BY InitTypeOK, CapAssumption DEF Init, Inv, RingShape, RingHoldsNewest
  <1> QED BY <1>1, NextInv, PTL DEF Spec, Inv

----------------------------------------------------------------------------
(* What the expiry forgets.                                                *)

(* Scrapes look back from a time the host has shown.                       *)
CutoffShown == clock <= latest /\ cutoff <= latest - Window

LEMMA NextCutoffShown ==
    ASSUME TypeOK, CutoffShown, [Next]_vars
    PROVE  CutoffShown' /\ latest <= latest'
  <1> DEFINE still == UNCHANGED <<clock, latest, cutoff>>
  <1> USE DEF timeVars, scrapeVars
  <1>0. {clock, latest, cutoff, Window} \subseteq Int /\ Window >= 0
    BY BoundsAssumption, TimesInt DEF TypeOK
  <1>1. CASE Tick
    BY <1>0, <1>1 DEF Tick, CutoffShown
  <1>2. CASE StepBack
    BY <1>0, <1>2 DEF StepBack, CutoffShown
  <1>3. CASE BeginScrape
    BY <1>0, <1>3 DEF BeginScrape, CutoffShown
  <1>4. ASSUME NEW ip \in IPs, XrayLogs(ip) PROVE still
    BY <1>4 DEF XrayLogs
  <1>5. ASSUME Parse PROVE still
    BY <1>5 DEF Parse, ReadLine, ParseBegin, SkipLine, KeepLine, StopReading, BeginMerge,
              MergeStamp, EndMerge
  <1>6. ASSUME ExpireOldest PROVE still
    BY <1>6 DEF ExpireOldest
  <1>7. ASSUME EndScrape PROVE still
    BY <1>7 DEF EndScrape
  <1>8. ASSUME UNCHANGED vars PROVE still
    BY <1>8 DEF vars
  <1>9. CASE still
    BY <1>0, <1>9 DEF CutoffShown
  <1> HIDE DEF still
  <1> QED
    BY <1>1, <1>2, <1>3, <1>4, <1>5, <1>6, <1>7, <1>8, <1>9 DEF Next, Scrape

(* The entries younger than h among the latest Cap merged are in the ring. *)
Kept(h) ==
    \A i \in DOMAIN merged :
        i > Len(merged) - Cap /\ merged[i] > h => i > Len(merged) - BufSize

(* A merge overwrites an entry only when Cap newer ones are in.            *)
LEMMA MergeKeeps ==
    ASSUME TypeOK, MergeStamp, NEW h \in Int, Kept(h)
    PROVE  Kept(h)'
  <1> DEFINE n == Len(merged)
  <1>1. Head(batchStamps) \in Times
    BY HeadType DEF TypeOK, MergeStamp
  <1>2. /\ n \in Nat /\ Len(merged') = n + 1 /\ DOMAIN merged' = 1..n+1
        /\ DOMAIN merged = 1..n
        /\ \A j \in 1..n : merged'[j] = merged[j]
    BY <1>1, AppendProperties, LenProperties DEF TypeOK, MergeStamp
  <1>3. BufSize' = IF BufSize < Cap THEN BufSize + 1 ELSE BufSize
    BY DEF MergeStamp, addConnectionTimestamp, NextSize
  <1>4. ASSUME NEW i \in DOMAIN merged', i > Len(merged') - Cap, merged'[i] > h
        PROVE  i > Len(merged') - BufSize'
    <2>1. CASE i = n + 1
      BY SMTT(40), <1>2, <1>3, <2>1, CapAssumption DEF TypeOK
    <2>2. CASE i # n + 1
      <3>1. i \in 1..n /\ i > n - Cap /\ merged[i] > h
        BY <1>2, <1>4, <2>2, CapAssumption
      <3>2. i > n - BufSize
        BY <1>2, <3>1 DEF Kept
      <3>3. BufSize \in Nat /\ BufSize <= Cap /\ Cap \in Nat BY CapAssumption DEF TypeOK
      <3>4. CASE BufSize < Cap
        BY <1>2, <1>3, <3>1, <3>2, <3>3, <3>4
      <3>5. CASE BufSize = Cap
        <4>1. BufSize' = Cap BY <1>3, <3>3, <3>5
        <4> QED BY <1>4, <1>2, <3>1, <3>3, <4>1
      <3> QED BY <3>3, <3>4, <3>5
    <2> QED BY <2>1, <2>2
  <1> QED BY <1>4 DEF Kept

(* An expiry takes the oldest entry, and that one is out of the window.    *)
LEMMA ExpireKeeps ==
    ASSUME TypeOK, RingHoldsNewest, ExpireOldest,
           NEW h \in Int, cutoff <= h, Kept(h)
    PROVE  Kept(h)'
  <1> DEFINE n == Len(merged)
             oldest == n - BufSize + 1
  <1>1. /\ BufSize \in 1..Cap /\ BufSize' = BufSize - 1
        /\ merged' = merged
        /\ ~(ConnectionTimestamps[TailIndex + 1] > cutoff)
    BY DEF TypeOK, ExpireOldest, OldestExpired, After
  <1>2. n \in Nat /\ BufSize <= n /\ DOMAIN merged = 1..n
    BY LenProperties DEF TypeOK, RingHoldsNewest
  <1>3. merged[oldest] = ConnectionTimestamps[TailIndex + 1]
    <2>1. TailIndex \in 0..Cap-1
      <3>1. TailIndex = IF BufSize <= BufHead THEN BufHead - BufSize
                                              ELSE BufHead - BufSize + Cap
        BY TailAtIs DEF TypeOK, TailIndex, TailAt
      <3> QED BY <1>1, <3>1, CapAssumption DEF TypeOK
    <2>2. TailIndex % Cap = TailIndex /\ TailIndex + 1 - 1 = TailIndex
      BY <2>1, ModSmall, CapAssumption
    <2>3. Ring[1] = ConnectionTimestamps[((TailIndex + 1 - 1) % Cap) + 1]
      BY <1>1 DEF Ring
    <2>4. Ring[1] = merged[n - BufSize + 1]
      BY <1>1 DEF RingHoldsNewest
    <2> QED BY <2>2, <2>3, <2>4
  <1>4. merged[oldest] \in Times
    <2>1. oldest \in 1..n
      BY <1>1, <1>2
    <2>2. merged \in Seq(Times)
      BY DEF TypeOK
    <2> QED BY <2>1, <2>2, ElementOfSeq
  <1>5. ~(merged[oldest] > h)
    <2>1. {cutoff, merged[oldest]} \subseteq Int
      BY <1>4, BoundsAssumption, TimesInt DEF TypeOK
    <2>2. ~(merged[oldest] > cutoff)
      BY <1>1, <1>3
    <2> HIDE DEF oldest
    <2> QED BY <2>1, <2>2
  <1>6. ASSUME NEW i \in 1..n, i > n - Cap, merged[i] > h
        PROVE  i > n - (BufSize - 1)
    <2>1. i > n - BufSize
      BY <1>2, <1>6 DEF Kept
    <2>2. i # oldest
      BY <1>5, <1>6
    <2> QED BY <1>1, <1>2, <2>1, <2>2
  <1> QED BY <1>1, <1>2, <1>6 DEF Kept

(* Whatever the clock does, a connection that is in the window by the      *)
(* latest time the host has shown stays in the ring, unless as many newer  *)
(* ones as the ring holds were merged: expiring from the tail is safe.     *)
THEOREM ForgetsNoYoung == Spec => []YoungNotForgotten
  <1> DEFINE I == Inv /\ CutoffShown /\ YoungNotForgotten
  <1>1. Init => I
    BY InitTypeOK, CapAssumption, BoundsAssumption, TimesInt
       DEF Init, Inv, RingShape, RingHoldsNewest, CutoffShown, YoungNotForgotten
  <1>2. I /\ [Next]_vars => I'
    <2> SUFFICES ASSUME I, [Next]_vars PROVE YoungNotForgotten'
      BY NextInv, NextCutoffShown DEF Inv
    <2>0. PICK h \in Int : h = latest - Window
      BY BoundsAssumption, TimesInt DEF Inv, TypeOK
    <2>4. cutoff <= h /\ Kept(h)
      BY <2>0 DEF CutoffShown, YoungNotForgotten, Kept
    <2>1. CASE MergeStamp
      <3>1. Kept(h)' BY <2>1, <2>4, MergeKeeps DEF Inv
      <3>2. latest' = latest BY <2>1 DEF MergeStamp, timeVars
      <3> QED BY <2>0, <3>1, <3>2 DEF YoungNotForgotten, Kept
    <2>2. CASE ExpireOldest
      <3>1. Kept(h)' BY <2>2, <2>4, ExpireKeeps DEF Inv
      <3>2. latest' = latest BY <2>2 DEF ExpireOldest, timeVars
      <3> QED BY <2>0, <3>1, <3>2 DEF YoungNotForgotten, Kept
    <2>3. CASE UNCHANGED <<ringVars, merged>>
      <3>1. latest <= latest' /\ latest \in Int /\ latest' \in Int
        BY NextTypeOK, NextCutoffShown DEF Inv, TypeOK
      <3>2. \A i \in DOMAIN merged : merged[i] \in Int
        <4>1. merged \in [1..Len(merged) -> Times]
          BY LenProperties DEF Inv, TypeOK
        <4> QED BY <4>1, BoundsAssumption, TimesInt
      <3> QED
        BY SMTT(40), <2>3, <3>1, <3>2, BoundsAssumption, TimesInt DEF YoungNotForgotten, ringVars
    <2> QED BY <2>1, <2>2, <2>3, RingSteps
  <1> QED BY <1>1, <1>2, PTL DEF Spec

----------------------------------------------------------------------------
(* What a scrape returns, while the clock of the host is not set back.     *)

(* Xray writes the log in the order of time.                               *)
Chronological ==
    /\ \A i \in DOMAIN log : log[i].ts <= Local(clock)
    /\ \A i, j \in DOMAIN log : i <= j => log[i].ts <= log[j].ts

(* The lock is the parse goroutine's while it merges, and between two      *)
(* passes all lines it has read are merged.                                *)
Locked ==
    /\ mu = "merge" <=> pc = "merging"
    /\ pc = "waiting" => batchStamps = <<>> /\ applied = consumed

(* No pass and no scrape looks back from a time yet to come.               *)
CutoffsPast ==
    /\ cutoff <= clock - Window
    /\ pc # "waiting" => parseCutoff <= clock - Window

(* The timestamps of the first n lines.                                    *)
Stamps(l, n) == [i \in 1..n |-> l[i].ts]

(* Above c are the last k of the timestamps A, and none before them.       *)
LastAbove(A, c, k) == \A i \in 1..Len(A) : A[i] > c <=> i > Len(A) - k

(* A and B have equally many timestamps above c, and they are the last.    *)
SameAbove(A, B, c) ==
    \E k \in Nat : k <= Len(A) /\ k <= Len(B) /\ LastAbove(A, c, k) /\ LastAbove(B, c, k)

(* The cutoffs of the scrapes to come.                                     *)
ToCome(now) == now - Window .. MaxTime

(* Whichever lines the passes have skipped, for the scrapes to come the    *)
(* log and what is kept of it are the same: so are the lines read and what *)
(* is merged or in the batch, ...                                          *)
ReadSame ==
    \A c \in ToCome(clock) : SameAbove(Stamps(log, consumed), merged \o batchStamps, c)

(* ... the lines merged and what was made of them, ...                     *)
MergedSame ==
    pc # "merging" => \A c \in ToCome(clock) : SameAbove(Stamps(log, applied), merged, c)

(* ... and these for the scrape that is going on.                          *)
ScrapeSame ==
    mu = "scrape" => SameAbove(Stamps(log, applied), merged, cutoff)

(* The lines of the latest report are in the log.                          *)
ReportLogged == report.upTo <= Len(log)

ReadInv == Inv /\ Chronological /\ Locked /\ CutoffsPast /\ ReadSame

ReportInv == ReadInv /\ MergedSame /\ ScrapeSame /\ Kept(cutoff) /\ ReportLogged

(* What each step leaves alone.                                            *)
LEMMA Effects ==
    ASSUME [Next]_vars
    PROVE  /\ (\E ip \in IPs : XrayLogs(ip)) \/ log' = log
           /\ SkipLine \/ KeepLine \/ consumed' = consumed
           /\ ParseBegin \/ KeepLine \/ MergeStamp \/ batchStamps' = batchStamps
           /\ MergeStamp \/ ExpireOldest \/ UNCHANGED <<ringVars, merged>>
           /\ EndMerge \/ applied' = applied
           /\ BeginScrape \/ cutoff' = cutoff
           /\ EndScrape \/ report' = report
           /\ ParseBegin \/ parseCutoff' = parseCutoff
           /\ ParseBegin \/ StopReading \/ BeginMerge \/ EndMerge \/ pc' = pc
           /\ BeginMerge \/ EndMerge \/ BeginScrape \/ EndScrape \/ mu' = mu
  <1> USE DEF timeVars, ringVars, batchVars, scrapeVars
  <1>1. CASE Tick \/ StepBack BY <1>1 DEF Tick, StepBack
  <1>2. CASE \E ip \in IPs : XrayLogs(ip) BY <1>2 DEF XrayLogs
  <1>3. CASE ParseBegin \/ SkipLine \/ KeepLine \/ StopReading
    BY <1>3 DEF ParseBegin, SkipLine, KeepLine, StopReading
  <1>4. CASE BeginMerge \/ MergeStamp \/ EndMerge
    BY <1>4 DEF BeginMerge, MergeStamp, EndMerge
  <1>5. CASE Scrape BY <1>5 DEF Scrape, BeginScrape, ExpireOldest, EndScrape
  <1>6. CASE UNCHANGED vars BY <1>6 DEF vars
  <1> QED BY <1>1, <1>2, <1>3, <1>4, <1>5, <1>6 DEF Next, Parse, ReadLine

(* The log only grows at its end.                                          *)
LEMMA LogGrows ==
    ASSUME TypeOK, [Next]_vars
    PROVE  /\ Len(log) \in Nat /\ Len(log') \in Nat /\ Len(log) <= Len(log')
           /\ DOMAIN log = 1..Len(log) /\ DOMAIN log' = 1..Len(log')
           /\ \A i \in 1..Len(log) : log'[i] = log[i] /\ log[i].ts \in Int
           /\ \A i \in 1..Len(log') : log'[i].ts \in Int
           /\ \A i \in 1..Len(log') : i > Len(log) => log'[i].ts = Local(clock) /\ clock' = clock
  <1> DEFINE Lines == [ip : IPs, ts : Times]
  <1>1. log \in Seq(Lines) /\ clock \in 0..MaxTime BY DEF TypeOK
  <1>2. /\ Len(log) \in Nat /\ DOMAIN log = 1..Len(log)
        /\ \A i \in 1..Len(log) : log[i].ts \in Int
    <2>1. Len(log) \in Nat /\ DOMAIN log = 1..Len(log) BY <1>1, LenProperties
    <2>2. \A i \in 1..Len(log) : log[i] \in Lines BY <1>1, ElementOfSeq
    <2> QED BY <2>1, <2>2, BoundsAssumption, TimesInt
  <1>3. ASSUME NEW ip \in IPs, XrayLogs(ip)
        PROVE  /\ Len(log') = Len(log) + 1 /\ DOMAIN log' = 1..Len(log')
               /\ \A i \in 1..Len(log) : log'[i] = log[i]
               /\ log'[Len(log) + 1].ts = Local(clock) /\ clock' = clock
    <2>0. Local(clock) \in Times BY <1>1, TimesInt
    <2>1. [ip |-> ip, ts |-> Local(clock)] \in Lines BY <2>0
    <2>2. log' = Append(log, [ip |-> ip, ts |-> Local(clock)]) /\ clock' = clock
      BY <1>3 DEF XrayLogs, timeVars
    <2>3. /\ log' \in Seq(Lines) /\ Len(log') = Len(log) + 1
          /\ \A i \in 1..Len(log) : log'[i] = log[i]
          /\ log'[Len(log) + 1] = [ip |-> ip, ts |-> Local(clock)]
      BY <1>1, <2>1, <2>2, AppendProperties
    <2> QED BY <2>2, <2>3, LenProperties
  <1>4. CASE \E ip \in IPs : XrayLogs(ip)
    <2>1. /\ Len(log') = Len(log) + 1 /\ DOMAIN log' = 1..Len(log')
          /\ \A i \in 1..Len(log) : log'[i] = log[i]
          /\ log'[Len(log) + 1].ts = Local(clock) /\ clock' = clock
      BY <1>3, <1>4
    <2>2. \A i \in 1..Len(log') : i \in 1..Len(log) \/ i = Len(log) + 1 BY <1>2, <2>1
    <2>3. clock \in Int /\ Local(clock) \in Int BY <1>1, BoundsAssumption, TimesInt
    <2> QED BY <1>2, <2>1, <2>2, <2>3
  <1>5. CASE log' = log BY <1>2, <1>5
  <1> QED BY <1>4, <1>5, Effects

(* While the clock goes forward Xray keeps the order of time.              *)
LEMMA ChronologicalKept ==
    ASSUME TypeOK, Chronological, [Next]_vars, clock' >= clock
    PROVE  Chronological'
  <1>1. clock \in Int /\ clock' \in Int BY NextTypeOK, BoundsAssumption, TimesInt DEF TypeOK
  <1>2. \A i \in 1..Len(log) : log[i].ts <= Local(clock) BY LogGrows DEF Chronological
  <1>3. ASSUME NEW i \in 1..Len(log') PROVE log'[i].ts <= Local(clock) /\ log'[i].ts <= Local(clock')
    <2>0. Local(clock) = clock + ZoneOffset /\ Local(clock') = clock' + ZoneOffset
      BY <1>1, TimesInt
    <2>1. Local(clock) \in Int /\ Local(clock) <= Local(clock')
      <3>1. \A a, b, z \in Int : a <= b => a + z \in Int /\ a + z <= b + z OBVIOUS
      <3>2. clock <= clock' BY <1>1
      <3>3. clock + ZoneOffset \in Int /\ clock + ZoneOffset <= clock' + ZoneOffset
        BY <1>1, <3>1, <3>2, ZoneAssumption
      <3> QED BY <2>0, <3>3
    <2>2. log'[i].ts \in Int /\ Local(clock') \in Int BY SMTT(40), <1>1, LogGrows, TimesInt
    <2>3. log'[i].ts <= Local(clock) BY <1>2, <2>1, LogGrows
    <2> QED BY <2>1, <2>2, <2>3
  <1>4. ASSUME NEW i \in 1..Len(log'), NEW j \in 1..Len(log'), i <= j
        PROVE  log'[i].ts <= log'[j].ts
    <2>1. CASE j <= Len(log)
      <3>1. i \in 1..Len(log) /\ j \in 1..Len(log) BY <1>4, <2>1, LogGrows
      <3>2. log[i].ts <= log[j].ts BY <1>4, <3>1, LogGrows DEF Chronological
      <3> QED BY <3>1, <3>2, LogGrows
    <2>2. CASE j > Len(log)
      BY <1>3, <2>2, LogGrows
    <2> QED BY <2>1, <2>2, LogGrows
  <1> QED BY <1>3, <1>4, LogGrows DEF Chronological

(* The lock and the batch, from step to step.                              *)
LEMMA LockedKept ==
    ASSUME Locked, [Next]_vars
    PROVE  Locked'
  <1>1. CASE ParseBegin BY <1>1 DEF ParseBegin, Locked
  <1>2. CASE SkipLine \/ KeepLine BY <1>2 DEF SkipLine, KeepLine, Locked
  <1>3. CASE BeginMerge \/ StopReading BY <1>3 DEF BeginMerge, StopReading, Locked, batchVars
  <1>4. CASE MergeStamp BY <1>4 DEF MergeStamp, Locked
  <1>5. CASE EndMerge BY <1>5 DEF EndMerge, Locked, batchVars
  <1>6. CASE BeginScrape BY <1>6 DEF BeginScrape, Locked, batchVars
  <1>7. CASE EndScrape BY <1>7 DEF EndScrape, Locked, batchVars
  <1>8. CASE UNCHANGED <<pc, mu, consumed, applied, batchStamps>>
    BY <1>8 DEF Locked
  <1> QED BY <1>1, <1>2, <1>3, <1>4, <1>5, <1>6, <1>7, <1>8, Effects

(* Cutoffs are in the past and those of the scrapes go forward.            *)
LEMMA CutoffsPastKept ==
    ASSUME TypeOK, CutoffsPast, [Next]_vars, clock' >= clock
    PROVE  CutoffsPast' /\ cutoff <= cutoff'
  <1>1. /\ {clock, cutoff, parseCutoff, Window} \subseteq Int
        /\ {clock', cutoff', parseCutoff'} \subseteq Int
    BY NextTypeOK, BoundsAssumption, TimesInt DEF TypeOK
  <1>2. cutoff' <= clock' - Window /\ cutoff <= cutoff'
    <2>1. CASE BeginScrape
      <3>1. cutoff' = clock - Window BY <2>1 DEF BeginScrape
      <3> QED BY <1>1, <3>1 DEF CutoffsPast
    <2>2. CASE cutoff' = cutoff BY <1>1, <2>2 DEF CutoffsPast
    <2> QED BY <2>1, <2>2, Effects
  <1>3. pc' # "waiting" => parseCutoff' <= clock' - Window
    <2>1. CASE ParseBegin
      <3>1. parseCutoff' = clock - Window BY <2>1 DEF ParseBegin
      <3> QED BY <1>1, <3>1
    <2>2. CASE ~ParseBegin
      <3>1. parseCutoff' = parseCutoff BY <2>2, Effects
      <3>2. pc' # "waiting" => pc # "waiting" BY <2>2, Effects DEF StopReading, BeginMerge, EndMerge
      <3> QED BY <1>1, <3>1, <3>2 DEF CutoffsPast
    <2> QED BY <2>1, <2>2
  <1> QED BY <1>2, <1>3 DEF CutoffsPast

(* One more timestamp, not below those there are: both get it, ...         *)
LEMMA SameAboveBoth ==
    ASSUME NEW A \in Seq(Int), NEW B \in Seq(Int), NEW t \in Int, NEW c \in Int,
           SameAbove(A, B, c), \A i \in 1..Len(A) : A[i] <= t
    PROVE  SameAbove(Append(A, t), Append(B, t), c)
  <1>1. PICK k \in Nat : /\ k <= Len(A) /\ k <= Len(B)
                         /\ LastAbove(A, c, k) /\ LastAbove(B, c, k)
    BY DEF SameAbove
  <1>2. /\ Len(A) \in Nat /\ Len(B) \in Nat
        /\ \A i \in 1..Len(A) : A[i] \in Int
        /\ \A i \in 1..Len(B) : B[i] \in Int
    BY LenProperties, ElementOfSeq
  <1>3. /\ Len(Append(A, t)) = Len(A) + 1 /\ Append(A, t)[Len(A) + 1] = t
        /\ \A i \in 1..Len(A) : Append(A, t)[i] = A[i]
        /\ Len(Append(B, t)) = Len(B) + 1 /\ Append(B, t)[Len(B) + 1] = t
        /\ \A i \in 1..Len(B) : Append(B, t)[i] = B[i]
    BY AppendProperties
  <1>4. CASE t > c
    <2>1. ASSUME NEW i \in 1..Len(A)+1
          PROVE  Append(A, t)[i] > c <=> i > Len(A) + 1 - (k + 1)
      BY <1>1, <1>2, <1>3, <1>4 DEF LastAbove
    <2>2. ASSUME NEW i \in 1..Len(B)+1
          PROVE  Append(B, t)[i] > c <=> i > Len(B) + 1 - (k + 1)
      BY <1>1, <1>2, <1>3, <1>4 DEF LastAbove
    <2>3. k + 1 \in Nat /\ k + 1 <= Len(A) + 1 /\ k + 1 <= Len(B) + 1 BY <1>1, <1>2
    <2>4. LastAbove(Append(A, t), c, k + 1)
      <3>1. Len(Append(A, t)) = Len(A) + 1 BY <1>3
      <3> QED BY SMTT(60), <3>1, <2>1 DEF LastAbove
    <2>5. LastAbove(Append(B, t), c, k + 1)
      <3>1. Len(Append(B, t)) = Len(B) + 1 BY <1>3
      <3> QED BY SMTT(60), <3>1, <2>2 DEF LastAbove
    <2> QED BY <1>3, <2>3, <2>4, <2>5 DEF SameAbove
  <1>5. CASE ~(t > c)
    <2>1. k = 0
      <3> SUFFICES ASSUME k # 0 PROVE FALSE OBVIOUS
      <3>1. Len(A) \in 1..Len(A) /\ Len(A) > Len(A) - k BY <1>1, <1>2
      <3>2. A[Len(A)] > c BY <1>1, <3>1 DEF LastAbove
      <3>3. A[Len(A)] <= t /\ A[Len(A)] \in Int BY <1>2, <3>1
      <3> QED BY <1>5, <3>2, <3>3
    <2>2. ASSUME NEW i \in 1..Len(A)+1
          PROVE  Append(A, t)[i] > c <=> i > Len(A) + 1 - 0
      BY <1>1, <1>2, <1>3, <1>5, <2>1 DEF LastAbove
    <2>3. ASSUME NEW i \in 1..Len(B)+1
          PROVE  Append(B, t)[i] > c <=> i > Len(B) + 1 - 0
      BY <1>1, <1>2, <1>3, <1>5, <2>1 DEF LastAbove
    <2>4. LastAbove(Append(A, t), c, 0) BY <1>3, <2>2 DEF LastAbove
    <2>5. LastAbove(Append(B, t), c, 0) BY <1>3, <2>3 DEF LastAbove
    <2>6. 0 <= Len(A) + 1 /\ 0 <= Len(B) + 1 BY <1>2
    <2> QED BY <1>3, <2>4, <2>5, <2>6 DEF SameAbove
  <1> QED BY <1>4, <1>5

(* ... or it is not above c and only one gets it.                          *)
LEMMA SameAboveSkipped ==
    ASSUME NEW A \in Seq(Int), NEW B \in Seq(Int), NEW t \in Int, NEW c \in Int,
           SameAbove(A, B, c), \A i \in 1..Len(A) : A[i] <= t, ~(t > c)
    PROVE  SameAbove(Append(A, t), B, c)
  <1>1. PICK k \in Nat : /\ k <= Len(A) /\ k <= Len(B)
                         /\ LastAbove(A, c, k) /\ LastAbove(B, c, k)
    BY DEF SameAbove
  <1>2. /\ Len(A) \in Nat /\ Len(B) \in Nat
        /\ \A i \in 1..Len(A) : A[i] \in Int
    BY LenProperties, ElementOfSeq
  <1>3. /\ Len(Append(A, t)) = Len(A) + 1 /\ Append(A, t)[Len(A) + 1] = t
        /\ \A i \in 1..Len(A) : Append(A, t)[i] = A[i]
    BY AppendProperties
  <1>4. k = 0
    <2> SUFFICES ASSUME k # 0 PROVE FALSE OBVIOUS
    <2>1. Len(A) \in 1..Len(A) /\ Len(A) > Len(A) - k BY <1>1, <1>2
    <2>2. A[Len(A)] > c BY <1>1, <2>1 DEF LastAbove
    <2> QED BY <1>2, <2>1, <2>2
  <1>5. ASSUME NEW i \in 1..Len(A)+1
        PROVE  Append(A, t)[i] > c <=> i > Len(A) + 1 - 0
    BY <1>1, <1>2, <1>3, <1>4 DEF LastAbove
  <1>6. LastAbove(Append(A, t), c, 0) BY <1>3, <1>5 DEF LastAbove
  <1>7. 0 <= Len(A) + 1 /\ 0 <= Len(B) /\ LastAbove(B, c, 0) BY <1>1, <1>2, <1>4
  <1> QED BY <1>3, <1>6, <1>7 DEF SameAbove

(* The timestamps of one more line.                                        *)
LEMMA StampsNext ==
    ASSUME NEW l, NEW n \in Nat, \A i \in 1..n+1 : l[i].ts \in Int
    PROVE  /\ Stamps(l, n) \in Seq(Int) /\ Len(Stamps(l, n)) = n
           /\ Stamps(l, n + 1) = Append(Stamps(l, n), l[n + 1].ts)
  <1>1. ASSUME NEW m \in {n, n + 1}
        PROVE  /\ Stamps(l, m) \in Seq(Int) /\ Len(Stamps(l, m)) = m
               /\ \A i \in 1..m : Stamps(l, m)[i] = l[i].ts
    <2>1. m \in Nat OBVIOUS
    <2>2. Stamps(l, m) \in [1..m -> Int] BY <1>1 DEF Stamps
    <2>3. Stamps(l, m) \in Seq(Int) BY <2>1, <2>2, SeqDef
    <2>4. DOMAIN Stamps(l, m) = 1..m BY <2>2
    <2>5. Len(Stamps(l, m)) = m BY <2>1, <2>3, <2>4, LenProperties
    <2> QED BY <2>3, <2>5 DEF Stamps
  <1>2. /\ Append(Stamps(l, n), l[n + 1].ts) \in Seq(Int)
        /\ Len(Append(Stamps(l, n), l[n + 1].ts)) = n + 1
        /\ \A i \in 1..n : Append(Stamps(l, n), l[n + 1].ts)[i] = l[i].ts
        /\ Append(Stamps(l, n), l[n + 1].ts)[n + 1] = l[n + 1].ts
    BY <1>1, AppendProperties
  <1>3. \A i \in 1..n+1 : Stamps(l, n + 1)[i] = Append(Stamps(l, n), l[n + 1].ts)[i]
    BY <1>1, <1>2
  <1> QED BY <1>1, <1>2, <1>3, SeqEqual

(* A growing log leaves the timestamps of its lines.                       *)
LEMMA StampsKept ==
    ASSUME TypeOK, [Next]_vars, NEW n \in Nat, n <= Len(log)
    PROVE  Stamps(log', n) = Stamps(log, n)
  BY LogGrows DEF Stamps

(* A sequence of timestamps is one of integers.                            *)
LEMMA StampsTyped == ASSUME NEW s \in Seq(Times) PROVE s \in Seq(Int)
  <1>1. Times \subseteq Int BY BoundsAssumption, TimesInt
  <1> QED BY <1>1, SeqMonotonic

(* The scrapes to come get fewer.                                          *)
LEMMA ToComeLater ==
    ASSUME NEW now \in Int, NEW later \in Int, now <= later
    PROVE  \A c \in ToCome(later) : c \in ToCome(now) /\ c \in Int /\ now - Window <= c
  BY BoundsAssumption, TimesInt DEF ToCome

(* A line kept goes to the end of the batch.                               *)
LEMMA AppendToConcat ==
    ASSUME NEW A \in Seq(Int), NEW B \in Seq(Int), NEW t \in Int
    PROVE  A \o Append(B, t) = Append(A \o B, t)
  <1>1. A \o B \in Seq(Int) BY ConcatProperties
  <1>2. Append(B, t) = B \o <<t>> BY AppendIsConcat
  <1>3. Append(A \o B, t) = (A \o B) \o <<t>> BY <1>1, AppendIsConcat
  <1>4. <<t>> \in Seq(Int) OBVIOUS
  <1> QED BY <1>2, <1>3, <1>4, ConcatAssociative

(* A timestamp merged goes from the batch to the end of the merged.        *)
LEMMA MoveHead ==
    ASSUME NEW A \in Seq(Int), NEW B \in Seq(Int), B # <<>>
    PROVE  Append(A, Head(B)) \o Tail(B) = A \o B
  <1>1. Head(B) \in Int /\ Tail(B) \in Seq(Int) BY HeadTailProperties
  <1>2. Append(A, Head(B)) = A \o <<Head(B)>> BY <1>1, AppendIsConcat
  <1>3. <<Head(B)>> \in Seq(Int) BY <1>1
  <1>4. <<Head(B)>> \o Tail(B) = B
    <2>1. /\ Len(B) \in Nat /\ Len(B) # 0 /\ Len(Tail(B)) = Len(B) - 1 /\ Head(B) = B[1]
          /\ \A i \in 1..Len(Tail(B)) : Tail(B)[i] = B[i + 1]
      BY HeadTailProperties, LenProperties, EmptySeq
    <2>2. Len(<<Head(B)>>) = 1 /\ <<Head(B)>>[1] = Head(B) OBVIOUS
    <2>3. /\ <<Head(B)>> \o Tail(B) \in Seq(Int)
          /\ Len(<<Head(B)>> \o Tail(B)) = Len(B)
      BY <1>1, <1>3, <2>1, <2>2, ConcatProperties
    <2>4. ASSUME NEW i \in 1..Len(B) PROVE (<<Head(B)>> \o Tail(B))[i] = B[i]
      <3>1. (<<Head(B)>> \o Tail(B))[i] = IF i <= 1 THEN <<Head(B)>>[i] ELSE Tail(B)[i - 1]
        BY <1>1, <1>3, <2>1, <2>2, ConcatProperties
      <3> QED BY <2>1, <2>2, <3>1
    <2> QED BY <2>3, <2>4, SeqEqual
  <1>5. (A \o <<Head(B)>>) \o Tail(B) = A \o (<<Head(B)>> \o Tail(B))
    BY SMTT(40), <1>1, <1>3, ConcatAssociative
  <1> QED BY <1>2, <1>4, <1>5

(* The parse goroutine reads a line, or merges a timestamp: the lines read *)
(* and what is kept of them go on to be the same for the scrapes to come.  *)
LEMMA ReadSameKept ==
    ASSUME ReadInv, [Next]_vars, clock' >= clock
    PROVE  ReadSame'
  <1> DEFINE M == merged \o batchStamps
  <1>1. TypeOK /\ TypeOK' BY NextTypeOK DEF ReadInv, Inv
  <1>2. /\ consumed \in Nat /\ consumed <= Len(log) /\ Len(log) \in Nat
        /\ clock \in Int /\ clock' \in Int /\ Window \in Int /\ MaxTime \in Int
        /\ merged \in Seq(Int) /\ batchStamps \in Seq(Int)
    BY <1>1, LogGrows, BoundsAssumption, TimesInt, StampsTyped DEF TypeOK
  <1>3. \A c \in ToCome(clock') : c \in ToCome(clock) /\ c \in Int /\ clock - Window <= c
    BY <1>2, ToComeLater
  <1>4. M \in Seq(Int) BY <1>2, ConcatProperties
  <1>5. \A i \in 1..Len(log) : log[i].ts \in Int BY <1>1, LogGrows
  <1>6. CASE SkipLine \/ KeepLine
    <2> DEFINE A == Stamps(log, consumed)
               t == log[consumed + 1].ts
    <2>1. /\ consumed < Len(log) /\ consumed' = consumed + 1 /\ log' = log
          /\ pc = "reading" /\ merged' = merged
      BY <1>6 DEF SkipLine, KeepLine
    <2>2. /\ A \in Seq(Int) /\ Len(A) = consumed /\ Stamps(log', consumed') = Append(A, t)
          /\ \A i \in 1..consumed+1 : i \in 1..Len(log)
      <3>1. \A i \in 1..consumed+1 : i \in 1..Len(log) BY <1>2, <2>1
      <3>2. \A i \in 1..consumed+1 : log[i].ts \in Int BY <1>5, <3>1
      <3> QED BY <1>2, <2>1, <3>1, <3>2, StampsNext
    <2>3. t \in Int BY <1>2, <1>5, <2>2
    <2>4. \A i \in 1..Len(A) : A[i] <= t
      <3>1. \A i \in 1..consumed : log[i].ts <= log[consumed + 1].ts
        <4>1. consumed + 1 \in 1..Len(log) /\ \A i \in 1..consumed : i <= consumed + 1
          BY <1>2, <2>2
        <4>2. \A i, j \in 1..Len(log) : i <= j => log[i].ts <= log[j].ts
          BY <1>1, LogGrows DEF ReadInv, Chronological
        <4> QED BY <2>2, <4>1, <4>2
      <3> QED BY <2>2, <3>1 DEF Stamps
    <2>5. ASSUME NEW c \in ToCome(clock')
          PROVE  SameAbove(Append(A, t), merged' \o batchStamps', c)
      <3>1. c \in Int /\ SameAbove(A, M, c) BY <1>3, <2>5 DEF ReadInv, ReadSame
      <3>2. CASE KeepLine
        <4>1. batchStamps' = Append(batchStamps, t) BY <3>2 DEF KeepLine
        <4>2. merged \o Append(batchStamps, t) = Append(M, t)
          BY <1>2, <2>3, AppendToConcat
        <4> HIDE DEF A, t, M
        <4> QED BY <1>4, <2>1, <2>2, <2>3, <2>4, <3>1, <4>1, <4>2, SameAboveBoth
      <3>3. CASE SkipLine
        <4>1. batchStamps' = batchStamps /\ t < parseCutoff
          BY <3>3 DEF SkipLine, batchVars, Before
        <4>2. ~(t > c)
          <5>1. parseCutoff <= clock - Window /\ parseCutoff \in Int
            BY <1>1, <2>1 DEF ReadInv, CutoffsPast, TypeOK
          <5>2. clock - Window <= c BY <1>3
          <5> HIDE DEF t
          <5> QED BY <1>2, <2>3, <3>1, <4>1, <5>1, <5>2
        <4> HIDE DEF A, t, M
        <4>3. merged' \o batchStamps' = M BY <2>1, <4>1 DEF M
        <4> QED BY <1>4, <2>2, <2>3, <2>4, <3>1, <4>2, <4>3, SameAboveSkipped
      <3> QED BY <1>6, <3>2, <3>3
    <2> HIDE DEF A, t
    <2> QED BY <2>2, <2>5 DEF ReadSame
  <1>7. CASE ~(SkipLine \/ KeepLine)
    <2>1. consumed' = consumed BY <1>7, Effects
    <2>2. Stamps(log', consumed') = Stamps(log, consumed)
      BY <1>1, <1>2, <2>1, StampsKept
    <2>3. merged' \o batchStamps' = M
      <3>1. CASE MergeStamp
        <4>1. /\ merged' = Append(merged, Head(batchStamps))
              /\ batchStamps' = Tail(batchStamps) /\ batchStamps # <<>>
          BY <3>1 DEF MergeStamp
        <4> QED BY <1>2, <4>1, MoveHead
      <3>2. CASE ~MergeStamp
        <4>1. merged' = merged
          BY <3>2, Effects DEF ExpireOldest
        <4>2. batchStamps' = batchStamps
          <5>1. CASE ParseBegin
            BY <5>1 DEF ParseBegin, ReadInv, Locked
          <5> QED BY <1>7, <3>2, <5>1, Effects
        <4> QED BY <4>1, <4>2
      <3> QED BY <3>1, <3>2
    <2>4. ASSUME NEW c \in ToCome(clock')
          PROVE  SameAbove(Stamps(log', consumed'), merged' \o batchStamps', c)
      BY <1>3, <2>2, <2>3, <2>4 DEF ReadInv, ReadSame
    <2> QED BY <2>4 DEF ReadSame
  <1> QED BY <1>6, <1>7

(* All of this is kept by every step while the clock goes forward.         *)
LEMMA ReadInvKept ==
    ASSUME ReadInv, [Next]_vars, clock' >= clock
    PROVE  ReadInv'
  BY NextInv, ChronologicalKept, LockedKept, CutoffsPastKept, ReadSameKept
     DEF ReadInv, Inv

(* At the end of a merge all of what is read is merged, and while a scrape *)
(* has the lock nothing is.                                                *)
LEMMA MergedSameKept ==
    ASSUME ReadInv, MergedSame, ScrapeSame, [Next]_vars, clock' >= clock
    PROVE  MergedSame' /\ ScrapeSame'
  <1>1. TypeOK /\ TypeOK' BY NextTypeOK DEF ReadInv, Inv
  <1>2. /\ applied \in Nat /\ applied <= Len(log)
        /\ clock \in Int /\ clock' \in Int /\ Window \in Nat /\ MaxTime \in Int
        /\ clock <= MaxTime /\ merged \in Seq(Int)
    <2>1. consumed \in 0..Len(log) /\ Len(log) \in Nat /\ applied \in 0..consumed
      BY <1>1, LogGrows DEF TypeOK
    <2>2. clock \in 0..MaxTime /\ clock' \in 0..MaxTime /\ merged \in Seq(Int)
      BY <1>1, StampsTyped DEF TypeOK
    <2> QED BY <2>1, <2>2, BoundsAssumption, TimesInt
  <1>3. \A c \in ToCome(clock') : c \in ToCome(clock)
    BY <1>2, ToComeLater
  <1>4. Stamps(log', applied) = Stamps(log, applied)
    BY <1>1, <1>2, StampsKept
  <1>5. ASSUME pc # "merging" PROVE applied' = applied /\ merged' = merged
    <2>1. ~MergeStamp /\ ~EndMerge BY <1>5 DEF MergeStamp, EndMerge
    <2> QED BY <2>1, Effects DEF ExpireOldest
  <1>6. MergedSame'
    <2>1. CASE EndMerge
      <3>1. /\ batchStamps = <<>> /\ applied' = consumed /\ UNCHANGED <<log, merged, clock>>
        BY <2>1 DEF EndMerge, timeVars
      <3>2. merged \o batchStamps = merged BY <1>2, <3>1, ConcatEmptySeq
      <3>3. \A c \in ToCome(clock) : SameAbove(Stamps(log, consumed), merged, c)
        BY <3>2 DEF ReadInv, ReadSame
      <3>4. ToCome(clock') = ToCome(clock) BY <3>1 DEF ToCome
      <3> QED BY <3>1, <3>3, <3>4 DEF MergedSame
    <2>2. CASE ~EndMerge
      <3> SUFFICES ASSUME pc' # "merging", NEW c \in ToCome(clock')
                   PROVE  SameAbove(Stamps(log', applied'), merged', c)
        BY DEF MergedSame
      <3>1. pc # "merging" BY <2>2, Effects DEF ParseBegin, StopReading, BeginMerge
      <3>2. SameAbove(Stamps(log, applied), merged, c) BY <1>3, <3>1 DEF MergedSame
      <3> QED BY <1>4, <1>5, <3>1, <3>2
    <2> QED BY <2>1, <2>2
  <1>7. ScrapeSame'
    <2> SUFFICES ASSUME mu' = "scrape"
                 PROVE  SameAbove(Stamps(log', applied'), merged', cutoff')
      BY DEF ScrapeSame
    <2>1. pc # "merging"
      <3>1. pc' # "merging" BY LockedKept DEF ReadInv, Locked
      <3>2. ~EndMerge BY DEF EndMerge
      <3> QED BY <3>1, <3>2, Effects DEF ParseBegin, StopReading, BeginMerge
    <2>2. SameAbove(Stamps(log, applied), merged, cutoff')
      <3>1. CASE BeginScrape
        <4>1. cutoff' = clock - Window BY <3>1 DEF BeginScrape
        <4>2. cutoff' \in ToCome(clock) BY <1>2, <4>1 DEF ToCome
        <4> QED BY <2>1, <4>2 DEF MergedSame
      <3>2. CASE ~BeginScrape
        <4>1. cutoff' = cutoff /\ mu = "scrape"
          BY <3>2, Effects DEF BeginMerge, EndMerge, EndScrape
        <4> QED BY <4>1 DEF ScrapeSame
      <3> QED BY <3>1, <3>2
    <2> QED BY <1>4, <1>5, <2>1, <2>2
  <1> QED BY <1>6, <1>7

(* What a scrape forgets stays forgotten: the cutoffs go forward.          *)
LEMMA YoungerKept ==
    ASSUME ReadInv, Kept(cutoff), [Next]_vars, clock' >= clock
    PROVE  Kept(cutoff)'
  <1>1. TypeOK /\ RingHoldsNewest BY DEF ReadInv, Inv
  <1>2. PICK h \in Int : h = cutoff BY <1>1 DEF TypeOK
  <1>3. Kept(h) BY <1>2
  <1>4. cutoff' \in Int /\ h <= cutoff'
    BY <1>1, <1>2, NextTypeOK, CutoffsPastKept DEF ReadInv, TypeOK
  <1>5. Kept(h)'
    <2>1. CASE MergeStamp BY <1>1, <1>3, <2>1, MergeKeeps
    <2>2. CASE ExpireOldest BY <1>1, <1>2, <1>3, <2>2, ExpireKeeps
    <2>3. CASE UNCHANGED <<ringVars, merged>> BY <1>3, <2>3 DEF Kept, ringVars
    <2> QED BY <2>1, <2>2, <2>3, Effects
  <1>6. \A i \in DOMAIN merged' : merged'[i] \in Int
    <2>1. merged' \in Seq(Times) BY <1>1, NextTypeOK DEF TypeOK
    <2> QED BY <2>1, ElementOfSeq, LenProperties, BoundsAssumption, TimesInt
  <1> QED BY <1>4, <1>5, <1>6 DEF Kept

(* The log and the places in it.                                           *)
LEMMA LogTyped ==
    ASSUME TypeOK
    PROVE  /\ Len(log) \in Nat /\ DOMAIN log = 1..Len(log)
           /\ \A i \in 1..Len(log) : log[i].ip \in IPs /\ log[i].ts \in Int
           /\ applied \in Nat /\ consumed \in Nat /\ applied <= consumed
           /\ consumed <= Len(log)
  <1>1. Len(log) \in Nat /\ DOMAIN log = 1..Len(log)
    BY LenProperties DEF TypeOK
  <1>2. \A i \in 1..Len(log) : log[i] \in [ip : IPs, ts : Times]
    BY ElementOfSeq DEF TypeOK
  <1>3. consumed \in 0..Len(log) /\ applied \in 0..consumed BY DEF TypeOK
  <1>4. \A i \in 1..Len(log) : log[i].ip \in IPs /\ log[i].ts \in Int
    <2>1. Times \subseteq Int BY TimesInt
    <2> QED BY <1>2, <2>1
  <1> QED BY <1>1, <1>3, <1>4

(* The lines of the latest report do not change.                           *)
LEMMA ReportKept ==
    ASSUME TypeOK, ReportLogged, [Next]_vars, report' = report
    PROVE  /\ 1..report.upTo \subseteq 1..Len(log)
           /\ InReport' = InReport
           /\ InReport = {i \in 1..report.upTo : log[i].ts > report.cutoff}
           /\ {log[i].ip : i \in InReport}' = {log[i].ip : i \in InReport}
  <1>1. report.upTo \in Nat BY DEF TypeOK
  <1>2. 1..report.upTo \subseteq 1..Len(log) BY <1>1, LogTyped DEF ReportLogged
  <1>3. \A i \in 1..report.upTo : log'[i] = log[i] /\ log[i].ts \in Int
    BY <1>2, LogGrows
  <1>4. report.cutoff \in Int BY DEF TypeOK
  <1>5. \A i \in 1..report.upTo :
            /\ LoggedAt(i) > report.cutoff - ZoneOffset <=> log[i].ts > report.cutoff
            /\ (LoggedAt(i))' = LoggedAt(i)
    <2> SUFFICES ASSUME NEW i \in 1..report.upTo
                 PROVE  /\ LoggedAt(i) > report.cutoff - ZoneOffset
                               <=> log[i].ts > report.cutoff
                        /\ (LoggedAt(i))' = LoggedAt(i)
      OBVIOUS
    <2>1. log'[i] = log[i] /\ log[i].ts \in Int /\ ZoneOffset \in Int BY <1>3, TimesInt
    <2>2. (LoggedAt(i))' = LoggedAt(i) BY <2>1 DEF LoggedAt
    <2>3. log[i].ts - ZoneOffset > report.cutoff - ZoneOffset <=> log[i].ts > report.cutoff
      BY <1>4, <2>1
    <2> QED BY <2>2, <2>3 DEF LoggedAt
  <1> QED BY <1>2, <1>3, <1>5 DEF InReport

(* Only a step that sets the clock back makes it go back, for good.        *)
LEMMA Forward ==
    ASSUME TypeOK, [Next]_vars, Orderly'
    PROVE  Orderly /\ clock' >= clock
  <1> DEFINE still == UNCHANGED timeVars
  <1>0. clock \in Int /\ stepBacks \in Nat BY DEF TypeOK
  <1>1. CASE Tick BY <1>0, <1>1 DEF Tick, Orderly
  <1>2. CASE StepBack BY <1>0, <1>2 DEF StepBack, Orderly
  <1>3. ASSUME NEW ip \in IPs, XrayLogs(ip) PROVE still
    BY <1>3 DEF XrayLogs
  <1>4. ASSUME Parse PROVE still
    BY <1>4 DEF Parse, ReadLine, ParseBegin, SkipLine, KeepLine, StopReading, BeginMerge,
                MergeStamp, EndMerge
  <1>5. ASSUME Scrape PROVE still
    BY <1>5 DEF Scrape, BeginScrape, ExpireOldest, EndScrape
  <1>6. ASSUME UNCHANGED vars PROVE still
    BY <1>6 DEF vars
  <1>7. CASE still BY <1>0, <1>7 DEF timeVars, Orderly
  <1> HIDE DEF still
  <1> QED BY <1>1, <1>2, <1>3, <1>4, <1>5, <1>6, <1>7 DEF Next

LEMMA StepBacksKept == ASSUME [Next]_vars PROVE stepBacks' = stepBacks \/ StepBack
  BY DEF Next, Parse, ReadLine, Scrape, Tick, XrayLogs, ParseBegin, SkipLine, KeepLine,
         StopReading, BeginMerge, MergeStamp, EndMerge, BeginScrape, ExpireOldest, EndScrape,
         vars, timeVars

(* The last k of n.                                                        *)
LEMMA CountLast ==
    ASSUME NEW n \in Nat, NEW k \in 0..n
    PROVE  Cardinality({i \in 1..n : i > n - k}) = k
  <1>1. {i \in 1..n : i > n - k} = n - k + 1 .. n OBVIOUS
  <1>2. n - k + 1 \in Int /\ n \in Int OBVIOUS
  <1>3. Cardinality(n - k + 1 .. n)
          = IF n - k + 1 > n THEN 0 ELSE n - (n - k + 1) + 1
    BY <1>2, FS_Interval
  <1>4. (IF n - k + 1 > n THEN 0 ELSE n - (n - k + 1) + 1) = k OBVIOUS
  <1> QED BY <1>1, <1>3, <1>4

(* When GetMetrics stops expiring, the size of the ring is the number of   *)
(* timestamps above its cutoff, up to the capacity, ...                    *)
LEMMA SizeIsNumber ==
    ASSUME TypeOK, RingHoldsNewest, Kept(cutoff), ~OldestExpired,
           NEW k \in Nat, k <= Len(merged), LastAbove(merged, cutoff, k)
    PROVE  BufSize = IF k > Cap THEN Cap ELSE k
  <1> DEFINE n == Len(merged)
             least == IF k > Cap THEN Cap ELSE k
  <1>1. /\ n \in Nat /\ DOMAIN merged = 1..n /\ BufSize \in 0..Cap /\ BufSize <= n
        /\ cutoff \in Int /\ Cap \in Nat /\ Cap > 0
    BY LenProperties, CapAssumption DEF TypeOK, RingHoldsNewest
  <1>2. BufSize <= k
    <2> SUFFICES ASSUME BufSize > 0 PROVE BufSize <= k
      BY <1>1
    <2>1. ConnectionTimestamps[TailIndex + 1] > cutoff BY DEF OldestExpired, After
    <2>2. Ring[1] = ConnectionTimestamps[TailIndex + 1]
      <3>1. TailIndex \in 0..Cap-1
        <4>1. TailIndex = IF BufSize <= BufHead THEN BufHead - BufSize
                                                ELSE BufHead - BufSize + Cap
          BY TailAtIs DEF TypeOK, TailIndex, TailAt
        <4>2. BufHead \in 0..Cap-1 BY DEF TypeOK
        <4> QED BY <1>1, <4>1, <4>2
      <3>2. TailIndex % Cap = TailIndex /\ TailIndex + 1 - 1 = TailIndex
        BY <3>1, ModSmall, CapAssumption
      <3>3. Ring[1] = ConnectionTimestamps[((TailIndex + 1 - 1) % Cap) + 1]
        BY <1>1 DEF Ring
      <3> QED BY <3>2, <3>3
    <2>3. Ring[1] = merged[n - BufSize + 1] BY <1>1 DEF RingHoldsNewest
    <2>4. n - BufSize + 1 \in 1..n BY <1>1
    <2>5. n - BufSize + 1 > n - k BY <2>1, <2>2, <2>3, <2>4 DEF LastAbove
    <2> QED BY <1>1, <2>5
  <1>3. least <= BufSize
    <2> SUFFICES ASSUME least > BufSize PROVE FALSE
      BY <1>1
    <2>1. n - least + 1 \in 1..n /\ n - least + 1 > n - k /\ n - least + 1 > n - Cap
          /\ ~(n - least + 1 > n - BufSize)
      BY <1>1
    <2> HIDE DEF least
    <2>2. merged[n - least + 1] > cutoff BY <2>1 DEF LastAbove
    <2> QED BY <1>1, <2>1, <2>2 DEF Kept
  <1> QED BY <1>1, <1>2, <1>3

(* ... both of the log lines merged and of the latest merged.              *)
LEMMA ScrapeCounts ==
    ASSUME ReportInv, mu = "scrape", ~OldestExpired
    PROVE  LET N == Cardinality({i \in 1..applied : log[i].ts > cutoff})
               R == {i \in DOMAIN merged : i > Len(merged) - Cap /\ merged[i] > cutoff}
           IN  /\ BufSize = IF N > Cap THEN Cap ELSE N
               /\ BufSize = Cardinality(R)
  <1>1. TypeOK /\ RingHoldsNewest /\ Kept(cutoff) /\ applied \in Nat
        /\ Len(merged) \in Nat /\ DOMAIN merged = 1..Len(merged) /\ Cap \in Nat
    <2>1. TypeOK BY DEF ReportInv, ReadInv, Inv
    <2>2. applied \in Nat BY <2>1, LogGrows DEF TypeOK
    <2> QED BY <2>1, <2>2, LenProperties, CapAssumption DEF ReportInv, ReadInv, Inv, TypeOK
  <1>2. PICK k \in Nat : /\ k <= Len(Stamps(log, applied)) /\ k <= Len(merged)
                         /\ LastAbove(Stamps(log, applied), cutoff, k)
                         /\ LastAbove(merged, cutoff, k)
    BY DEF ReportInv, ScrapeSame, SameAbove
  <1>3. BufSize = IF k > Cap THEN Cap ELSE k BY <1>1, <1>2, SizeIsNumber
  <1>4. Len(Stamps(log, applied)) = applied
    <2>1. DOMAIN Stamps(log, applied) = 1..applied BY DEF Stamps
    <2>2. \A i \in 1..applied : log[i].ts \in Int
      <3>1. 1..applied \subseteq 1..Len(log) BY <1>1, LogTyped
      <3> QED BY <1>1, <3>1, LogTyped
    <2>3. Stamps(log, applied) \in [1..applied -> Int] BY <2>2 DEF Stamps
    <2>4. Stamps(log, applied) \in Seq(Int) BY <1>1, <2>3, SeqDef
    <2> QED BY <1>1, <2>1, <2>4, LenProperties
  <1>5. Cardinality({i \in 1..applied : log[i].ts > cutoff}) = k
    <2>1. \A i \in 1..applied : log[i].ts > cutoff <=> i > applied - k
      BY <1>2, <1>4 DEF LastAbove, Stamps
    <2>2. {i \in 1..applied : log[i].ts > cutoff} = {i \in 1..applied : i > applied - k}
      BY <2>1
    <2>3. k \in 0..applied BY <1>1, <1>2, <1>4
    <2> QED BY <1>1, <2>2, <2>3, CountLast
  <1>6. Cardinality({i \in DOMAIN merged : i > Len(merged) - Cap /\ merged[i] > cutoff})
          = BufSize
    <2> DEFINE n == Len(merged)
    <2>1. BufSize \in 0..n BY <1>1, <1>2, <1>3
    <2>2. \A i \in 1..n : (i > n - Cap /\ merged[i] > cutoff) <=> i > n - BufSize
      BY <1>1, <1>2, <1>3 DEF LastAbove
    <2>3. {i \in DOMAIN merged : i > n - Cap /\ merged[i] > cutoff}
            = {i \in 1..n : i > n - BufSize}
      BY <1>1, <2>2
    <2> QED BY <1>1, <2>1, <2>3, CountLast
  <1> QED BY <1>3, <1>5, <1>6

(* The invariant behind the reports is inductive and holds at the start.   *)
LEMMA ReportInvKept ==
    ASSUME ReportInv, [Next]_vars, clock' >= clock
    PROVE  ReportInv'
  <1>1. ReadInv' /\ MergedSame' /\ ScrapeSame' /\ Kept(cutoff)'
    BY ReadInvKept, MergedSameKept, YoungerKept DEF ReportInv
  <1>2. ReportLogged'
    <2>1. TypeOK BY DEF ReportInv, ReadInv, Inv
    <2>2. Len(log) \in Nat /\ Len(log') \in Nat /\ Len(log) <= Len(log')
      BY <2>1, LogGrows
    <2>3. report.upTo \in Nat /\ applied \in Nat /\ applied <= Len(log)
      BY <2>1, <2>2 DEF TypeOK
    <2>4. CASE EndScrape
      <3>1. report'.upTo = applied BY <2>4 DEF EndScrape
      <3> QED BY <2>2, <2>3, <3>1 DEF ReportLogged
    <2>5. CASE report' = report BY <2>2, <2>3, <2>5 DEF ReportInv, ReportLogged
    <2> QED BY <2>4, <2>5, Effects
  <1> QED BY <1>1, <1>2 DEF ReportInv

LEMMA InitReportInv == Init => ReportInv
  <1> SUFFICES ASSUME Init PROVE ReportInv
    OBVIOUS
  <1>1. Inv
    BY InitTypeOK, CapAssumption DEF Init, Inv, RingShape, RingHoldsNewest
  <1>2. Chronological /\ Locked /\ CutoffsPast /\ ReportLogged /\ Kept(cutoff)
    <2>1. Len(<<>>) = 0 /\ DOMAIN <<>> = {} OBVIOUS
    <2> QED BY <2>1, BoundsAssumption, TimesInt
            DEF Init, Chronological, Locked, CutoffsPast, ReportLogged, Kept
  <1>3. ASSUME NEW c PROVE SameAbove(Stamps(log, 0), <<>>, c)
    <2>1. Stamps(log, 0) = <<>> BY DEF Stamps
    <2> QED BY <2>1 DEF SameAbove, LastAbove
  <1>4. applied = 0 /\ consumed = 0 /\ merged = <<>> /\ merged \o batchStamps = <<>>
    <2>1. <<>> \o <<>> = <<>> OBVIOUS
    <2> QED BY <2>1 DEF Init
  <1> QED BY <1>1, <1>2, <1>3, <1>4 DEF ReportInv, ReadInv, ReadSame, MergedSame, ScrapeSame

(* The lines of a new report, in times as the parser reads them.           *)
LEMMA NewReport ==
    ASSUME TypeOK, log' = log, report'.upTo = applied, report'.cutoff = cutoff
    PROVE  InReport' = {i \in 1..applied : log[i].ts > cutoff}
  <1>1. 1..applied \subseteq 1..Len(log) BY LogTyped
  <1>2. \A i \in 1..applied : log[i].ts \in Int BY <1>1, LogTyped
  <1>3. cutoff \in Int BY DEF TypeOK
  <1>4. \A i \in 1..applied : (LoggedAt(i))' > cutoff - ZoneOffset <=> log[i].ts > cutoff
    <2> SUFFICES ASSUME NEW i \in 1..applied
                 PROVE  (LoggedAt(i))' > cutoff - ZoneOffset <=> log[i].ts > cutoff
      OBVIOUS
    <2>1. log[i].ts \in Int /\ ZoneOffset \in Int BY <1>2, TimesInt
    <2>2. log[i].ts - ZoneOffset > cutoff - ZoneOffset <=> log[i].ts > cutoff
      BY <1>3, <2>1
    <2> QED BY <2>2 DEF LoggedAt
  <1> QED BY <1>4 DEF InReport

ConnsRight == report.conns = AtMostCap(Cardinality(InReport))

(* A report stays true of the log it was taken from: lines are only added. *)
LEMMA ReportedConnectionsKept ==
    ASSUME ReportInv, ConnsRight, [Next]_vars
    PROVE  ConnsRight'
  <1>1. TypeOK BY DEF ReportInv, ReadInv, Inv
  <1>2. CASE EndScrape
    <2>1. /\ mu = "scrape" /\ ~OldestExpired /\ log' = log
          /\ report' = [users |-> activeIPs, conns |-> BufSize, cutoff |-> cutoff,
                        upTo |-> applied]
      BY <1>2 DEF EndScrape
    <2>2. InReport' = {i \in 1..applied : log[i].ts > cutoff}
      BY <1>1, <2>1, NewReport
    <2>3. report'.conns = BufSize BY <2>1
    <2> QED BY <2>1, <2>2, <2>3, ScrapeCounts DEF ConnsRight, AtMostCap
  <1>3. CASE report' = report
    <2>1. InReport' = InReport BY <1>1, <1>3, ReportKept DEF ReportInv
    <2> QED BY <1>3, <2>1 DEF ConnsRight, AtMostCap
  <1> QED BY <1>2, <1>3, Effects

(* As long as the clock is not set back, a scrape counts the connections   *)
(* logged in its window among all lines merged by then, up to the capacity *)
(* of the ring; in whatever zone the host is, the window is longer by the  *)
(* offset of its local time, for better or worse.                          *)
THEOREM ConnectionsReported == Spec => []ReportedConnections
  <1> DEFINE I == TypeOK /\ (Orderly => ReportInv /\ ConnsRight)
  <1>1. Init => I
    <2>1. Init => ConnsRight
      <3> SUFFICES ASSUME Init PROVE ConnsRight
        OBVIOUS
      <3>1. InReport = {} BY DEF Init, InReport
      <3>2. Cardinality(InReport) = 0 BY <3>1, FS_EmptySet
      <3> QED BY <3>2, CapAssumption DEF Init, ConnsRight, AtMostCap
    <2> QED BY <2>1, InitReportInv, InitTypeOK
  <1>2. I /\ [Next]_vars => I'
    <2> SUFFICES ASSUME I, [Next]_vars PROVE I'
      OBVIOUS
    <2>1. TypeOK' BY NextTypeOK
    <2>2. ASSUME Orderly' PROVE (ReportInv /\ ConnsRight)'
      <3>1. Orderly /\ clock' >= clock BY <2>2, Forward
      <3> QED BY <3>1, ReportInvKept, ReportedConnectionsKept
    <2> QED BY <2>1, <2>2
  <1>3. I => ReportedConnections
    BY DEF ReportedConnections, ConnsRight
  <1> QED BY <1>1, <1>2, <1>3, PTL DEF Spec

(* The ring implements a sliding window over what was merged: to record is *)
(* to merge a timestamp, the horizon advances when a scrape begins, and    *)
(* the size of the ring is the count it reports, the right one until the   *)
(* clock is set back.                                                      *)
THEOREM WindowRefinement == Spec => ImplementsSlidingWindow
  <1> DEFINE I == Inv /\ (Orderly => ReportInv)
  <1>1. Init => Window_!Init /\ I
    BY BoundsAssumption, TimesInt, InitReportInv DEF Init, Window_!Init, Orderly, ReportInv, ReadInv
  <1>2. I /\ [Next]_vars => [Window_!Next]_(Window_!vars)
    <2> SUFFICES ASSUME I, [Next]_vars
                 PROVE  [Window_!Next]_(Window_!vars)
      OBVIOUS
    <2>1. TypeOK /\ TypeOK' /\ (Orderly' => Orderly /\ clock' >= clock)
      BY NextTypeOK, Forward DEF Inv
    <2>7. CASE StepBack
      <3>1. UNCHANGED <<merged, cutoff, report>> /\ stepBacks' = stepBacks + 1
        BY <2>7 DEF StepBack, scrapeVars
      <3>2. Orderly' = FALSE BY <2>1, <3>1 DEF TypeOK, Orderly
      <3> QED BY <3>1, <3>2 DEF Window_!Next, Window_!GoBack
    <2>8. stepBacks' = stepBacks \/ StepBack BY StepBacksKept
    <2>9. stepBacks' = stepBacks => Orderly' = Orderly BY DEF Orderly
    <2>2. CASE MergeStamp
      <3>1. /\ merged' = Append(merged, Head(batchStamps)) /\ batchStamps # <<>>
            /\ UNCHANGED <<cutoff, report, stepBacks>>
        BY <2>2 DEF MergeStamp, scrapeVars, timeVars
      <3>2. merged \in Seq(Times) /\ Head(batchStamps) \in Times
        BY <2>1, <3>1, HeadType DEF TypeOK
      <3>3. /\ Len(merged') = Len(merged) + 1
            /\ merged'[Len(merged')] = Head(batchStamps)
        BY <3>1, <3>2, AppendProperties
      <3> QED BY <2>9, <3>1, <3>3 DEF Window_!Next, Window_!Record
    <2>3. CASE BeginScrape
      <3>1. UNCHANGED <<merged, report, stepBacks>> BY <2>3 DEF BeginScrape, timeVars
      <3>2. cutoff' \in Int /\ (Orderly => cutoff' >= cutoff)
        <4>1. cutoff' \in Int /\ cutoff \in Int BY <2>1 DEF TypeOK
        <4>2. Orderly => cutoff <= cutoff'
          BY <2>1, <2>9, <3>1, CutoffsPastKept DEF ReportInv, ReadInv
        <4> QED BY <4>1, <4>2
      <3> QED BY <2>9, <3>1, <3>2 DEF Window_!Next, Window_!Advance
    <2>4. CASE EndScrape
      <3>1. /\ mu = "scrape" /\ ~OldestExpired /\ UNCHANGED <<merged, cutoff, stepBacks>>
            /\ report'.conns = BufSize
        BY <2>4 DEF EndScrape, timeVars
      <3>2. Window_!Younger
              = {i \in DOMAIN merged : i > Len(merged) - Cap /\ merged[i] > cutoff}
        BY DEF Window_!Younger, Window_!Recent
      <3>3. /\ Orderly => BufSize = Cardinality(Window_!Younger)
            /\ BufSize \in 0..Cap
        BY <2>1, <3>1, <3>2, ScrapeCounts DEF TypeOK
      <3>4. Window_!Cardinality(Window_!Younger) = Cardinality(Window_!Younger)
        BY DEF Window_!Cardinality, Cardinality
      <3>5. Window_!Report BY <2>9, <3>1, <3>3, <3>4 DEF Window_!Report
      <3> QED BY <3>5 DEF Window_!Next
    <2>5. CASE UNCHANGED <<merged, cutoff, report, stepBacks>>
      BY <2>5, <2>9 DEF Window_!vars
    <2>6. ExpireOldest => merged' = merged BY DEF ExpireOldest
    <2> QED BY <2>2, <2>3, <2>4, <2>5, <2>6, <2>7, <2>8, Effects
  <1>3. I /\ [Next]_vars => I'
    BY NextInv, ReportInvKept, Forward DEF Inv
  <1> QED BY <1>1, <1>2, <1>3, PTL DEF Spec, ImplementsSlidingWindow, Window_!Spec

----------------------------------------------------------------------------
(* The users.                                                              *)

(* The map m has the address ip above c exactly if a line of the log from  *)
(* place a to b does.                                                      *)
SeenIn(l, m, a, b, c) ==
    \A ip \in IPs : (ip \in DOMAIN m /\ m[ip] > c)
                       <=> \E i \in a..b : l[i].ip = ip /\ l[i].ts > c

(* Lines whose addresses are in UniqueIPs: they get there first.           *)
UsersUpTo == IF pc = "merging" THEN consumed ELSE applied

UsersSame == \A c \in ToCome(clock) : SeenIn(log, UniqueIPs, 1, UsersUpTo, c)

BatchSame ==
    pc \in {"reading", "ended"} =>
        /\ \A c \in ToCome(clock) : SeenIn(log, batchIPs, applied + 1, consumed, c)
        /\ \A ip \in DOMAIN batchIPs : \E i \in applied+1..consumed : log[i].ip = ip

(* The count of a scrape is taken when it begins.                          *)
ActiveSame ==
    mu = "scrape" =>
        activeIPs = Cardinality({log[i].ip : i \in {j \in 1..applied : log[j].ts > cutoff}})

UsersInv == ReportInv /\ UsersSame /\ BatchSame /\ ActiveSame

(* A map of addresses to times.                                            *)
LEMMA SeenTyped ==
    ASSUME NEW m, LastSeen(m)
    PROVE  DOMAIN m \subseteq IPs /\ \A ip \in DOMAIN m : m[ip] \in Int
  <1>1. PICK S \in SUBSET IPs : m \in [S -> Times] BY DEF LastSeen
  <1> QED BY <1>1, BoundsAssumption, TimesInt

(* What each step leaves alone of the maps of addresses.                   *)
LEMMA UserEffects ==
    ASSUME [Next]_vars
    PROVE  /\ BeginMerge \/ BeginScrape \/ UniqueIPs' = UniqueIPs
           /\ ParseBegin \/ KeepLine \/ batchIPs' = batchIPs
           /\ BeginScrape \/ activeIPs' = activeIPs
  <1> USE DEF timeVars, ringVars, batchVars, scrapeVars
  <1>1. CASE Tick \/ StepBack BY <1>1 DEF Tick, StepBack
  <1>2. CASE \E ip \in IPs : XrayLogs(ip) BY <1>2 DEF XrayLogs
  <1>3. CASE ParseBegin \/ SkipLine \/ KeepLine \/ StopReading
    BY <1>3 DEF ParseBegin, SkipLine, KeepLine, StopReading
  <1>4. CASE BeginMerge \/ MergeStamp \/ EndMerge
    BY <1>4 DEF BeginMerge, MergeStamp, EndMerge
  <1>5. CASE Scrape BY <1>5 DEF Scrape, BeginScrape, ExpireOldest, EndScrape
  <1>6. CASE UNCHANGED vars BY <1>6 DEF vars
  <1> QED BY <1>1, <1>2, <1>3, <1>4, <1>5, <1>6 DEF Next, Parse, ReadLine

(* The lines read and merged, in the order of time.                        *)
LEMMA UsersTyped ==
    ASSUME UsersInv, [Next]_vars, clock' >= clock
    PROVE  /\ TypeOK /\ TypeOK' /\ Locked
           /\ clock \in Int /\ clock' \in Int
           /\ \A c \in ToCome(clock') : c \in ToCome(clock) /\ c \in Int /\ clock - Window <= c
           /\ \A i \in 1..consumed : log'[i] = log[i] /\ log[i].ts \in Int /\ log[i].ip \in IPs
           /\ 1..applied \subseteq 1..consumed
           /\ \A i, j \in 1..consumed : i <= j => log[i].ts <= log[j].ts
           /\ applied \in Nat /\ consumed \in Nat /\ applied <= consumed
  <1>1. TypeOK /\ TypeOK' /\ Locked /\ Chronological
    BY NextTypeOK DEF UsersInv, ReportInv, ReadInv, Inv
  <1>2. clock \in Int /\ clock' \in Int BY <1>1, BoundsAssumption, TimesInt DEF TypeOK
  <1>3. \A c \in ToCome(clock') : c \in ToCome(clock) /\ c \in Int /\ clock - Window <= c
    BY <1>2, ToComeLater
  <1>4. /\ 1..consumed \subseteq 1..Len(log) /\ 1..applied \subseteq 1..consumed
        /\ applied \in Nat /\ consumed \in Nat /\ applied <= consumed
    BY <1>1, LogTyped
  <1>5. \A i \in 1..consumed : log'[i] = log[i] /\ log[i].ts \in Int /\ log[i].ip \in IPs
    BY <1>1, <1>4, LogGrows, LogTyped
  <1>6. \A i, j \in 1..consumed : i <= j => log[i].ts <= log[j].ts
    BY <1>1, <1>4, LogTyped DEF Chronological
  <1> QED BY <1>1, <1>2, <1>3, <1>4, <1>5, <1>6

(* The lines of a pass, as they are read.                                  *)
LEMMA BatchSameKept ==
    ASSUME UsersInv, [Next]_vars, clock' >= clock
    PROVE  BatchSame'
  <1> SUFFICES ASSUME pc' \in {"reading", "ended"}
               PROVE  /\ \A c \in ToCome(clock') :
                            SeenIn(log', batchIPs', applied' + 1, consumed', c)
                      /\ \A ip \in DOMAIN batchIPs' :
                            \E i \in applied'+1..consumed' : log'[i].ip = ip
    BY DEF BatchSame
  <1>0. UsersInv /\ [Next]_vars /\ clock' >= clock OBVIOUS
  <1>1. CASE ParseBegin
    <2>1. DOMAIN batchIPs' = {} BY <1>1 DEF ParseBegin, NoneSeen
    <2>2. applied' = applied /\ consumed' = consumed /\ applied = consumed
      BY <1>0, <1>1, UsersTyped DEF ParseBegin, Locked
    <2>3. applied'+1..consumed' = {} BY <1>0, <2>2, UsersTyped
    <2> QED BY <2>1, <2>3 DEF SeenIn
  <1>2. ASSUME ~ParseBegin
        PROVE  /\ pc \in {"reading", "ended"} /\ applied' = applied
               /\ \A c \in ToCome(clock) : SeenIn(log, batchIPs, applied + 1, consumed, c)
               /\ \A ip \in DOMAIN batchIPs : \E i \in applied+1..consumed : log[i].ip = ip
               /\ applied + 1 .. consumed \subseteq 1..consumed
    <2>1. ~EndMerge /\ ~BeginMerge BY DEF EndMerge, BeginMerge
    <2>2. pc \in {"reading", "ended"} /\ applied' = applied
      BY <1>2, <2>1, Effects DEF StopReading
    <2>3. applied + 1 .. consumed \subseteq 1..consumed BY <1>0, UsersTyped
    <2> QED BY <2>2, <2>3 DEF UsersInv, BatchSame
  <1>3. CASE SkipLine \/ KeepLine
    <2> DEFINE e == log[consumed + 1]
    <2>1. /\ consumed < Len(log) /\ consumed' = consumed + 1 /\ log' = log
          /\ pc = "reading" /\ ~ParseBegin
      BY <1>3 DEF SkipLine, KeepLine, ParseBegin
    <2>2. e.ts \in Int /\ e.ip \in IPs /\ \A i \in 1..consumed : log[i].ts <= e.ts
      <3>1. TypeOK /\ Chronological BY DEF UsersInv, ReportInv, ReadInv, Inv
      <3>2. consumed + 1 \in 1..Len(log) /\ 1..consumed \subseteq 1..Len(log)
        BY <2>1, <3>1, LogTyped
      <3>3. \A i \in 1..consumed : i <= consumed + 1 BY <3>1, LogTyped
      <3> QED BY <3>1, <3>2, <3>3, LogTyped DEF Chronological
    <2>3. \A i : i \in applied+1..consumed+1
                    <=> i \in applied+1..consumed \/ i = consumed + 1
      BY <1>0, UsersTyped
    <2> HIDE DEF e
    <2>4. CASE SkipLine
      <3>1. batchIPs' = batchIPs /\ e.ts < parseCutoff
        BY <2>4 DEF SkipLine, batchVars, Before, e
      <3>2. parseCutoff <= clock - Window /\ parseCutoff \in Int
        BY <2>1 DEF UsersInv, ReportInv, ReadInv, CutoffsPast, Inv, TypeOK
      <3>3. ASSUME NEW c \in ToCome(clock')
            PROVE  SeenIn(log, batchIPs, applied + 1, consumed + 1, c)
        <4>1. c \in ToCome(clock) /\ c \in Int /\ clock - Window <= c
          BY <1>0, UsersTyped
        <4>2. ~(e.ts > c)
          <5>1. clock - Window \in Int BY <1>0, UsersTyped, BoundsAssumption, TimesInt
          <5> QED BY <2>2, <3>1, <3>2, <4>1, <5>1
        <4>3. SeenIn(log, batchIPs, applied + 1, consumed, c) BY <1>2, <2>1, <4>1
        <4> QED BY <2>3, <4>2, <4>3 DEF SeenIn, e
      <3> QED BY <1>2, <2>1, <2>3, <3>1, <3>3
    <2>5. CASE KeepLine
      <3>1. batchIPs' = Seen(batchIPs, e.ip, e.ts) BY <2>5 DEF KeepLine, e
      <3>2. DOMAIN batchIPs' = DOMAIN batchIPs \cup {e.ip}
            /\ batchIPs'[e.ip] = e.ts
            /\ \A a \in DOMAIN batchIPs : a # e.ip => batchIPs'[a] = batchIPs[a]
        BY <3>1 DEF Seen
      <3>3. ASSUME NEW c \in ToCome(clock')
            PROVE  SeenIn(log, batchIPs', applied + 1, consumed + 1, c)
        <4>1. c \in Int /\ SeenIn(log, batchIPs, applied + 1, consumed, c)
          BY <1>0, <1>2, <2>1, UsersTyped
        <4>2. ASSUME NEW ip \in IPs
              PROVE  (ip \in DOMAIN batchIPs' /\ batchIPs'[ip] > c)
                        <=> \E i \in applied+1..consumed+1 : log[i].ip = ip /\ log[i].ts > c
          <5>1. CASE ip = e.ip
            <6>1. (ip \in DOMAIN batchIPs' /\ batchIPs'[ip] > c) <=> e.ts > c
              BY <3>2, <5>1
            <6>2. ASSUME NEW i \in applied+1..consumed+1, log[i].ts > c PROVE e.ts > c
              <7>1. CASE i = consumed + 1 BY <6>2, <7>1 DEF e
              <7>2. CASE i \in 1..consumed
                <8>1. log[i].ts \in Int BY <1>0, <7>2, UsersTyped
                <8> QED BY <2>2, <4>1, <6>2, <7>2, <8>1
              <7> QED BY <1>2, <2>1, <2>3, <7>1, <7>2
            <6>3. e.ts > c => \E i \in applied+1..consumed+1 : log[i].ip = ip /\ log[i].ts > c
              BY <2>3, <5>1 DEF e
            <6> QED BY <6>1, <6>2, <6>3
          <5>2. CASE ip # e.ip
            BY <2>3, <3>2, <4>1, <5>2 DEF SeenIn, e
          <5> QED BY <5>1, <5>2
        <4> QED BY <4>2 DEF SeenIn
      <3>4. ASSUME NEW ip \in DOMAIN batchIPs'
            PROVE  \E i \in applied+1..consumed+1 : log[i].ip = ip
        BY <1>2, <2>1, <2>3, <3>2 DEF e
      <3> QED BY <1>2, <2>1, <3>3, <3>4
    <2> QED BY <1>3, <2>4, <2>5
  <1>4. CASE ~ParseBegin /\ ~SkipLine /\ ~KeepLine
    <2>1. batchIPs' = batchIPs /\ consumed' = consumed BY <1>4, Effects, UserEffects
    <2>2. \A i \in applied + 1 .. consumed : log'[i] = log[i]
      BY <1>0, <1>2, <1>4, UsersTyped
    <2>3. \A c \in ToCome(clock') : SeenIn(log, batchIPs, applied + 1, consumed, c)
      BY <1>0, <1>2, <1>4, UsersTyped
    <2> QED BY <1>2, <1>4, <2>1, <2>2, <2>3 DEF SeenIn
  <1> QED BY <1>1, <1>3, <1>4

(* UniqueIPs is merged and purged: for the scrapes to come it says of each *)
(* address what the lines do.                                              *)
LEMMA UsersSameKept ==
    ASSUME UsersInv, [Next]_vars, clock' >= clock
    PROVE  UsersSame'
  <1>0. UsersInv /\ [Next]_vars /\ clock' >= clock OBVIOUS
  <1>1. /\ \A c \in ToCome(clock) : SeenIn(log, UniqueIPs, 1, UsersUpTo, c)
        /\ UsersUpTo \in Nat /\ UsersUpTo <= consumed
    BY <1>0, UsersTyped DEF UsersInv, UsersSame, UsersUpTo
  <1>2. \A i \in 1..UsersUpTo : i \in 1..consumed /\ log'[i] = log[i]
    BY <1>0, <1>1, UsersTyped
  <1>3. CASE BeginMerge
    <2>1. /\ pc = "ended" /\ pc' = "merging" /\ mu = "free" /\ log' = log
          /\ consumed' = consumed /\ UniqueIPs' = MergedIPs
      BY <1>3, Effects DEF BeginMerge
    <2>2. UsersUpTo = applied /\ UsersUpTo' = consumed BY <2>1 DEF UsersUpTo
    <2>3. /\ DOMAIN UniqueIPs' = DOMAIN UniqueIPs \cup DOMAIN batchIPs
          /\ \A ip \in DOMAIN UniqueIPs' :
                UniqueIPs'[ip] = IF ip \in DOMAIN batchIPs THEN batchIPs[ip] ELSE UniqueIPs[ip]
      BY <2>1 DEF MergedIPs
    <2>4. \A i : i \in 1..consumed <=> i \in 1..applied \/ i \in applied+1..consumed
      BY <1>0, UsersTyped
    <2>5. ASSUME NEW c \in ToCome(clock'), NEW ip \in IPs
          PROVE  (ip \in DOMAIN UniqueIPs' /\ UniqueIPs'[ip] > c)
                    <=> \E i \in 1..consumed : log[i].ip = ip /\ log[i].ts > c
      <3>1. /\ SeenIn(log, UniqueIPs, 1, applied, c) /\ c \in Int
            /\ SeenIn(log, batchIPs, applied + 1, consumed, c)
        BY <1>0, <1>1, <2>1, <2>2, UsersTyped DEF UsersInv, BatchSame
      <3>2. CASE ip \in DOMAIN batchIPs
        <4>1. (ip \in DOMAIN UniqueIPs' /\ UniqueIPs'[ip] > c) <=> batchIPs[ip] > c
          BY <2>3, <3>2
        <4>2. PICK j \in applied+1..consumed : log[j].ip = ip
          BY <2>1, <3>2 DEF UsersInv, BatchSame
        <4>3. ASSUME NEW i \in 1..applied, log[i].ip = ip, log[i].ts > c PROVE log[j].ts > c
          <5>1. i \in 1..consumed /\ j \in 1..consumed /\ i <= j BY <1>0, <2>4, UsersTyped
          <5>2. log[i].ts \in Int /\ log[j].ts \in Int /\ log[i].ts <= log[j].ts
            BY <1>0, <5>1, UsersTyped
          <5> QED BY <3>1, <4>3, <5>2
        <4>4. batchIPs[ip] > c <=> \E i \in applied+1..consumed : log[i].ip = ip /\ log[i].ts > c
          BY <3>1, <3>2 DEF SeenIn
        <4> QED BY <2>4, <4>1, <4>2, <4>3, <4>4
      <3>3. CASE ip \notin DOMAIN batchIPs
        <4>1. (ip \in DOMAIN UniqueIPs' /\ UniqueIPs'[ip] > c)
                <=> (ip \in DOMAIN UniqueIPs /\ UniqueIPs[ip] > c)
          BY <2>3, <3>3
        <4>2. ~\E i \in applied+1..consumed : log[i].ip = ip /\ log[i].ts > c
          BY <3>1, <3>3 DEF SeenIn
        <4> QED BY <2>4, <3>1, <4>1, <4>2 DEF SeenIn
      <3> QED BY <3>2, <3>3
    <2>6. ASSUME NEW c \in ToCome(clock') PROVE SeenIn(log', UniqueIPs', 1, UsersUpTo', c)
      BY <2>1, <2>2, <2>5 DEF SeenIn
    <2> QED BY <2>6 DEF UsersSame
  <1>4. CASE BeginScrape
    <2>1. /\ cutoff' = clock - Window /\ log' = log
          /\ UniqueIPs' = [ip \in ActiveAt(cutoff') |-> UniqueIPs[ip]]
          /\ UsersUpTo' = UsersUpTo
      BY <1>4, Effects DEF BeginScrape, UsersUpTo
    <2>2. ASSUME NEW c \in ToCome(clock'), NEW ip \in IPs
          PROVE  (ip \in DOMAIN UniqueIPs' /\ UniqueIPs'[ip] > c)
                    <=> (ip \in DOMAIN UniqueIPs /\ UniqueIPs[ip] > c)
      <3>1. c \in Int /\ clock - Window <= c /\ clock - Window \in Int
        BY <1>0, UsersTyped, BoundsAssumption, TimesInt
      <3>2. LastSeen(UniqueIPs) BY <1>0, UsersTyped DEF TypeOK
      <3>3. ip \in DOMAIN UniqueIPs => UniqueIPs[ip] \in Int BY <3>2, SeenTyped
      <3>4. ip \in DOMAIN UniqueIPs'
              <=> ip \in DOMAIN UniqueIPs /\ UniqueIPs[ip] > clock - Window
        BY <2>1 DEF ActiveAt, After
      <3>5. ip \in DOMAIN UniqueIPs' => UniqueIPs'[ip] = UniqueIPs[ip] BY <2>1
      <3> QED BY <3>1, <3>3, <3>4, <3>5
    <2>3. ASSUME NEW c \in ToCome(clock') PROVE SeenIn(log', UniqueIPs', 1, UsersUpTo', c)
      <3>1. SeenIn(log, UniqueIPs, 1, UsersUpTo, c) BY <1>0, <1>1, UsersTyped
      <3> QED BY <2>1, <2>2, <3>1 DEF SeenIn
    <2> QED BY <2>3 DEF UsersSame
  <1>5. CASE ~BeginMerge /\ ~BeginScrape
    <2>1. UniqueIPs' = UniqueIPs BY <1>5, UserEffects
    <2>2. UsersUpTo' = UsersUpTo
      <3>1. CASE EndMerge BY <3>1 DEF EndMerge, UsersUpTo
      <3>2. CASE ParseBegin BY <3>2, Effects DEF ParseBegin, UsersUpTo
      <3>4. CASE StopReading BY <3>4, Effects DEF StopReading, UsersUpTo, EndMerge
      <3>3. CASE ~EndMerge /\ ~ParseBegin /\ ~StopReading
        <4>1. applied' = applied /\ pc' = pc BY <1>5, <3>3, Effects
        <4>2. pc = "merging" => consumed' = consumed
          BY Effects DEF SkipLine, KeepLine
        <4> QED BY <4>1, <4>2 DEF UsersUpTo
      <3> QED BY <3>1, <3>2, <3>3, <3>4
    <2>3. ASSUME NEW c \in ToCome(clock') PROVE SeenIn(log', UniqueIPs', 1, UsersUpTo', c)
      <3>1. SeenIn(log, UniqueIPs, 1, UsersUpTo, c) BY <1>0, <1>1, UsersTyped
      <3> QED BY <1>2, <2>1, <2>2, <3>1 DEF SeenIn
    <2> QED BY <2>3 DEF UsersSame
  <1> QED BY <1>3, <1>4, <1>5

(* The scrape counts the addresses under the lock it reports under.        *)
LEMMA ActiveSameKept ==
    ASSUME UsersInv, [Next]_vars, clock' >= clock
    PROVE  ActiveSame'
  <1>0. UsersInv /\ [Next]_vars /\ clock' >= clock OBVIOUS
  <1> SUFFICES ASSUME mu' = "scrape"
               PROVE  activeIPs' = Cardinality({log'[i].ip : i \in
                                      {j \in 1..applied' : log'[j].ts > cutoff'}})
    BY DEF ActiveSame
  <1>1. pc # "merging" /\ applied' = applied
    <2>1. Locked' BY <1>0, LockedKept, UsersTyped
    <2>2. ~EndMerge BY DEF EndMerge
    <2> QED BY <2>1, <2>2, Effects DEF Locked, ParseBegin, StopReading, BeginMerge
  <1>2. \A i \in 1..applied : log'[i] = log[i] BY <1>0, UsersTyped
  <1>3. {log'[i].ip : i \in {j \in 1..applied' : log'[j].ts > cutoff'}}
          = {log[i].ip : i \in {j \in 1..applied : log[j].ts > cutoff'}}
    BY <1>1, <1>2
  <1>4. CASE BeginScrape
    <2>1. cutoff' = clock - Window /\ activeIPs' = Cardinality(ActiveAt(cutoff'))
      BY <1>4 DEF BeginScrape
    <2>2. cutoff' \in ToCome(clock)
      <3>1. clock \in 0..MaxTime BY <1>0, UsersTyped DEF TypeOK
      <3> QED BY <2>1, <3>1, BoundsAssumption, TimesInt DEF ToCome
    <2>3. SeenIn(log, UniqueIPs, 1, applied, cutoff')
      BY <1>1, <2>2 DEF UsersInv, UsersSame, UsersUpTo
    <2>4. ActiveAt(cutoff') \subseteq IPs
      <3>1. LastSeen(UniqueIPs) BY <1>0, UsersTyped DEF TypeOK
      <3> QED BY <3>1, SeenTyped DEF ActiveAt
    <2>5. \A i \in 1..applied : log[i].ip \in IPs BY <1>0, UsersTyped
    <2>6. ActiveAt(cutoff') = {log[i].ip : i \in {j \in 1..applied : log[j].ts > cutoff'}}
      <3>1. \A ip \in IPs : ip \in ActiveAt(cutoff')
                              <=> \E i \in 1..applied : log[i].ip = ip /\ log[i].ts > cutoff'
        BY <2>3 DEF SeenIn, ActiveAt, After
      <3> QED BY <2>4, <2>5, <3>1
    <2> QED BY <1>3, <2>1, <2>6
  <1>5. CASE ~BeginScrape
    <2>1. cutoff' = cutoff /\ activeIPs' = activeIPs BY <1>5, Effects, UserEffects
    <2>2. mu = "scrape" BY <1>5, Effects DEF BeginMerge, EndMerge, EndScrape
    <2> QED BY <1>3, <2>1, <2>2 DEF UsersInv, ActiveSame
  <1> QED BY <1>4, <1>5

UsersRight == report.users = Cardinality({log[i].ip : i \in InReport})

(* The users of a report are counted among its lines.                      *)
LEMMA ReportedUsersKept ==
    ASSUME UsersInv, UsersRight, [Next]_vars
    PROVE  UsersRight'
  <1>1. TypeOK /\ ReportLogged BY DEF UsersInv, ReportInv, ReadInv, Inv
  <1>2. CASE EndScrape
    <2>1. /\ mu = "scrape" /\ log' = log
          /\ report' = [users |-> activeIPs, conns |-> BufSize, cutoff |-> cutoff,
                        upTo |-> applied]
      BY <1>2 DEF EndScrape
    <2>2. InReport' = {j \in 1..applied : log[j].ts > cutoff}
      BY <1>1, <2>1, NewReport
    <2>3. report'.users = activeIPs BY <2>1
    <2> QED BY <2>1, <2>2, <2>3 DEF UsersRight, UsersInv, ActiveSame
  <1>3. CASE report' = report
    <2>1. {log[i].ip : i \in InReport}' = {log[i].ip : i \in InReport}
      BY <1>1, <1>3, ReportKept
    <2> QED BY <1>3, <2>1 DEF UsersRight
  <1> QED BY <1>2, <1>3, Effects

(* And the users it reports are the clients of these lines, each counted   *)
(* once: batches, purges and their order with the scrapes lose no client   *)
(* and keep none that has left the window.                                 *)
THEOREM UsersReported == Spec => []ReportedUsers
  <1> DEFINE I == TypeOK /\ (Orderly => UsersInv /\ UsersRight)
  <1>1. Init => I
    <2> SUFFICES ASSUME Init PROVE I
      OBVIOUS
    <2>1. ReportInv /\ TypeOK BY InitReportInv, InitTypeOK
    <2>2. /\ pc = "waiting" /\ mu = "free" /\ applied = 0 /\ UniqueIPs = NoneSeen
          /\ report.users = 0 /\ report.upTo = 0
      BY DEF Init
    <2>3. UsersUpTo = 0 /\ DOMAIN UniqueIPs = {} BY <2>2 DEF UsersUpTo, NoneSeen
    <2>4. 1..0 = {} OBVIOUS
    <2>5. UsersSame BY <2>3, <2>4 DEF UsersSame, SeenIn
    <2>6. BatchSame /\ ActiveSame BY <2>2 DEF BatchSame, ActiveSame
    <2>7. {log[i].ip : i \in InReport} = {} BY <2>2, <2>4 DEF InReport
    <2>8. UsersRight BY <2>2, <2>7, FS_EmptySet DEF UsersRight
    <2> QED BY <2>1, <2>5, <2>6, <2>8 DEF UsersInv
  <1>2. I /\ [Next]_vars => I'
    <2> SUFFICES ASSUME I, [Next]_vars PROVE I'
      OBVIOUS
    <2>1. TypeOK' BY NextTypeOK
    <2>2. ASSUME Orderly' PROVE (UsersInv /\ UsersRight)'
      <3>1. Orderly /\ clock' >= clock BY <2>2, Forward
      <3>2. ReportInv' BY <3>1, ReportInvKept DEF UsersInv
      <3>3. UsersSame' /\ BatchSame' /\ ActiveSame'
        BY <3>1, UsersSameKept, BatchSameKept, ActiveSameKept
      <3> QED BY <3>1, <3>2, <3>3, ReportedUsersKept DEF UsersInv
    <2> QED BY <2>1, <2>2
  <1>3. I => ReportedUsers
    BY DEF ReportedUsers, UsersRight
  <1> QED BY <1>1, <1>2, <1>3, PTL DEF Spec
====
