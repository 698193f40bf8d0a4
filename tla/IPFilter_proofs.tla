---- MODULE IPFilter_proofs ----
(***************************************************************************)
(* Proofs about IPFilter for every set of addresses and callers, every     *)
(* capacity and all lists: the cache's map and list agree, the cache is    *)
(* least-recently-used, and what it answers is what the lists say.         *)
(***************************************************************************)
EXTENDS IPFilter, SequenceTheorems, TLAPS

----------------------------------------------------------------------------
(* Bringing an address to the front of a list, from its place p or, when   *)
(* it is new, from behind the end.                                         *)

Spot(s, ip, p) == p \in 1..Len(s)+1 /\ \A i \in 1..Len(s) : s[i] = ip <=> i = p

Brought(t, s, ip, p) ==
    /\ t \in Seq(Addresses)
    /\ Len(t) = IF p = Len(s) + 1 THEN p ELSE Len(s)
    /\ \A i \in 1..Len(t) : t[i] = IF i = 1 THEN ip ELSE IF i <= p THEN s[i-1] ELSE s[i]

LEMMA PushFrontBrings ==
    ASSUME NEW s \in Seq(Addresses), NEW ip \in Addresses, ~InList(s, ip)
    PROVE  /\ Spot(s, ip, Len(s) + 1)
           /\ Brought(PushFront(s, ip), s, ip, Len(s) + 1)
  <1> DEFINE t == <<ip>> \o s
  <1>1. Len(s) \in Nat /\ DOMAIN s = 1..Len(s) BY LenProperties
  <1>2. <<ip>> \in Seq(Addresses) /\ Len(<<ip>>) = 1 /\ <<ip>>[1] = ip
    OBVIOUS
  <1>3. t \in Seq(Addresses) BY <1>2
  <1>4. Len(t) = Len(s) + 1 BY <1>1, <1>2
  <1>5. \A i \in 1..Len(t) : t[i] = IF i = 1 THEN ip ELSE s[i-1]
    BY <1>1, <1>2, <1>4
  <1> HIDE DEF t
  <1>6. \A i \in 1..Len(s) : s[i] # ip BY <1>1 DEF InList
  <1>7. Spot(s, ip, Len(s) + 1) BY <1>1, <1>6 DEF Spot
  <1>8. Brought(t, s, ip, Len(s) + 1) BY <1>1, <1>3, <1>4, <1>5 DEF Brought
  <1> QED BY <1>7, <1>8 DEF t, PushFront

LEMMA MoveToFrontBrings ==
    ASSUME NEW s \in Seq(Addresses), NEW ip \in Addresses, InList(s, ip), NoRepeats(s)
    PROVE  /\ Spot(s, ip, Place(s, ip)) /\ Place(s, ip) \in 1..Len(s)
           /\ Brought(MoveToFront(s, ip), s, ip, Place(s, ip))
  <1> DEFINE p == Place(s, ip)
             t == MoveToFront(s, ip)
  <1>1. Len(s) \in Nat /\ DOMAIN s = 1..Len(s) BY LenProperties
  <1>2. p \in DOMAIN s /\ s[p] = ip BY DEF InList, Place
  <1>3. Spot(s, ip, p) BY <1>1, <1>2 DEF Spot, NoRepeats
  <1>4. t = [i \in 1..Len(s) |-> IF i = 1 THEN ip ELSE IF i <= p THEN s[i-1] ELSE s[i]]
    BY <1>1 DEF MoveToFront
  <1> HIDE DEF p, t
  <1>5. \A i \in 1..Len(s) : s[i] \in Addresses BY ElementOfSeq
  <1>6. \A i \in 1..Len(s) : i # 1 => i - 1 \in 1..Len(s) BY <1>1
  <1>7. t \in [1..Len(s) -> Addresses] BY <1>4, <1>5, <1>6
  <1>8. t \in Seq(Addresses) /\ Len(t) = Len(s) BY <1>1, <1>7
  <1>9. Brought(t, s, ip, p) BY <1>1, <1>2, <1>4, <1>8 DEF Brought
  <1> QED BY <1>1, <1>2, <1>3, <1>9 DEF p, t

(* It then is in front of the others, once.                                *)
LEMMA BroughtElements ==
    ASSUME NEW s \in Seq(Addresses), NEW t \in Seq(Addresses), NEW ip \in Addresses,
           NEW p \in Nat, NoRepeats(s), Spot(s, ip, p), Brought(t, s, ip, p)
    PROVE  /\ NoRepeats(t)
           /\ \A a \in Addresses : InList(t, a) <=> a = ip \/ InList(s, a)
  <1> DEFINE n == Len(s)
             m == Len(t)
  <1>1. n \in Nat /\ DOMAIN s = 1..n BY LenProperties
  <1>2. m \in Nat /\ DOMAIN t = 1..m BY LenProperties
  <1>3. 1 <= p /\ p <= n + 1 BY <1>1 DEF Spot
  <1>4. m = IF p = n + 1 THEN p ELSE n BY DEF Brought
  <1>5. \A i \in 1..m : t[i] = IF i = 1 THEN ip ELSE IF i <= p THEN s[i-1] ELSE s[i]
    BY DEF Brought
  <1>6. \A i \in 1..n : s[i] = ip <=> i = p BY DEF Spot
  <1>7. \A i, j \in 1..n : s[i] = s[j] => i = j BY <1>1 DEF NoRepeats
  <1> HIDE DEF n, m
  <1>8. ASSUME NEW k \in 1..m, NEW l \in 1..m, k < l PROVE t[k] # t[l]
    <2>1. l # 1 BY <1>2, <1>8
    <2>2. t[k] = IF k = 1 THEN ip ELSE IF k <= p THEN s[k-1] ELSE s[k] BY <1>5
    <2>3. t[l] = IF l <= p THEN s[l-1] ELSE s[l] BY <1>5, <2>1
    <2>4. CASE l <= p
      <3>1. l - 1 \in 1..n /\ l - 1 # p BY <1>1, <1>2, <1>3, <1>4, <2>1, <2>4
      <3>2. k # 1 => k - 1 \in 1..n /\ k - 1 # l - 1 /\ k <= p
        BY <1>1, <1>2, <1>3, <1>4, <1>8, <2>4
      <3> QED BY <1>6, <1>7, <2>2, <2>3, <2>4, <3>1, <3>2
    <2>5. CASE ~(l <= p)
      <3>1. l \in 1..n /\ l # p BY <1>1, <1>2, <1>3, <1>4, <2>5
      <3>2. k # 1 /\ k <= p => k - 1 \in 1..n /\ k - 1 # l
        BY <1>1, <1>2, <1>3, <1>4, <1>8, <2>5
      <3>3. ~(k <= p) => k \in 1..n /\ k # l
        BY <1>1, <1>2, <1>3, <1>4, <1>8, <2>5
      <3> QED BY <1>6, <1>7, <2>2, <2>3, <2>5, <3>1, <3>2, <3>3
    <2> QED BY <2>4, <2>5
  <1>9. NoRepeats(t)
    <2>1. ASSUME NEW i \in 1..m, NEW j \in 1..m, t[i] = t[j] PROVE i = j
      <3>1. i < j \/ j < i \/ i = j BY <1>2
      <3> QED BY <1>8, <2>1, <3>1
    <2> QED BY <1>2, <2>1 DEF NoRepeats
  <1>10. ASSUME NEW a \in Addresses, InList(t, a) PROVE a = ip \/ InList(s, a)
    <2>1. PICK i \in 1..m : t[i] = a BY <1>2, <1>10 DEF InList
    <2>2. i # 1 /\ i <= p => i - 1 \in 1..n BY <1>1, <1>2, <1>3, <1>4
    <2>3. ~(i <= p) => i \in 1..n BY <1>1, <1>2, <1>3, <1>4
    <2> QED BY <1>1, <1>5, <2>1, <2>2, <2>3 DEF InList
  <1>11. ASSUME NEW a \in Addresses, a = ip \/ InList(s, a) PROVE InList(t, a)
    <2>1. CASE a = ip
      <3>1. 1 \in 1..m BY <1>1, <1>2, <1>3, <1>4
      <3> QED BY <1>2, <1>5, <2>1, <3>1 DEF InList
    <2>2. CASE InList(s, a) /\ a # ip
      <3>1. PICK i \in 1..n : s[i] = a BY <1>1, <2>2 DEF InList
      <3>2. CASE i < p
        <4>1. i + 1 \in 1..m /\ i + 1 <= p /\ i + 1 # 1 /\ (i + 1) - 1 = i
          BY <1>1, <1>2, <1>3, <1>4, <3>2
        <4>2. t[i+1] = a BY <1>5, <3>1, <4>1
        <4> QED BY <1>2, <4>1, <4>2 DEF InList
      <3>3. CASE i > p
        <4>1. i \in 1..m /\ i # 1 /\ ~(i <= p) BY <1>1, <1>2, <1>3, <1>4, <3>3
        <4>2. t[i] = a BY <1>5, <3>1, <4>1
        <4> QED BY <1>2, <4>1, <4>2 DEF InList
      <3>4. i < p \/ i > p BY <1>1, <1>6, <2>2, <3>1
      <3> QED BY <3>2, <3>3, <3>4
    <2> QED BY <1>11, <2>1, <2>2
  <1> QED BY <1>9, <1>10, <1>11

(* Touch brings an address to the front of a list without repeats.         *)
LEMMA TouchBrings ==
    ASSUME NEW s \in Seq(Addresses), NEW ip \in Addresses, NoRepeats(s)
    PROVE  \E p \in Nat : Spot(s, ip, p) /\ Brought(Touch(s, ip), s, ip, p)
  <1>1. Len(s) \in Nat BY LenProperties
  <1>2. CASE InList(s, ip)
    <2>1. Place(s, ip) \in Nat BY <1>1, <1>2, MoveToFrontBrings
    <2> QED BY <1>2, <2>1, MoveToFrontBrings DEF Touch
  <1>3. CASE ~InList(s, ip)
    <2>1. Len(s) + 1 \in Nat BY <1>1
    <2> QED BY <1>3, <2>1, PushFrontBrings DEF Touch
  <1> QED BY <1>2, <1>3

(* If s is the beginning of l it stays so when an address comes to the     *)
(* front of both.                                                          *)
BeginningOf(s, l) == Len(s) <= Len(l) /\ \A i \in DOMAIN s : s[i] = l[i]

LEMMA BeginningBrought ==
    ASSUME NEW s \in Seq(Addresses), NEW l \in Seq(Addresses), BeginningOf(s, l),
           NEW t \in Seq(Addresses), NEW m \in Seq(Addresses),
           NEW ip \in Addresses, NEW p \in Nat, NEW q \in Nat,
           Spot(s, ip, p), Brought(t, s, ip, p), Spot(l, ip, q), Brought(m, l, ip, q)
    PROVE  /\ BeginningOf(t, m)
           /\ Len(s) = Len(l) => Len(t) = Len(m)
  <1> DEFINE ns == Len(s)
             nl == Len(l)
             nt == Len(t)
             nm == Len(m)
  <1>1. /\ ns \in Nat /\ nl \in Nat /\ nt \in Nat /\ nm \in Nat
        /\ DOMAIN s = 1..ns /\ DOMAIN t = 1..nt
    BY LenProperties
  <1>2. ns <= nl /\ \A i \in 1..ns : s[i] = l[i] BY <1>1 DEF BeginningOf
  <1>3. 1 <= p /\ p <= ns + 1 /\ \A i \in 1..ns : s[i] = ip <=> i = p
    BY <1>1 DEF Spot
  <1>4. 1 <= q /\ q <= nl + 1 /\ \A i \in 1..nl : l[i] = ip <=> i = q
    BY <1>1 DEF Spot
  <1>5. /\ nt = IF p = ns + 1 THEN p ELSE ns
        /\ \A i \in 1..nt : t[i] = IF i = 1 THEN ip ELSE IF i <= p THEN s[i-1] ELSE s[i]
    BY DEF Brought
  <1>6. /\ nm = IF q = nl + 1 THEN q ELSE nl
        /\ \A i \in 1..nm : m[i] = IF i = 1 THEN ip ELSE IF i <= q THEN l[i-1] ELSE l[i]
    BY DEF Brought
  <1> HIDE DEF ns, nl, nt, nm
  <1>7. IF p <= ns THEN q = p ELSE p = ns + 1 /\ q > ns
    <2>1. CASE p <= ns
      <3>1. p \in 1..ns /\ p \in 1..nl BY <1>1, <1>2, <1>3, <2>1
      <3> QED BY <1>2, <1>3, <1>4, <2>1, <3>1
    <2>2. CASE p > ns
      <3>1. ASSUME q <= ns PROVE FALSE
        <4>1. q \in 1..ns /\ q \in 1..nl BY <1>1, <1>2, <1>4, <3>1
        <4>2. s[q] = ip BY <1>2, <1>4, <4>1
        <4> QED BY <1>1, <1>3, <2>2, <4>1, <4>2
      <3> QED BY <1>1, <1>3, <2>2, <3>1
    <2> QED BY <1>1, <2>1, <2>2
  <1>8. nt <= nm /\ (ns = nl => nt = nm)
    BY <1>1, <1>2, <1>3, <1>4, <1>5, <1>6, <1>7
  <1>9. ASSUME NEW i \in 1..nt PROVE t[i] = m[i]
    <2>1. i \in 1..nm BY <1>1, <1>8
    <2>2. CASE i = 1
      BY <1>5, <1>6, <2>1, <2>2
    <2>3. CASE i # 1 /\ i <= p
      <3>1. i <= q /\ i - 1 \in 1..ns BY <1>1, <1>3, <1>7, <2>3
      <3> QED BY <1>2, <1>5, <1>6, <2>1, <2>3, <3>1
    <2>4. CASE i # 1 /\ ~(i <= p)
      <3>1. p <= ns /\ q = p /\ i \in 1..ns BY <1>1, <1>3, <1>5, <1>7, <2>4
      <3> QED BY <1>2, <1>5, <1>6, <2>1, <2>4, <3>1
    <2> QED BY <2>2, <2>3, <2>4
  <1>10. BeginningOf(t, m) BY <1>1, <1>8, <1>9 DEF BeginningOf, nt, nm
  <1> QED BY <1>8, <1>10 DEF ns, nl, nt, nm

(* Without its last element a list without repeats has all others, in      *)
(* their places.                                                           *)
LEMMA DropLast ==
    ASSUME NEW t \in Seq(Addresses), Len(t) > 1, NoRepeats(t)
    PROVE  LET u == SubSeq(t, 1, Len(t) - 1)
           IN  /\ u \in Seq(Addresses) /\ Len(u) = Len(t) - 1
               /\ NoRepeats(u) /\ BeginningOf(u, t)
               /\ \A a \in Addresses : InList(u, a) <=> InList(t, a) /\ a # t[Len(t)]
  <1> DEFINE n == Len(t)
             u == SubSeq(t, 1, n - 1)
             k == Len(u)
  <1>1. n \in Nat /\ DOMAIN t = 1..n BY LenProperties
  <1>2. u \in Seq(Addresses) /\ k = n - 1 /\ \A i \in 1..(n-1) : u[i] = t[i]
    <2>1. 1 \in 1..n /\ n - 1 \in 1..n BY <1>1
    <2> QED BY <1>1, <2>1, SubSeqProperties
  <1>3. DOMAIN u = 1..k BY <1>2, LenProperties
  <1>4. n > 1 OBVIOUS
  <1> HIDE DEF n, u, k
  <1>5. \A i, j \in 1..n : t[i] = t[j] => i = j BY <1>1 DEF NoRepeats
  <1>6. NoRepeats(u)
    <2>1. \A i \in 1..k : i \in 1..n /\ u[i] = t[i] BY <1>1, <1>2
    <2> QED BY <1>3, <1>5, <2>1 DEF NoRepeats
  <1>7. k <= n /\ \A i \in 1..k : u[i] = t[i] BY <1>1, <1>2
  <1>8. ASSUME NEW a \in Addresses, InList(u, a) PROVE InList(t, a) /\ a # t[n]
    <2>1. PICK i \in 1..k : u[i] = a BY <1>3, <1>8 DEF InList
    <2>2. i \in 1..n /\ n \in 1..n /\ i # n /\ t[i] = a BY <1>1, <1>2, <1>4, <2>1
    <2> QED BY <1>1, <1>5, <2>2 DEF InList
  <1>9. ASSUME NEW a \in Addresses, InList(t, a), a # t[n] PROVE InList(u, a)
    <2>1. PICK i \in 1..n : t[i] = a BY <1>1, <1>9 DEF InList
    <2>2. i \in 1..k /\ u[i] = a BY <1>1, <1>2, <1>9, <2>1
    <2> QED BY <1>3, <2>2 DEF InList
  <1>10. BeginningOf(u, t) BY <1>3, <1>7 DEF BeginningOf, n, k
  <1> QED BY <1>2, <1>6, <1>8, <1>9, <1>10 DEF n, u, k

----------------------------------------------------------------------------
(* The inductive invariant: beside the two invariants, the history of the  *)
(* addresses asked about has no repeats either, and what the map holds is  *)
(* what the lists say.                                                     *)

Right(c) == \A a \in DOMAIN c : c[a] = shouldFilterInternal(a)

FilterInv ==
    /\ FilterTypeOK /\ IndexMatchesList /\ MostRecentCached
    /\ NoRepeats(touched) /\ Right(cache)

(* Whether a list says so is a Boolean.                                    *)
LEMMA Decided == ASSUME NEW ip PROVE shouldFilterInternal(ip) \in BOOLEAN
  BY DEF shouldFilterInternal

(* How an address that was asked about comes to the front of the list.     *)
LEMMA Asked ==
    ASSUME FilterInv, NEW ip \in Addresses
    PROVE  /\ lru \in Seq(Addresses) /\ touched \in Seq(Addresses)
           /\ NoRepeats(lru) /\ NoRepeats(touched) /\ BeginningOf(lru, touched)
           /\ Len(lru) \in Nat /\ Len(touched) \in Nat /\ maxCacheSize \in Nat \ {0}
           /\ Len(lru) <= maxCacheSize
           /\ Len(lru) = maxCacheSize \/ Len(lru) = Len(touched)
           /\ Cached(ip) <=> InList(lru, ip)
           /\ DOMAIN cache \subseteq Addresses
  <1>1. lru \in Seq(Addresses) /\ touched \in Seq(Addresses) /\ DOMAIN cache \subseteq Addresses
    BY DEF FilterInv, FilterTypeOK
  <1>2. Len(lru) \in Nat /\ Len(touched) \in Nat BY <1>1, LenProperties
  <1>3. /\ Len(lru) <= Len(touched)
        /\ Len(lru) < Len(touched) => Len(lru) = maxCacheSize
        /\ \A i \in DOMAIN lru : lru[i] = touched[i]
    BY DEF FilterInv, MostRecentCached
  <1>4. BeginningOf(lru, touched) BY <1>3 DEF BeginningOf
  <1>5. Len(lru) = maxCacheSize \/ Len(lru) = Len(touched) BY <1>2, <1>3
  <1> QED BY <1>1, <1>2, <1>4, <1>5, CacheAssumption DEF FilterInv, IndexMatchesList

(* A new list that agrees with the new map and begins the new history.     *)
LEMMA ListKept ==
    ASSUME NEW l \in Seq(Addresses), NEW h \in Seq(Addresses), NEW c,
           lru' = l, touched' = h, cache' = c,
           NoRepeats(l), Len(l) <= maxCacheSize, BeginningOf(l, h),
           Len(l) = maxCacheSize \/ Len(l) = Len(h),
           \A a \in Addresses : a \in DOMAIN c <=> InList(l, a)
    PROVE  IndexMatchesList' /\ MostRecentCached'
  <1>1. Len(l) \in Nat /\ Len(h) \in Nat BY LenProperties
  <1>2. IndexMatchesList' BY DEF IndexMatchesList, Cached
  <1>3. /\ Len(l) <= Len(h) /\ \A i \in DOMAIN l : l[i] = h[i]
        /\ Len(l) < Len(h) => Len(l) = maxCacheSize
    BY <1>1 DEF BeginningOf
  <1>4. MostRecentCached' BY <1>3 DEF MostRecentCached
  <1> QED BY <1>2, <1>4

(* An address of the list is used again.                                   *)
LEMMA UsedAgain ==
    ASSUME FilterInv, NEW ip \in Addresses, Cached(ip),
           lru' = MoveToFront(lru, ip), touched' = Touch(touched, ip),
           NEW c, cache' = c, DOMAIN c = DOMAIN cache
    PROVE  /\ IndexMatchesList' /\ MostRecentCached' /\ NoRepeats(touched')
           /\ lru' \in Seq(Addresses) /\ touched' \in Seq(Addresses)
  <1> DEFINE p == Place(lru, ip)
             t == MoveToFront(lru, ip)
             h == Touch(touched, ip)
  <1>1. InList(lru, ip) BY Asked
  <1>2. p \in 1..Len(lru) /\ Spot(lru, ip, p) /\ Brought(t, lru, ip, p)
    BY <1>1, Asked, MoveToFrontBrings
  <1>3. PICK q \in Nat : Spot(touched, ip, q) /\ Brought(h, touched, ip, q)
    BY Asked, TouchBrings
  <1>4. t \in Seq(Addresses) /\ h \in Seq(Addresses) BY <1>2, <1>3 DEF Brought
  <1> HIDE DEF p, t, h
  <1>5. p \in Nat /\ p # Len(lru) + 1 BY <1>2, Asked
  <1>6. Len(t) = Len(lru) BY <1>2, <1>5 DEF Brought
  <1>7. NoRepeats(t) /\ \A a \in Addresses : InList(t, a) <=> a = ip \/ InList(lru, a)
    BY <1>2, <1>4, <1>5, Asked, BroughtElements
  <1>8. NoRepeats(h) BY <1>3, <1>4, Asked, BroughtElements
  <1>9. BeginningOf(t, h) /\ (Len(lru) = Len(touched) => Len(t) = Len(h))
    BY <1>2, <1>3, <1>4, <1>5, Asked, BeginningBrought
  <1>10. \A a \in Addresses : a \in DOMAIN c <=> InList(t, a)
    <2>1. \A a \in Addresses : a \in DOMAIN cache <=> InList(lru, a)
      BY DEF FilterInv, IndexMatchesList, Cached
    <2> QED BY <1>1, <1>7, <2>1
  <1>11. Len(t) <= maxCacheSize /\ (Len(t) = maxCacheSize \/ Len(t) = Len(h))
    BY <1>6, <1>9, Asked
  <1>12. lru' = t /\ touched' = h BY DEF t, h
  <1>13. IndexMatchesList' /\ MostRecentCached'
    BY <1>4, <1>7, <1>9, <1>10, <1>11, <1>12, ListKept
  <1> QED BY <1>4, <1>8, <1>12, <1>13

(* A new address comes in front, and the last one leaves a full list.      *)
LEMMA Inserted ==
    ASSUME FilterInv, NEW ip \in Addresses, ~Cached(ip), touched' = Touch(touched, ip),
           NEW c, cache' = c,
           \/ /\ Len(lru) < maxCacheSize /\ lru' = PushFront(lru, ip)
              /\ DOMAIN c = DOMAIN cache \cup {ip}
           \/ /\ Len(lru) >= maxCacheSize
              /\ lru' = SubSeq(PushFront(lru, ip), 1, Len(lru))
              /\ DOMAIN c = (DOMAIN cache \cup {ip}) \ {lru[Len(lru)]}
    PROVE  /\ IndexMatchesList' /\ MostRecentCached' /\ NoRepeats(touched')
           /\ lru' \in Seq(Addresses) /\ touched' \in Seq(Addresses)
  <1> DEFINE n == Len(lru)
             t == PushFront(lru, ip)
             h == Touch(touched, ip)
  <1>1. ~InList(lru, ip) BY Asked
  <1>2. n + 1 \in Nat /\ n \in Nat BY Asked
  <1>3. Spot(lru, ip, n + 1) /\ Brought(t, lru, ip, n + 1)
    BY <1>1, Asked, PushFrontBrings
  <1>4. PICK q \in Nat : Spot(touched, ip, q) /\ Brought(h, touched, ip, q)
    BY Asked, TouchBrings
  <1>5. t \in Seq(Addresses) /\ h \in Seq(Addresses) BY <1>3, <1>4 DEF Brought
  <1>6. Len(t) = n + 1 BY <1>3 DEF Brought
  <1> HIDE DEF t, h
  <1>7. NoRepeats(t) /\ \A a \in Addresses : InList(t, a) <=> a = ip \/ InList(lru, a)
    BY <1>2, <1>3, <1>5, Asked, BroughtElements
  <1>8. NoRepeats(h) BY <1>4, <1>5, Asked, BroughtElements
  <1>9. BeginningOf(t, h) /\ (n = Len(touched) => Len(t) = Len(h))
    BY <1>2, <1>3, <1>4, <1>5, Asked, BeginningBrought
  <1>10. \A a \in Addresses : a \in DOMAIN cache <=> InList(lru, a)
    BY DEF FilterInv, IndexMatchesList, Cached
  <1>11. touched' = h BY DEF h
  <1>12. CASE n < maxCacheSize
    <2>1. lru' = t /\ DOMAIN c = DOMAIN cache \cup {ip} BY <1>2, <1>12, Asked DEF t
    <2>2. n = Len(touched) BY <1>12, Asked
    <2>3. Len(t) <= maxCacheSize /\ Len(t) = Len(h) BY <1>2, <1>6, <1>9, <1>12, <2>2, Asked
    <2>4. \A a \in Addresses : a \in DOMAIN c <=> InList(t, a) BY <1>7, <1>10, <2>1
    <2>5. IndexMatchesList' /\ MostRecentCached'
      BY <1>5, <1>7, <1>9, <1>11, <2>1, <2>3, <2>4, ListKept
    <2> QED BY <1>5, <1>8, <1>11, <2>1, <2>5
  <1>13. CASE ~(n < maxCacheSize)
    <2> DEFINE u == SubSeq(t, 1, Len(t) - 1)
    <2>1. n = maxCacheSize /\ n > 0 /\ Len(t) > 1 /\ Len(t) - 1 = n BY <1>2, <1>6, <1>13, Asked
    <2>2. lru' = u /\ DOMAIN c = (DOMAIN cache \cup {ip}) \ {lru[n]} BY <1>13, <2>1 DEF t
    <2>3. t[n + 1] = lru[n]
      <3>1. n + 1 \in 1..Len(t) /\ n + 1 # 1 /\ n + 1 <= n + 1 /\ (n + 1) - 1 = n
        BY <1>2, <1>6, <2>1
      <3> QED BY <1>3, <3>1 DEF Brought, t
    <2>4. /\ u \in Seq(Addresses) /\ Len(u) = n /\ NoRepeats(u) /\ BeginningOf(u, t)
          /\ \A a \in Addresses : InList(u, a) <=> InList(t, a) /\ a # lru[n]
      BY <1>5, <1>6, <1>7, <2>1, <2>3, DropLast
    <2> HIDE DEF u
    <2>5. BeginningOf(u, h)
      <3>1. Len(u) \in Nat /\ Len(t) \in Nat /\ Len(h) \in Nat /\ DOMAIN u = 1..Len(u) /\ DOMAIN t = 1..Len(t)
        BY <1>5, <2>4, LenProperties
      <3>2. /\ Len(u) <= Len(t) /\ Len(t) <= Len(h)
            /\ \A i \in 1..Len(u) : u[i] = t[i]
            /\ \A i \in 1..Len(t) : t[i] = h[i]
        BY <1>9, <2>4, <3>1 DEF BeginningOf
      <3>3. Len(u) <= Len(h) /\ \A i \in 1..Len(u) : u[i] = h[i] BY <3>1, <3>2
      <3> QED BY <3>1, <3>3 DEF BeginningOf
    <2>6. \A a \in Addresses : a \in DOMAIN c <=> InList(u, a) BY <1>7, <1>10, <2>2, <2>4
    <2>7. Len(u) <= maxCacheSize /\ Len(u) = maxCacheSize BY <2>1, <2>4, Asked
    <2>8. IndexMatchesList' /\ MostRecentCached'
      BY <1>5, <1>11, <2>2, <2>4, <2>5, <2>6, <2>7, ListKept
    <2> QED BY <1>5, <1>8, <1>11, <2>2, <2>4, <2>8
  <1> QED BY <1>12, <1>13

----------------------------------------------------------------------------
(* What a map is: over some of the addresses, with Boolean results.        *)
MapOK(c) == \E S \in SUBSET Addresses : c \in [S -> BOOLEAN]

(* A right map stays one when an address gets the result of the lists.     *)
LEMMA MapPut ==
    ASSUME MapOK(cache), Right(cache), NEW S \in SUBSET Addresses,
           NEW ip \in Addresses, S \subseteq DOMAIN cache \cup {ip}, NEW c,
           c = [a \in S |-> IF a = ip THEN shouldFilterInternal(ip) ELSE cache[a]]
    PROVE  MapOK(c) /\ Right(c)
  <1>1. \A a \in DOMAIN cache : cache[a] = shouldFilterInternal(a) BY DEF Right
  <1>2. \A a \in S : c[a] = shouldFilterInternal(a) BY <1>1
  <1>3. DOMAIN c = S OBVIOUS
  <1>4. c \in [S -> BOOLEAN]
    <2>1. ASSUME NEW a \in S
          PROVE  (IF a = ip THEN shouldFilterInternal(ip) ELSE cache[a]) \in BOOLEAN
      <3>1. CASE a = ip BY <3>1, Decided
      <3>2. CASE a # ip
        <4>1. a \in DOMAIN cache BY <3>2
        <4>2. cache[a] = shouldFilterInternal(a) BY <1>1, <4>1
        <4> QED BY <3>2, <4>2, Decided
      <3> QED BY <3>1, <3>2
    <2> QED BY <2>1
  <1>5. MapOK(c) BY <1>4 DEF MapOK
  <1> QED BY <1>2, <1>3, <1>5 DEF Right

(* A reply with the result of the lists.                                   *)
LEMMA ReplyOK ==
    ASSUME NEW ip \in Addresses, Reply(ip, shouldFilterInternal(ip))
    PROVE  answer' \in [asked : {TRUE}, ip : Addresses, filtered : BOOLEAN]
  BY Decided DEF Reply

LEMMA InitFilterInv == Init => FilterInv
  <1> SUFFICES ASSUME Init PROVE FilterInv
    OBVIOUS
  <1>1. cache = [a \in {} |-> FALSE] /\ lru = <<>> /\ touched = <<>> BY DEF Init
  <1>2. cache \in [{} -> BOOLEAN] /\ DOMAIN cache = {} BY <1>1
  <1>3. FilterTypeOK
    <2>1. {} \in SUBSET Addresses OBVIOUS
    <2>2. lru \in Seq(Addresses) /\ touched \in Seq(Addresses) BY <1>1
    <2>3. pending \in [Callers -> Addresses \cup {NoAddress}] BY DEF Init
    <2> QED BY <1>2, <2>1, <2>2, <2>3 DEF Init, FilterTypeOK
  <1>4. DOMAIN lru = {} /\ DOMAIN touched = {} /\ Len(lru) = 0 /\ Len(touched) = 0 BY <1>1
  <1>5. IndexMatchesList
    BY <1>2, <1>4, CacheAssumption DEF IndexMatchesList, Cached, InList, NoRepeats
  <1>6. MostRecentCached BY <1>4 DEF MostRecentCached
  <1>7. NoRepeats(touched) /\ Right(cache) BY <1>2, <1>4 DEF NoRepeats, Right
  <1> QED BY <1>3, <1>5, <1>6, <1>7 DEF FilterInv

LEMMA NextFilterInv == FilterInv /\ [Next]_filterVars => FilterInv'
  <1> SUFFICES ASSUME FilterInv, [Next]_filterVars PROVE FilterInv'
    OBVIOUS
  <1> USE DEF MapOK
  <1>1. /\ MapOK(cache) /\ Right(cache) /\ DOMAIN cache \subseteq Addresses
        /\ pending \in [Callers -> Addresses \cup {NoAddress}]
        /\ FilterTypeOK
    BY DEF FilterInv, FilterTypeOK
  <1>2. ASSUME UNCHANGED <<cache, lru, touched, answer>>,
               pending' \in [Callers -> Addresses \cup {NoAddress}]
        PROVE  FilterInv'
    BY <1>2 DEF FilterInv, FilterTypeOK, IndexMatchesList, MostRecentCached, Cached, Right
  <1>3. ASSUME NEW ip \in Addresses, Reply(ip, shouldFilterInternal(ip)),
               pending' \in [Callers -> Addresses \cup {NoAddress}],
               IndexMatchesList', MostRecentCached', NoRepeats(touched'),
               lru' \in Seq(Addresses), touched' \in Seq(Addresses),
               MapOK(cache'), Right(cache')
        PROVE  FilterInv'
    <2>1. FilterTypeOK' BY <1>3, ReplyOK DEF FilterTypeOK
    <2> QED BY <1>3, <2>1 DEF FilterInv, Right
  <1>4. ASSUME NEW c \in Callers, NEW ip \in Addresses, Hit(c, ip) PROVE FilterInv'
    <2>1. /\ Cached(ip) /\ lru' = MoveToFront(lru, ip) /\ touched' = Touch(touched, ip)
          /\ cache' = cache /\ pending' = pending /\ Reply(ip, cache[ip])
      BY <1>4 DEF Hit
    <2>2. cache[ip] = shouldFilterInternal(ip) BY <1>1, <2>1 DEF Right, Cached
    <2>3. Reply(ip, shouldFilterInternal(ip)) BY <2>1, <2>2
    <2>4. /\ IndexMatchesList' /\ MostRecentCached' /\ NoRepeats(touched')
          /\ lru' \in Seq(Addresses) /\ touched' \in Seq(Addresses)
      BY <2>1, UsedAgain
    <2> QED BY <1>1, <1>3, <2>1, <2>3, <2>4
  <1>5. ASSUME NEW c \in Callers, NEW ip \in Addresses, Miss(c, ip) PROVE FilterInv'
    <2>1. pending' \in [Callers -> Addresses \cup {NoAddress}] BY <1>1, <1>5 DEF Miss
    <2> QED BY <1>2, <1>5, <2>1 DEF Miss
  <1>6. ASSUME NEW c \in Callers, NEW ip \in Addresses, Computed(c, ip)
        PROVE  /\ pending' \in [Callers -> Addresses \cup {NoAddress}]
               /\ Reply(ip, shouldFilterInternal(ip)) /\ touched' = Touch(touched, ip)
    BY <1>1, <1>6 DEF Computed
  <1>7. ASSUME NEW c \in Callers, NEW ip \in Addresses, Refresh(c, ip) PROVE FilterInv'
    <2>1. /\ Computed(c, ip) /\ Cached(ip) /\ lru' = MoveToFront(lru, ip)
          /\ cache' = [cache EXCEPT ![ip] = shouldFilterInternal(ip)]
      BY <1>7 DEF Refresh
    <2>2. cache' = [a \in DOMAIN cache |-> IF a = ip THEN shouldFilterInternal(ip) ELSE cache[a]]
      BY <1>1, <2>1
    <2>3. DOMAIN cache' = DOMAIN cache /\ MapOK(cache') /\ Right(cache')
      BY <1>1, <2>2, MapPut
    <2>4. /\ IndexMatchesList' /\ MostRecentCached' /\ NoRepeats(touched')
          /\ lru' \in Seq(Addresses) /\ touched' \in Seq(Addresses)
      BY <1>6, <2>1, <2>3, UsedAgain
    <2> QED BY <1>3, <1>6, <2>1, <2>3, <2>4
  <1>8. ASSUME NEW c \in Callers, NEW ip \in Addresses, Insert(c, ip) PROVE FilterInv'
    <2>1. /\ Computed(c, ip) /\ ~Cached(ip) /\ Len(lru) < maxCacheSize
          /\ lru' = PushFront(lru, ip)
          /\ cache' = [a \in DOMAIN cache \cup {ip} |->
                          IF a = ip THEN shouldFilterInternal(ip) ELSE cache[a]]
      BY <1>8 DEF Insert
    <2>2. DOMAIN cache' = DOMAIN cache \cup {ip} /\ MapOK(cache') /\ Right(cache')
      <3> DEFINE S == DOMAIN cache \cup {ip}
      <3>1. S \in SUBSET Addresses /\ S \subseteq DOMAIN cache \cup {ip} BY <1>1
      <3>2. cache' = [a \in S |-> IF a = ip THEN shouldFilterInternal(ip) ELSE cache[a]]
        BY <2>1
      <3> HIDE DEF S, MapOK
      <3>3. MapOK(cache') /\ Right(cache') BY <1>1, <3>1, <3>2, MapPut
      <3> QED BY <3>2, <3>3 DEF S
    <2>3. /\ IndexMatchesList' /\ MostRecentCached' /\ NoRepeats(touched')
          /\ lru' \in Seq(Addresses) /\ touched' \in Seq(Addresses)
      BY <1>6, <2>1, <2>2, Inserted
    <2> QED BY <1>3, <1>6, <2>1, <2>2, <2>3
  <1>9. ASSUME NEW c \in Callers, NEW ip \in Addresses, InsertEvicting(c, ip) PROVE FilterInv'
    <2>1. /\ Computed(c, ip) /\ ~Cached(ip) /\ Len(lru) >= maxCacheSize
          /\ lru' = SubSeq(PushFront(lru, ip), 1, Len(lru))
          /\ cache' = [a \in (DOMAIN cache \cup {ip}) \ {lru[Len(lru)]} |->
                          IF a = ip THEN shouldFilterInternal(ip) ELSE cache[a]]
      BY <1>9 DEF InsertEvicting, Oldest
    <2>2. /\ DOMAIN cache' = (DOMAIN cache \cup {ip}) \ {lru[Len(lru)]}
          /\ MapOK(cache') /\ Right(cache')
      <3> DEFINE S == (DOMAIN cache \cup {ip}) \ {lru[Len(lru)]}
      <3>1. S \in SUBSET Addresses /\ S \subseteq DOMAIN cache \cup {ip} BY <1>1
      <3>2. cache' = [a \in S |-> IF a = ip THEN shouldFilterInternal(ip) ELSE cache[a]]
        BY <2>1
      <3> HIDE DEF S, MapOK
      <3>3. MapOK(cache') /\ Right(cache') BY <1>1, <3>1, <3>2, MapPut
      <3> QED BY <3>2, <3>3 DEF S
    <2>3. /\ IndexMatchesList' /\ MostRecentCached' /\ NoRepeats(touched')
          /\ lru' \in Seq(Addresses) /\ touched' \in Seq(Addresses)
      BY <1>6, <2>1, <2>2, Inserted
    <2> QED BY <1>3, <1>6, <2>1, <2>2, <2>3
  <1>10. CASE UNCHANGED filterVars
    BY <1>1, <1>2, <1>10 DEF filterVars
  <1> QED BY <1>4, <1>5, <1>7, <1>8, <1>9, <1>10 DEF Next, ShouldFilter, Answered

(* The cache's map and list hold the same addresses, each once, and no     *)
(* more than the capacity, with any number of callers between a lookup     *)
(* that failed and its insertion.                                          *)
THEOREM CacheConsistent == Spec => []IndexMatchesList
  <1>1. FilterInv => IndexMatchesList BY DEF FilterInv
  <1> QED BY <1>1, InitFilterInv, NextFilterInv, PTL DEF Spec

(* The cache is least-recently-used.                                       *)
THEOREM CacheLeastRecentlyUsed == Spec => []MostRecentCached
  <1>1. FilterInv => MostRecentCached BY DEF FilterInv
  <1> QED BY <1>1, InitFilterInv, NextFilterInv, PTL DEF Spec

(* ShouldFilter implements the filter without a cache: every step is an    *)
(* answer that the lists give, or none.                                    *)
THEOREM FilterRefinement == Spec => ImplementsPureFilter
  <1>1. Init => Pure!Init BY DEF Init, Pure!Init
  <1>2. FilterInv /\ [Next]_filterVars => [Pure!Next]_answer
    <2> SUFFICES ASSUME FilterInv, [Next]_filterVars PROVE [Pure!Next]_answer
      OBVIOUS
    <2>1. ASSUME NEW ip \in Addresses, Reply(ip, shouldFilterInternal(ip)) PROVE Pure!Next
      <3>1. shouldFilterInternal(ip) = (ip \in systemIPs \cup dnsServers \cup UNION privateNets)
        BY DEF shouldFilterInternal
      <3> QED BY <2>1, <3>1 DEF Reply, Pure!Next, Pure!Answer
    <2>2. ASSUME NEW c \in Callers, NEW ip \in Addresses, Hit(c, ip)
          PROVE  Reply(ip, shouldFilterInternal(ip))
      <3>1. Reply(ip, cache[ip]) /\ ip \in DOMAIN cache BY <2>2 DEF Hit, Cached
      <3>2. cache[ip] = shouldFilterInternal(ip) BY <3>1 DEF FilterInv, Right
      <3> QED BY <3>1, <3>2
    <2>3. ASSUME NEW c \in Callers, NEW ip \in Addresses,
                 Refresh(c, ip) \/ Insert(c, ip) \/ InsertEvicting(c, ip)
          PROVE  Reply(ip, shouldFilterInternal(ip))
      BY <2>3 DEF Refresh, Insert, InsertEvicting, Computed
    <2>4. ASSUME NEW c \in Callers, NEW ip \in Addresses, Miss(c, ip) PROVE answer' = answer
      BY <2>4 DEF Miss
    <2> QED BY <2>1, <2>2, <2>3, <2>4 DEF Next, ShouldFilter, Answered, filterVars
  <1> QED BY <1>1, <1>2, InitFilterInv, NextFilterInv, PTL
          DEF Spec, ImplementsPureFilter, Pure!Spec
====
