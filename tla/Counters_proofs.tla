---- MODULE Counters_proofs ----
(***************************************************************************)
(* Proofs about Counters for every set of lines, addresses and callers,    *)
(* every choice of databases and all limits: the counts are right, the     *)
(* maps stay bounded, and a scrape's connections are among its ASN counts. *)
(***************************************************************************)
EXTENDS Counters, Sums, IPFilter_proofs, FiniteSetTheorems

----------------------------------------------------------------------------
(* Bags of which finitely many keys count, and families of them.           *)

Finite(b) == IsABag(b) /\ IsFiniteSet(DOMAIN b)
AllFinite(m) == m = [f \in Families |-> m[f]] /\ \A f \in Families : Finite(m[f])

LEMMA EmptyFinite == Finite(EmptyBag)
  <1>1. DOMAIN EmptyBag = {} BY DEF EmptyBag, SetToBag
  <1>2. EmptyBag \in [{} -> {n \in Nat : n > 0}] BY DEF EmptyBag, SetToBag
  <1> QED BY <1>1, <1>2, FS_EmptySet DEF Finite, IsABag

LEMMA OneFinite == ASSUME NEW key PROVE Finite(One(key))
  <1>1. CASE key = NoKey BY <1>1, EmptyFinite DEF One
  <1>2. CASE key # NoKey
    <2>1. One(key) = [e \in {key} |-> 1] BY <1>2 DEF One, SetToBag
    <2>2. IsFiniteSet({key}) BY FS_Singleton
    <2>3. DOMAIN One(key) = {key} BY <2>1
    <2>4. One(key) \in [{key} -> {n \in Nat : n > 0}] BY <2>1
    <2> QED BY <2>2, <2>3, <2>4 DEF Finite, IsABag
  <1> QED BY <1>1, <1>2

LEMMA SumFinite ==
    ASSUME NEW a, NEW b, Finite(a), Finite(b)
    PROVE  Finite(a (+) b)
  <1> DEFINE D == DOMAIN a \cup DOMAIN b
             s(e) == (IF e \in DOMAIN a THEN a[e] ELSE 0) + (IF e \in DOMAIN b THEN b[e] ELSE 0)
  <1>1. a \in [DOMAIN a -> {n \in Nat : n > 0}] /\ b \in [DOMAIN b -> {n \in Nat : n > 0}]
    BY DEF Finite, IsABag
  <1>2. a (+) b = [e \in D |-> s(e)] BY DEF (+)
  <1>3. \A e \in D : s(e) \in {n \in Nat : n > 0} BY <1>1
  <1>4. IsFiniteSet(D) BY FS_Union DEF Finite
  <1> HIDE DEF D, s
  <1>5. a (+) b \in [D -> {n \in Nat : n > 0}] /\ DOMAIN (a (+) b) = D BY <1>2, <1>3
  <1> QED BY <1>4, <1>5 DEF Finite, IsABag

LEMMA SumEmpty == ASSUME NEW a, Finite(a) PROVE a (+) EmptyBag = a
  <1>1. a \in [DOMAIN a -> {n \in Nat : n > 0}] BY DEF Finite, IsABag
  <1>2. DOMAIN EmptyBag = {} BY DEF EmptyBag, SetToBag
  <1>3. a (+) EmptyBag = [e \in DOMAIN a \cup {} |->
           (IF e \in DOMAIN a THEN a[e] ELSE 0) + (IF e \in {} THEN EmptyBag[e] ELSE 0)]
    BY <1>2 DEF (+)
  <1>4. \A e \in DOMAIN a : a[e] + 0 = a[e] BY <1>1
  <1>5. a (+) EmptyBag = [e \in DOMAIN a |-> a[e]] BY <1>3, <1>4
  <1> QED BY <1>1, <1>5

LEMMA PlusFinite ==
    ASSUME NEW a, NEW b, AllFinite(a), AllFinite(b)
    PROVE  AllFinite(Plus(a, b))
  <1>1. \A f \in Families : Finite(a[f] (+) b[f]) BY SumFinite DEF AllFinite
  <1> QED BY <1>1 DEF AllFinite, Plus

LEMMA EmptyAllFinite == AllFinite(Empty)
  BY EmptyFinite DEF AllFinite, Empty

----------------------------------------------------------------------------
(* Two maps of a family are alike if they agree on every key that no       *)
(* target is misread for.                                                  *)

Alike(a, b, f) ==
    \A k : k \notin MisreadKeys(f) =>
        /\ k \in DOMAIN a <=> k \in DOMAIN b
        /\ k \in DOMAIN a => a[k] = b[k]
AllAlike(m, d) == \A f \in Families : Alike(m[f], d[f], f)

LEMMA AlikeSame == ASSUME NEW a, NEW f PROVE Alike(a, a, f)
  BY DEF Alike

LEMMA AlikeTrans ==
    ASSUME NEW a, NEW b, NEW c, NEW f, Alike(a, b, f), Alike(b, c, f)
    PROVE  Alike(a, c, f)
  BY DEF Alike

LEMMA AlikeBack == ASSUME NEW a, NEW b, NEW f, Alike(a, b, f) PROVE Alike(b, a, f)
  BY DEF Alike

LEMMA AlikeSum ==
    ASSUME NEW a, NEW b, NEW c, NEW d, NEW f, Alike(a, b, f), Alike(c, d, f)
    PROVE  Alike(a (+) c, b (+) d, f)
  <1> SUFFICES ASSUME NEW k, k \notin MisreadKeys(f)
               PROVE  /\ k \in DOMAIN (a (+) c) <=> k \in DOMAIN (b (+) d)
                      /\ k \in DOMAIN (a (+) c) => (a (+) c)[k] = (b (+) d)[k]
    BY DEF Alike
  <1> DEFINE at(m) == IF k \in DOMAIN m THEN m[k] ELSE 0
  <1>1. /\ k \in DOMAIN a <=> k \in DOMAIN b
        /\ k \in DOMAIN c <=> k \in DOMAIN d
        /\ at(a) = at(b) /\ at(c) = at(d)
    BY DEF Alike
  <1>2. /\ DOMAIN (a (+) c) = DOMAIN a \cup DOMAIN c
        /\ DOMAIN (b (+) d) = DOMAIN b \cup DOMAIN d
    BY DEF (+)
  <1>3. k \in DOMAIN (a (+) c) => (a (+) c)[k] = at(a) + at(c) BY DEF (+)
  <1>4. k \in DOMAIN (b (+) d) => (b (+) d)[k] = at(b) + at(d) BY DEF (+)
  <1> HIDE DEF at
  <1> QED BY <1>1, <1>2, <1>3, <1>4

(* Counting a key that a target is misread for changes nothing.            *)
LEMMA AlikeMisread ==
    ASSUME NEW f, NEW key, key \in MisreadKeys(f)
    PROVE  Alike(One(key), EmptyBag, f)
  <1>1. DOMAIN EmptyBag = {} /\ DOMAIN One(key) \subseteq {key}
    BY DEF One, EmptyBag, SetToBag
  <1> QED BY <1>1 DEF Alike

(* Cutting the same keys of both.                                          *)
LEMMA AlikeCut ==
    ASSUME NEW m, NEW d, NEW f, Alike(m, d, f), NEW t, Only(m, Keys(t)) = t
    PROVE  Alike(t, Only(d, Keys(d) \ (Keys(m) \ Keys(t))), f)
  <1> DEFINE S == Keys(d) \ (Keys(m) \ Keys(t))
  <1>1. /\ DOMAIN t = DOMAIN m \cap DOMAIN t
        /\ \A k \in DOMAIN t : t[k] = m[k]
    BY DEF Only, Keys
  <1>2. S \subseteq Keys(d) OBVIOUS
  <1>3. DOMAIN Only(d, S) = S /\ \A k \in S : Only(d, S)[k] = d[k]
    BY <1>2 DEF Only, Keys
  <1>4. \A k : k \in S <=> k \in DOMAIN d /\ ~(k \in DOMAIN m /\ k \notin DOMAIN t)
    BY DEF Keys
  <1> HIDE DEF S
  <1>5. Alike(t, Only(d, S), f) BY <1>1, <1>3, <1>4 DEF Alike
  <1> QED BY <1>5 DEF S

LEMMA WellReadAlike ==
    ASSUME NEW a, NEW b, NEW f, Alike(a, b, f)
    PROVE  WellRead(f, a) = WellRead(f, b)
  <1> DEFINE S == DOMAIN a \ MisreadKeys(f)
  <1>1. DOMAIN b \ MisreadKeys(f) = S /\ \A k \in S : a[k] = b[k] BY DEF Alike
  <1>2. DOMAIN a \cap S = S /\ DOMAIN b \cap S = S BY <1>1
  <1>3. WellRead(f, a) = [k \in S |-> a[k]] BY <1>2 DEF WellRead, Only, Keys
  <1>4. WellRead(f, b) = [k \in S |-> b[k]] BY <1>1, <1>2 DEF WellRead, Only, Keys
  <1> QED BY <1>1, <1>3, <1>4

----------------------------------------------------------------------------
(* What keepTopN keeps of a map: some of its keys with their counts, and   *)
(* no more than n of them.                                                 *)
LEMMA KeptOfMap ==
    ASSUME NEW m, Finite(m), NEW n \in Nat, NEW t \in keepTopN(m, n)
    PROVE  Finite(t) /\ Only(m, Keys(t)) = t /\ Cardinality(Keys(t)) <= n
  <1>1. m \in [DOMAIN m -> {k \in Nat : k > 0}] /\ IsFiniteSet(DOMAIN m)
    BY DEF Finite, IsABag
  <1>2. CASE Cardinality(DOMAIN m) <= n
    <2>1. t = m BY <1>2 DEF keepTopN, Keys
    <2>2. Only(m, DOMAIN m) = m BY <1>1 DEF Only, Keys
    <2> QED BY <1>2, <2>1, <2>2 DEF Keys
  <1>3. CASE ~(Cardinality(DOMAIN m) <= n)
    <2>1. PICK S \in Largest(m, n) : t = Only(m, S) BY <1>3 DEF keepTopN, Keys
    <2>2. S \subseteq DOMAIN m /\ Cardinality(S) = n BY <2>1 DEF Largest, Keys
    <2>3. DOMAIN m \cap S = S BY <2>2
    <2>4. t = [k \in S |-> m[k]] BY <2>1, <2>3 DEF Only, Keys
    <2>5. DOMAIN t = S BY <2>4
    <2>6. Only(m, Keys(t)) = t BY <2>1, <2>5 DEF Keys
    <2>7. IsFiniteSet(S) BY <1>1, <2>2, FS_Subset
    <2>8. t \in [S -> {k \in Nat : k > 0}] BY <1>1, <2>2, <2>4
    <2> QED BY <2>2, <2>5, <2>6, <2>7, <2>8 DEF Finite, IsABag, Keys
  <1> QED BY <1>2, <1>3

LEMMA OnlyFinite == ASSUME NEW m, Finite(m), NEW S PROVE Finite(Only(m, S))
  <1> DEFINE D == DOMAIN m \cap S
  <1>1. m \in [DOMAIN m -> {k \in Nat : k > 0}] /\ IsFiniteSet(DOMAIN m)
    BY DEF Finite, IsABag
  <1>2. Only(m, S) = [k \in D |-> m[k]] BY DEF Only, Keys
  <1>3. IsFiniteSet(D) BY <1>1, FS_Subset
  <1>4. Only(m, S) \in [D -> {k \in Nat : k > 0}] /\ DOMAIN Only(m, S) = D
    BY <1>1, <1>2
  <1> QED BY <1>3, <1>4 DEF Finite, IsABag

(* A trim leaves each map with no more than its limit, and every key it    *)
(* leaves with its count.                                                  *)
LEMMA Trimmed ==
    ASSUME AllFinite(counts), trimToTopN
    PROVE  /\ AllFinite(counts')
           /\ \A f \in Families : counts'[f] \in keepTopN(counts[f], MaxTracked[f])
           /\ due' = [f \in Families |->
                         Only(due[f], Keys(due[f]) \ (Keys(counts[f]) \ Keys(counts'[f])))]
           /\ ~TooLarge(counts')
  <1>1. \A f \in Families : counts'[f] \in keepTopN(counts[f], MaxTracked[f])
    BY DEF trimToTopN, Families
  <1>2. counts' = [f \in Families |-> counts'[f]]
    BY DEF trimToTopN, Families
  <1>3. ASSUME NEW f \in Families
        PROVE  Finite(counts'[f]) /\ ~(Cardinality(Keys(counts'[f])) > BeforeCleanup[f])
    <2>1. /\ MaxTracked[f] \in Nat /\ BeforeCleanup[f] \in Nat
          /\ MaxTracked[f] <= BeforeCleanup[f]
      BY LimitsAssumption
    <2>2. Finite(counts[f]) BY DEF AllFinite
    <2>3. Finite(counts'[f]) /\ Cardinality(Keys(counts'[f])) <= MaxTracked[f]
      BY <1>1, <2>1, <2>2, KeptOfMap
    <2>4. Cardinality(Keys(counts'[f])) \in Nat
      BY <2>3, FS_CardinalityType DEF Finite, Keys
    <2> QED BY <2>1, <2>3, <2>4
  <1>4. due' = [f \in Families |->
                  Only(due[f], Keys(due[f]) \ (Keys(counts[f]) \ Keys(counts'[f])))]
    BY DEF trimToTopN
  <1> QED BY <1>1, <1>2, <1>3, <1>4 DEF AllFinite, TooLarge

----------------------------------------------------------------------------
(* The invariant.  What the pass owes is alike what it has counted, except *)
(* for the line at hand while the filter is asked about it: before the     *)
(* target is decided all of the line is owed, before the client is decided *)
(* what it counts for as a user.                                           *)

UserFamilies == {"asn", "country", "city"}
OwedMore(l, F) ==
    \A f \in Families :
        Alike(owed[f], IF f \in F THEN delta[f] (+) Owes(l)[f] ELSE delta[f], f)

LineInv ==
    /\ pc \in {"target", "client"} => line \in Lines /\ line.parsed
    /\ pc = "reading" => AllAlike(owed, delta)
    /\ pc = "target" => line.to.form = "address" /\ OwedMore(line, Families)
    /\ pc = "client" => ~line.old /\ OwedMore(line, UserFamilies)

CountInv ==
    /\ FilterInv
    /\ AllFinite(counts) /\ AllFinite(delta)
    /\ AllAlike(counts, due)
    /\ LineInv
    /\ MapsBounded

(* What a line counts for are finite bags.                                 *)
LEMMA OwesFinite == ASSUME NEW l PROVE AllFinite(Owes(l))
  <1>1. Owes(l) = [f \in Families |-> Owes(l)[f]] BY DEF Owes, Families
  <1>2. \A f \in Families : Owes(l)[f] = EmptyBag \/ \E key : Owes(l)[f] = One(key)
    BY DEF Owes, Families
  <1>3. \A f \in Families : Finite(Owes(l)[f]) BY <1>2, EmptyFinite, OneFinite
  <1> QED BY <1>1, <1>3 DEF AllFinite

(* CountRequest settles what a line counts for as a request, and all of it *)
(* if the line is old.                                                     *)
LEMMA RequestCounted ==
    ASSUME AllFinite(delta), NEW l \in Lines, l.parsed, NEW key,
           NEW family \in {"domain", "ip"}, CountRequest(l, family, key),
           \A f \in Families : Alike(owed'[f], delta[f] (+) Owes(l)[f], f),
           Alike(Owes(l)[family], One(key), family),
           \A f \in {"domain", "ip"} : f # family => Alike(Owes(l)[f], EmptyBag, f)
    PROVE  AllFinite(delta') /\ LineInv' /\ pc' \in {"reading", "client"}
  <1>1. delta' = [f \in Families |->
                    IF f = family THEN delta[f] (+) One(key)
                    ELSE IF f = "outbound" THEN delta[f] (+) One(l.outbound) ELSE delta[f]]
    BY DEF CountRequest, AllFinite, Families
  <1>2. \A f \in Families : Finite(delta[f]) /\ delta[f] (+) EmptyBag = delta[f]
    BY SumEmpty DEF AllFinite
  <1>3. Owes(l)["outbound"] = One(l.outbound) BY DEF Owes
  <1>4. ASSUME NEW f \in Families \ UserFamilies
        PROVE  Alike(owed'[f], delta'[f], f)
    <2>1. PICK c : delta'[f] = delta[f] (+) c /\ Alike(Owes(l)[f], c, f)
      <3>1. CASE f = family BY <1>1, <3>1 DEF Families
      <3>2. CASE f \in {"domain", "ip"} /\ f # family
        <4>1. delta'[f] = delta[f] (+) EmptyBag BY <1>1, <1>2, <3>2 DEF Families
        <4> QED BY <3>2, <4>1
      <3>3. CASE f = "outbound"
        <4>1. delta'[f] = delta[f] (+) Owes(l)[f] BY <1>1, <1>3, <3>3 DEF Families
        <4> QED BY <4>1, AlikeSame
      <3> QED BY <3>1, <3>2, <3>3 DEF Families, UserFamilies
    <2>2. Alike(delta[f] (+) Owes(l)[f], delta[f] (+) c, f)
      BY <2>1, AlikeSame, AlikeSum
    <2>3. Alike(owed'[f], delta[f] (+) Owes(l)[f], f) OBVIOUS
    <2> QED BY <2>1, <2>2, <2>3, AlikeTrans
  <1>5. \A f \in UserFamilies : delta'[f] = delta[f]
    BY <1>1 DEF Families, UserFamilies
  <1>6. AllFinite(delta')
    <2>1. \A f \in Families : Finite(delta'[f])
      BY <1>1, <1>2, OneFinite, SumFinite
    <2> QED BY <1>1, <2>1 DEF AllFinite
  <1>7. UserFamilies \subseteq Families BY DEF Families, UserFamilies
  <1>8. l.old \in BOOLEAN BY LinesAssumption
  <1>9. CASE l.old
    <2>1. pc' = "reading" BY <1>9 DEF CountRequest, AfterRequest
    <2>2. \A f \in UserFamilies : Owes(l)[f] = EmptyBag BY <1>9 DEF Owes, UserFamilies
    <2>3. \A f \in UserFamilies : delta'[f] = delta[f] (+) Owes(l)[f]
      BY <1>2, <1>5, <1>7, <2>2
    <2>4. AllAlike(owed, delta)' BY <1>4, <1>7, <2>3 DEF AllAlike
    <2> QED BY <1>6, <2>1, <2>4 DEF LineInv
  <1>10. CASE ~l.old
    <2>1. pc' = "client" /\ line' = l BY <1>10 DEF CountRequest, AfterRequest
    <2>2. OwedMore(l, UserFamilies)' BY <1>4, <1>5, <1>7 DEF OwedMore
    <2> QED BY <1>6, <1>10, <2>1, <2>2 DEF LineInv
  <1> QED BY <1>8, <1>9, <1>10

(* When ShouldFilter comes back its result is what the lists say, and      *)
(* every step of it is one of the filter's.                                *)
LEMMA FilterAnswers ==
    ASSUME FilterInv, NEW ip \in Addresses, Answered(parser, ip)
    PROVE  answer'.filtered <=> ip \in Listed
  <1>1. shouldFilterInternal(ip) <=> ip \in Listed BY DEF shouldFilterInternal, Listed
  <1>2. CASE Hit(parser, ip)
    <2>1. ip \in DOMAIN cache /\ answer'.filtered = cache[ip]
      BY <1>2 DEF Hit, Reply, Cached
    <2>2. cache[ip] = shouldFilterInternal(ip) BY <2>1 DEF FilterInv, Right
    <2> QED BY <1>1, <2>1, <2>2
  <1>3. CASE Computed(parser, ip)
    <2>1. answer'.filtered = shouldFilterInternal(ip) BY <1>3 DEF Computed, Reply
    <2> QED BY <1>1, <2>1
  <1> QED BY <1>2, <1>3 DEF Answered, Refresh, Insert, InsertEvicting

(* A step of the filter for any of its callers.                            *)
LEMMA FilterStep ==
    ASSUME FilterInv, NEW c \in Callers, NEW ip \in Addresses, ShouldFilter(c, ip)
    PROVE  FilterInv'
  BY NextFilterInv DEF Next

----------------------------------------------------------------------------
(* Each step keeps the invariant.                                          *)

LEMMA InitCountInv == CountersInit => CountInv
  <1> SUFFICES ASSUME CountersInit PROVE CountInv
    OBVIOUS
  <1>1. FilterInv BY InitFilterInv DEF CountersInit
  <1>2. AllFinite(counts) /\ AllFinite(delta) /\ AllAlike(counts, due)
    BY EmptyAllFinite, AlikeSame DEF CountersInit, AllAlike
  <1>3. \A f \in Families : Cardinality(Keys(counts[f])) = 0
    <2>1. \A f \in Families : DOMAIN counts[f] = {}
      BY DEF CountersInit, Empty, EmptyBag, SetToBag
    <2> QED BY <2>1, FS_EmptySet DEF Keys
  <1>4. ~TooLarge(counts)
    <2>1. \A f \in Families : BeforeCleanup[f] \in Nat BY LimitsAssumption
    <2> QED BY <1>3, <2>1 DEF TooLarge
  <1>5. pc = "waiting" BY DEF CountersInit
  <1>6. LineInv BY <1>5 DEF LineInv
  <1>7. MapsBounded BY <1>4, <1>5 DEF MapsBounded
  <1> QED BY <1>1, <1>2, <1>6, <1>7 DEF CountInv

(* The maps stay as they are: a step of processLine.                       *)
LEMMA MapsUntouched ==
    ASSUME CountInv, UNCHANGED mapVars, FilterInv', AllFinite(delta'), LineInv',
           pc \in {"waiting", "reading", "target", "client"},
           pc' \in {"waiting", "reading", "target", "client"}
    PROVE  CountInv'
  <1>1. counts' = counts /\ due' = due BY DEF mapVars
  <1>2. ~TooLarge(counts) BY DEF CountInv, MapsBounded
  <1>3. ~TooLarge(counts') BY <1>1, <1>2
  <1>4. MapsBounded' BY <1>3 DEF MapsBounded
  <1>5. AllFinite(counts') /\ AllAlike(counts, due)' BY <1>1 DEF CountInv, AllAlike
  <1> QED BY <1>4, <1>5 DEF CountInv

(* A line is read.                                                         *)
LEMMA LineTaken ==
    ASSUME CountInv, NEW l \in Lines, DropLine(l) \/ TakeLine(l)
    PROVE  CountInv'
  <1>1. UNCHANGED filterVars /\ UNCHANGED mapVars BY DEF DropLine, TakeLine
  <1>2. FilterInv' BY <1>1, NextFilterInv DEF CountInv
  <1>3. pc = "reading" /\ AllAlike(owed, delta) /\ AllFinite(delta)
    BY DEF DropLine, TakeLine, CountInv, LineInv
  <1>4. CASE DropLine(l)
    <2>1. pc' = pc /\ delta' = delta /\ owed' = owed BY <1>4 DEF DropLine
    <2>2. AllFinite(delta') /\ LineInv' /\ pc' = "reading"
      BY <1>3, <2>1 DEF LineInv, AllAlike
    <2> QED BY <1>1, <1>2, <1>3, <2>2, MapsUntouched
  <1>5. CASE TakeLine(l)
    <2>1. l.parsed /\ owed' = Plus(owed, Owes(l)) BY <1>3, <1>5 DEF TakeLine
    <2>2. l.to.form \in {"none", "host", "hexhost", "bracketed", "address"}
      BY <2>1, LinesAssumption
    <2>3. ASSUME NEW f \in Families PROVE Alike(owed'[f], delta[f] (+) Owes(l)[f], f)
      <3>1. owed'[f] = owed[f] (+) Owes(l)[f] BY <2>1 DEF Plus
      <3>2. Alike(owed[f], delta[f], f) BY <1>3 DEF AllAlike
      <3> QED BY <3>1, <3>2, AlikeSame, AlikeSum
    <2>4. CASE l.to.form = "address"
      <3>1. l.to.key # NoKey BY <2>1, <2>4, LinesAssumption
      <3>2. pc' = "target" /\ line' = l /\ delta' = delta
        BY <1>5, <2>4, <3>1 DEF TakeLine, isIPAddressFast, normalizeIP
      <3>3. OwedMore(l, Families)' BY <2>3, <3>2 DEF OwedMore
      <3>4. LineInv' BY <2>1, <2>4, <3>2, <3>3 DEF LineInv
      <3> QED BY <1>1, <1>2, <1>3, <3>2, <3>4, MapsUntouched
    <2>5. CASE l.to.form = "hexhost"
      <3>1. CountRequest(l, "ip", NoKey)
        BY <1>5, <2>5 DEF TakeLine, isIPAddressFast, normalizeIP
      <3>2. Owes(l)["ip"] = EmptyBag /\ Owes(l)["domain"] = One(getRootDomain(l.to))
        BY <2>5 DEF Owes, IsName, IsAddress
      <3>3. One(NoKey) = EmptyBag BY DEF One
      <3>4. getRootDomain(l.to) \in MisreadKeys("domain")
        BY <2>1, <2>5 DEF MisreadKeys, Misread
      <3>5. Alike(Owes(l)["domain"], EmptyBag, "domain") BY <3>2, <3>4, AlikeMisread
      <3>6. Alike(Owes(l)["ip"], One(NoKey), "ip") BY <3>2, <3>3, AlikeSame
      <3>7. AllFinite(delta') /\ LineInv' /\ pc' \in {"reading", "client"}
        BY <1>3, <2>1, <2>3, <3>1, <3>5, <3>6, RequestCounted
      <3> QED BY <1>1, <1>2, <1>3, <3>7, MapsUntouched
    <2>6. CASE l.to.form \in {"none", "host"}
      <3> DEFINE key == getRootDomain(l.to)
      <3>1. CountRequest(l, "domain", key)
        BY <1>5, <2>6 DEF TakeLine, isIPAddressFast
      <3>2. l.to.form = "none" => One(key) = EmptyBag BY DEF getRootDomain, One
      <3>3. Owes(l)["ip"] = EmptyBag /\ Owes(l)["domain"] = One(key)
        BY <2>6, <3>2 DEF Owes, IsName, IsAddress
      <3> HIDE DEF key
      <3>4. Alike(Owes(l)["ip"], EmptyBag, "ip") /\ Alike(Owes(l)["domain"], One(key), "domain")
        BY <3>3, AlikeSame
      <3>5. AllFinite(delta') /\ LineInv' /\ pc' \in {"reading", "client"}
        BY <1>3, <2>1, <2>3, <3>1, <3>4, RequestCounted
      <3> QED BY <1>1, <1>2, <1>3, <3>5, MapsUntouched
    <2>7. CASE l.to.form = "bracketed"
      <3> DEFINE key == getRootDomain(l.to)
      <3>1. CountRequest(l, "domain", key)
        BY <1>5, <2>7 DEF TakeLine, isIPAddressFast
      <3>2. Owes(l)["domain"] = EmptyBag /\ Owes(l)["ip"] \in {EmptyBag, One(l.to.key)}
        BY <2>7 DEF Owes, IsName, IsAddress
      <3>3. key \in MisreadKeys("domain") /\ l.to.key \in MisreadKeys("ip")
        BY <2>1, <2>7 DEF MisreadKeys, Misread, IsAddress
      <3> HIDE DEF key
      <3>4. Alike(Owes(l)["domain"], One(key), "domain")
        BY <3>2, <3>3, AlikeMisread, AlikeBack
      <3>5. Alike(Owes(l)["ip"], EmptyBag, "ip") BY <3>2, <3>3, AlikeMisread, AlikeSame
      <3>6. AllFinite(delta') /\ LineInv' /\ pc' \in {"reading", "client"}
        BY <1>3, <2>1, <2>3, <3>1, <3>4, <3>5, RequestCounted
      <3> QED BY <1>1, <1>2, <1>3, <3>6, MapsUntouched
    <2> QED BY <2>2, <2>4, <2>5, <2>6, <2>7
  <1> QED BY <1>4, <1>5

(* The filter is asked about the target.                                   *)
LEMMA TargetFiltered == CountInv /\ FilterTarget => CountInv'
  <1> SUFFICES ASSUME CountInv, FilterTarget PROVE CountInv'
    OBVIOUS
  <1> DEFINE ip == line.to.key
  <1>1. /\ pc = "target" /\ line \in Lines /\ line.parsed /\ line.to.form = "address"
        /\ OwedMore(line, Families) /\ AllFinite(delta)
    BY DEF FilterTarget, CountInv, LineInv
  <1>2. ip \in Addresses BY <1>1, LinesAssumption
  <1>3. normalizeIP(line.to) = ip BY <1>1 DEF normalizeIP
  <1>4. UNCHANGED mapVars /\ owed' = owed BY DEF FilterTarget
  <1>5. CASE Miss(parser, ip) /\ UNCHANGED <<pc, line, delta>>
    <2>1. FilterInv' BY <1>2, <1>5, FilterStep, ParserAssumption DEF ShouldFilter, CountInv
    <2>2. AllFinite(delta') /\ LineInv' /\ pc' = "target"
      BY <1>1, <1>4, <1>5 DEF LineInv, OwedMore
    <2> QED BY <1>1, <1>4, <2>1, <2>2, MapsUntouched
  <1>6. CASE /\ Answered(parser, ip)
             /\ CountRequest(line, "ip", IF answer'.filtered THEN NoKey ELSE ip)
    <2> DEFINE key == IF answer'.filtered THEN NoKey ELSE ip
    <2>1. FilterInv' BY <1>2, <1>6, FilterStep, ParserAssumption DEF ShouldFilter, CountInv
    <2>2. answer'.filtered <=> ip \in Listed BY <1>2, <1>6, FilterAnswers DEF CountInv
    <2>3. Alike(Owes(line)["ip"], One(key), "ip")
      <3>1. Owes(line)["ip"] = One(key) BY <1>1, <2>2 DEF Owes, One, IsAddress
      <3> QED BY <3>1, AlikeSame
    <2>4. Alike(Owes(line)["domain"], EmptyBag, "domain")
      <3>1. Owes(line)["domain"] = EmptyBag BY <1>1 DEF Owes, IsName
      <3> QED BY <3>1, AlikeSame
    <2>5. \A f \in Families : Alike(owed'[f], delta[f] (+) Owes(line)[f], f)
      BY <1>1, <1>4 DEF OwedMore
    <2> HIDE DEF key
    <2>6. CountRequest(line, "ip", key) BY <1>6 DEF key
    <2>7. AllFinite(delta') /\ LineInv' /\ pc' \in {"reading", "client"}
      BY <1>1, <2>3, <2>4, <2>5, <2>6, RequestCounted
    <2> QED BY <1>1, <1>4, <2>1, <2>7, MapsUntouched
  <1> QED BY <1>3, <1>5, <1>6 DEF FilterTarget

(* The filter is asked about the client.                                   *)
LEMMA ClientFiltered == CountInv /\ FilterClient => CountInv'
  <1> SUFFICES ASSUME CountInv, FilterClient PROVE CountInv'
    OBVIOUS
  <1> DEFINE ip == line.from
  <1>1. /\ pc = "client" /\ line \in Lines /\ line.parsed /\ ~line.old
        /\ OwedMore(line, UserFamilies) /\ AllFinite(delta)
    BY DEF FilterClient, CountInv, LineInv
  <1>2. ip \in Addresses BY <1>1, LinesAssumption
  <1>3. UNCHANGED mapVars /\ owed' = owed BY DEF FilterClient
  <1>4. CASE Miss(parser, ip) /\ UNCHANGED <<pc, line, kept, delta>>
    <2>1. FilterInv' BY <1>2, <1>4, FilterStep, ParserAssumption DEF ShouldFilter, CountInv
    <2>2. AllFinite(delta') /\ LineInv' /\ pc' = "client"
      BY <1>1, <1>3, <1>4 DEF LineInv, OwedMore
    <2> QED BY <1>1, <1>3, <2>1, <2>2, MapsUntouched
  <1>5. CASE Answered(parser, ip) /\ CountUser(ip, answer'.filtered) /\ pc' = "reading"
    <2>1. FilterInv' BY <1>2, <1>5, FilterStep, ParserAssumption DEF ShouldFilter, CountInv
    <2>2. answer'.filtered <=> ip \in Listed BY <1>2, <1>5, FilterAnswers DEF CountInv
    <2>3. \A f \in Families : Finite(delta[f]) /\ delta[f] (+) EmptyBag = delta[f]
      BY <1>1, SumEmpty DEF AllFinite
    <2>4. UserFamilies \subseteq Families BY DEF UserFamilies, Families
    <2>5. AllFinite(delta') /\ AllAlike(owed, delta')
      <3>1. CASE ip \in Listed
        <4>1. delta' = delta BY <1>5, <2>2, <3>1 DEF CountUser
        <4>2. \A f \in UserFamilies : Owes(line)[f] = EmptyBag
          BY <3>1 DEF Owes, UserFamilies
        <4>3. \A f \in Families : Alike(owed[f], delta[f], f)
          BY <1>1, <2>3, <2>4, <4>2 DEF OwedMore
        <4> QED BY <1>1, <4>1, <4>3 DEF AllAlike
      <3>2. CASE ip \notin Listed
        <4>1. delta' = [delta EXCEPT !["asn"] = @ (+) One(ASN(ip)),
                                     !["country"] = @ (+) One(Country(ip)),
                                     !["city"] = @ (+) One(City(ip))]
          BY <1>5, <2>2, <3>2 DEF CountUser
        <4>2. /\ Owes(line)["asn"] = One(ASN(ip))
              /\ Owes(line)["country"] = One(Country(ip))
              /\ Owes(line)["city"] = One(City(ip))
          BY <1>1, <3>2 DEF Owes
        <4>3. delta' = [f \in Families |-> IF f \in UserFamilies THEN delta[f] (+) Owes(line)[f]
                                           ELSE delta[f]]
          BY <1>1, <4>1, <4>2 DEF AllFinite, Families, UserFamilies
        <4>4. \A f \in Families : Finite(delta'[f])
          BY <2>3, <4>3, OwesFinite, SumFinite DEF AllFinite
        <4>5. AllAlike(owed, delta') BY <1>1, <4>3 DEF OwedMore, AllAlike
        <4> QED BY <4>3, <4>4, <4>5 DEF AllFinite
      <3> QED BY <3>1, <3>2
    <2>6. LineInv' BY <1>3, <1>5, <2>5 DEF LineInv, AllAlike
    <2> QED BY <1>1, <1>3, <1>5, <2>1, <2>5, <2>6, MapsUntouched
  <1> QED BY <1>4, <1>5 DEF FilterClient

(* A pass begins, fails or ends, and the check after it.                   *)
LEMMA PassKept ==
    CountInv /\ (BeginPass \/ PassFails \/ EndPass \/ checkEmergencyCleanup) => CountInv'
  <1> SUFFICES ASSUME CountInv, BeginPass \/ PassFails \/ EndPass \/ checkEmergencyCleanup
               PROVE CountInv'
    OBVIOUS
  <1>1. UNCHANGED filterVars BY DEF BeginPass, PassFails, EndPass, checkEmergencyCleanup
  <1>2. FilterInv' BY <1>1, NextFilterInv DEF CountInv
  <1>3. AllFinite(counts) /\ AllFinite(delta) /\ AllAlike(counts, due) BY DEF CountInv
  <1>4. CASE BeginPass
    <2>1. pc = "waiting" /\ pc' = "reading" /\ delta' = Empty /\ owed' = Empty
          /\ UNCHANGED mapVars
      BY <1>4 DEF BeginPass
    <2>2. AllFinite(delta') /\ LineInv' BY <2>1, EmptyAllFinite, AlikeSame DEF LineInv, AllAlike
    <2> QED BY <1>2, <2>1, <2>2, MapsUntouched
  <1>5. CASE PassFails
    <2>1. pc' = "checking" /\ delta' = delta /\ counts' = counts /\ due' = due
      BY <1>5 DEF PassFails, mapVars
    <2>2. AllAlike(counts, due)' BY <1>3, <2>1 DEF AllAlike
    <2> QED BY <1>2, <1>3, <2>1, <2>2 DEF CountInv, LineInv, MapsBounded
  <1>6. CASE EndPass
    <2>1. /\ pc = "reading" /\ pc' = "checking" /\ delta' = Empty
          /\ counts' = Plus(counts, delta) /\ due' = Plus(due, owed)
      BY <1>6 DEF EndPass, mergeDelta
    <2>2. AllAlike(owed, delta) BY <2>1 DEF CountInv, LineInv
    <2>3. AllFinite(counts') /\ AllFinite(delta')
      BY <1>3, <2>1, PlusFinite, EmptyAllFinite
    <2>4. ASSUME NEW f \in Families PROVE Alike(counts'[f], due'[f], f)
      <3>1. Alike(counts[f], due[f], f) /\ Alike(delta[f], owed[f], f)
        BY <1>3, <2>2, AlikeBack DEF AllAlike
      <3>2. counts'[f] = counts[f] (+) delta[f] /\ due'[f] = due[f] (+) owed[f]
        BY <2>1 DEF Plus
      <3> QED BY <3>1, <3>2, AlikeSum
    <2>5. AllAlike(counts, due)' BY <2>4 DEF AllAlike
    <2> QED BY <1>2, <2>1, <2>3, <2>5 DEF CountInv, LineInv, MapsBounded
  <1>7. CASE checkEmergencyCleanup
    <2>1. /\ pc' = IF TooLarge(counts) THEN "trimming" ELSE "waiting"
          /\ delta' = delta /\ counts' = counts /\ due' = due
      BY <1>7 DEF checkEmergencyCleanup, mapVars
    <2>2. AllFinite(counts') /\ AllFinite(delta') /\ AllAlike(counts, due)'
      BY <1>3, <2>1 DEF AllAlike
    <2>3. LineInv' BY <2>1 DEF LineInv
    <2>4. MapsBounded' BY <2>1 DEF MapsBounded
    <2> QED BY <1>2, <2>2, <2>3, <2>4 DEF CountInv
  <1> QED BY <1>4, <1>5, <1>6, <1>7

(* A trim, in an emergency or by the ticker.                               *)
LEMMA TrimKept == CountInv /\ (EmergencyCleanup \/ CleanupTick) => CountInv'
  <1> SUFFICES ASSUME CountInv, EmergencyCleanup \/ CleanupTick PROVE CountInv'
    OBVIOUS
  <1>1. /\ trimToTopN /\ UNCHANGED filterVars /\ delta' = delta /\ pc' = "waiting"
    BY DEF EmergencyCleanup, CleanupTick, passVars
  <1>2. FilterInv' BY <1>1, NextFilterInv DEF CountInv
  <1>3. AllFinite(counts) /\ AllAlike(counts, due) /\ AllFinite(delta) BY DEF CountInv
  <1>4. /\ AllFinite(counts') /\ ~TooLarge(counts')
        /\ \A f \in Families : counts'[f] \in keepTopN(counts[f], MaxTracked[f])
        /\ due' = [f \in Families |->
                      Only(due[f], Keys(due[f]) \ (Keys(counts[f]) \ Keys(counts'[f])))]
    BY <1>1, <1>3, Trimmed
  <1>5. ASSUME NEW f \in Families PROVE Alike(counts'[f], due'[f], f)
    <2>1. MaxTracked[f] \in Nat /\ Finite(counts[f]) BY <1>3, LimitsAssumption DEF AllFinite
    <2>2. PICK t \in keepTopN(counts[f], MaxTracked[f]) : counts'[f] = t BY <1>4
    <2>3. Only(counts[f], Keys(t)) = t BY <2>1, KeptOfMap
    <2>4. Alike(counts[f], due[f], f) BY <1>3 DEF AllAlike
    <2>5. Alike(t, Only(due[f], Keys(due[f]) \ (Keys(counts[f]) \ Keys(t))), f)
      BY <2>3, <2>4, AlikeCut
    <2>6. due'[f] = Only(due[f], Keys(due[f]) \ (Keys(counts[f]) \ Keys(t)))
      BY <1>4, <2>2
    <2> QED BY <2>2, <2>5, <2>6
  <1>6. AllAlike(counts, due)' BY <1>5 DEF AllAlike
  <1>7. LineInv' BY <1>1 DEF LineInv
  <1>8. MapsBounded' BY <1>1, <1>4 DEF MapsBounded
  <1> QED BY <1>1, <1>2, <1>3, <1>4, <1>6, <1>7, <1>8 DEF CountInv

(* Nothing happens to the parser and its maps.                             *)
LEMMA ParserUntouched ==
    ASSUME CountInv, FilterInv', UNCHANGED <<passVars, mapVars>>
    PROVE  CountInv'
  <1>1. /\ pc' = pc /\ line' = line /\ delta' = delta /\ owed' = owed
        /\ counts' = counts /\ due' = due
    BY DEF passVars, mapVars
  <1>2. AllFinite(counts') /\ AllFinite(delta') /\ AllAlike(counts, due)'
    BY <1>1 DEF CountInv, AllAlike
  <1>3. LineInv' BY <1>1 DEF CountInv, LineInv, OwedMore, AllAlike
  <1>4. MapsBounded' BY <1>1 DEF CountInv, MapsBounded
  <1> QED BY <1>2, <1>3, <1>4 DEF CountInv

LEMMA NextCountInv == CountInv /\ [CountersNext]_allVars => CountInv'
  <1> SUFFICES ASSUME CountInv, [CountersNext]_allVars PROVE CountInv'
    OBVIOUS
  <1>1. CASE ParseLoop
    BY <1>1, PassKept, TrimKept, LineTaken, TargetFiltered, ClientFiltered
    DEF ParseLoop, ProcessLine
  <1>2. CASE Collect
    <2>1. UNCHANGED filterVars /\ UNCHANGED <<passVars, mapVars>>
      BY <1>2 DEF Collect, collectLogMetrics, collectFamily, EndScrape
    <2>2. FilterInv' BY <2>1, NextFilterInv DEF CountInv
    <2> QED BY <2>1, <2>2, ParserUntouched
  <1>3. CASE OtherCaller
    <2>1. UNCHANGED <<passVars, mapVars>> BY <1>3 DEF OtherCaller, counterVars
    <2>2. PICK c \in Callers, ip \in Addresses : ShouldFilter(c, ip)
      BY <1>3 DEF OtherCaller
    <2>3. FilterInv' BY <2>2, FilterStep DEF CountInv
    <2> QED BY <2>1, <2>3, ParserUntouched
  <1>4. CASE UNCHANGED allVars
    <2>1. UNCHANGED filterVars /\ UNCHANGED <<passVars, mapVars>>
      BY <1>4 DEF allVars, counterVars
    <2>2. FilterInv' BY <2>1, NextFilterInv DEF CountInv
    <2> QED BY <2>1, <2>2, ParserUntouched
  <1> QED BY <1>1, <1>2, <1>3, <1>4 DEF CountersNext

----------------------------------------------------------------------------
(* For all lines, databases, limits and orders of the filter's callers,    *)
(* trims and scrapes: each count is the number of merged requests for its  *)
(* key since that was last cut; none is lost, doubled or misplaced, of the *)
(* keys that no name with the look of an address and no address in         *)
(* brackets should have counted for, or does.                              *)
THEOREM CountsRight == CountersSpec => []CountedSinceCut
  <1>1. CountInv => CountedSinceCut
    BY WellReadAlike DEF CountInv, CountedSinceCut, AllAlike
  <1> QED BY <1>1, InitCountInv, NextCountInv, PTL DEF CountersSpec

(* For all limits: no map is above its emergency threshold between two     *)
(* passes, and what is trimmed in an emergency still needs it.             *)
THEOREM MapsStayBounded == CountersSpec => []MapsBounded
  <1>1. CountInv => MapsBounded BY DEF CountInv
  <1> QED BY <1>1, InitCountInv, NextCountInv, PTL DEF CountersSpec

(* Under the parser's use, with any other callers, the cache is still the  *)
(* least-recently-used one that IPFilter promises.                         *)
THEOREM CacheInUse == CountersSpec => [](IndexMatchesList /\ MostRecentCached)
  <1>1. CountInv => IndexMatchesList /\ MostRecentCached BY DEF CountInv, FilterInv
  <1> QED BY <1>1, InitCountInv, NextCountInv, PTL DEF CountersSpec

----------------------------------------------------------------------------
(* The types.  The connections that are kept, merged or shown are bounded  *)
(* by the lines that were read, of which the one at hand has not been      *)
(* counted yet.                                                            *)

AtHand == IF pc \in {"target", "client"} THEN 1 ELSE 0

PlacesTyped ==
    /\ pc \in {"waiting", "reading", "target", "client", "checking", "trimming"}
    /\ read \in 0..MaxLines /\ line \in Lines \cup {NoLine}
    /\ {kept, conns, shown} \subseteq Nat
    /\ conns + kept + AtHand <= read /\ shown <= read

BagsTyped ==
    /\ AllFinite(owed) /\ AllFinite(due) /\ AllFinite(exported)
    /\ step \in 0..7 /\ cut \subseteq Families

TypesInv == CountInv /\ PlacesTyped /\ BagsTyped

LEMMA SevenToCollect == Len(CollectOrder) = 7
  BY DEF CollectOrder

(* The lines that have been read, and what the pass has made of them.      *)
LEMMA PlacesOfLine ==
    ASSUME PlacesTyped, NEW l \in Lines, DropLine(l) \/ TakeLine(l)
    PROVE  PlacesTyped'
  <1>1. /\ pc = "reading" /\ read < MaxLines /\ read' = read + 1
        /\ UNCHANGED <<kept, conns, shown>>
    BY DEF DropLine, TakeLine, scrapeVars
  <1>2. pc' \in {"reading", "target", "client"} /\ line' \in Lines \cup {NoLine}
    BY <1>1 DEF DropLine, TakeLine, CountRequest, AfterRequest, PlacesTyped
  <1>3. read' \in 0..MaxLines BY <1>1, LimitsAssumption DEF PlacesTyped
  <1>4. AtHand = 0 /\ AtHand' \in {0, 1} BY <1>1 DEF AtHand
  <1>5. conns' + kept' + AtHand' <= read' /\ shown' <= read'
    <2>1. read \in Nat /\ kept \in Nat /\ conns \in Nat /\ shown \in Nat
          /\ conns + kept + 0 <= read /\ shown <= read
      BY <1>3, <1>4 DEF PlacesTyped
    <2>2. \A a \in {0, 1} : conns + kept + a <= read + 1 BY <2>1
    <2>3. conns + kept + AtHand' <= read + 1 BY <1>4, <2>2
    <2>4. shown <= read + 1 BY <2>1
    <2> QED BY <1>1, <2>3, <2>4
  <1> QED BY <1>1, <1>2, <1>3, <1>5 DEF PlacesTyped

LEMMA PlacesOfFilter ==
    ASSUME PlacesTyped, FilterTarget \/ FilterClient
    PROVE  PlacesTyped'
  <1>1. pc \in {"target", "client"} /\ AtHand = 1 /\ UNCHANGED <<read, conns, shown>>
    BY DEF FilterTarget, FilterClient, AtHand, scrapeVars
  <1>2. /\ pc' \in {"reading", "target", "client"} /\ line' \in Lines \cup {NoLine}
        /\ kept' = kept \/ (kept' = kept + 1 /\ pc' = "reading")
    <2>1. CASE FilterTarget
      BY <1>1, <2>1 DEF FilterTarget, CountRequest, AfterRequest, PlacesTyped
    <2>2. CASE FilterClient
      BY <1>1, <2>2 DEF FilterClient, CountUser, PlacesTyped
    <2> QED BY <2>1, <2>2
  <1>3. AtHand' \in {0, 1} /\ (pc' = "reading" => AtHand' = 0) BY DEF AtHand
  <1>4. kept' \in Nat /\ conns + kept' + AtHand' <= read
    <2>1. read \in Nat /\ kept \in Nat /\ conns \in Nat /\ conns + kept + 1 <= read
      BY <1>1, LimitsAssumption DEF PlacesTyped
    <2>2. conns + kept + 0 <= read /\ conns + (kept + 1) + 0 <= read BY <2>1
    <2> QED BY <1>2, <1>3, <2>1, <2>2
  <1> QED BY <1>1, <1>2, <1>4 DEF PlacesTyped

(* Between two lines nothing is at hand.                                   *)
LEMMA PlacesOfPass ==
    ASSUME PlacesTyped,
           \/ BeginPass \/ PassFails \/ EndPass
           \/ checkEmergencyCleanup \/ EmergencyCleanup \/ CleanupTick
    PROVE  PlacesTyped'
  <1>1. /\ pc' \in {"waiting", "reading", "checking", "trimming"} /\ UNCHANGED <<read, line, shown>>
        /\ \/ conns' = conns /\ kept' \in {kept, 0}
           \/ conns' = conns + kept /\ kept' = 0
    BY DEF BeginPass, PassFails, EndPass, mergeDelta, checkEmergencyCleanup, EmergencyCleanup,
           CleanupTick, passVars, scrapeVars
  <1>2. AtHand' = 0 /\ AtHand \in {0, 1} BY <1>1 DEF AtHand
  <1>3. read \in Nat /\ kept \in Nat /\ conns \in Nat /\ conns + kept + AtHand <= read
    BY LimitsAssumption DEF PlacesTyped
  <1>4. conns + kept + 0 <= read /\ conns + 0 + 0 <= read BY <1>2, <1>3
  <1>5. kept' \in Nat /\ conns' \in Nat /\ conns' + kept' + AtHand' <= read
    BY <1>1, <1>2, <1>3, <1>4
  <1> QED BY <1>1, <1>5 DEF PlacesTyped

(* A scrape forgets connections, and shows what is left.                   *)
LEMMA PlacesOfScrape ==
    ASSUME PlacesTyped, UNCHANGED passVars, conns' \in 0..conns, shown' \in {shown, conns', 0}
    PROVE  PlacesTyped'
  <1>1. UNCHANGED <<pc, read, line, kept>> BY DEF passVars
  <1>2. AtHand' = AtHand /\ AtHand \in {0, 1} BY <1>1 DEF AtHand
  <1>3. /\ read \in Nat /\ kept \in Nat /\ conns \in Nat /\ shown \in Nat
        /\ conns + kept + AtHand <= read /\ shown <= read
    BY LimitsAssumption DEF PlacesTyped
  <1>4. conns' \in Nat /\ conns' <= conns BY <1>3
  <1>5. conns' + kept + AtHand <= read /\ conns' <= read
    <2>1. \A a \in {0, 1}, c \in Nat : c <= conns /\ conns + kept + a <= read =>
              c + kept + a <= read /\ c <= read
      BY <1>3
    <2> QED BY <1>2, <1>3, <1>4, <2>1
  <1>6. shown' \in Nat /\ shown' <= read BY <1>3, <1>4, <1>5
  <1> QED BY <1>1, <1>2, <1>4, <1>5, <1>6 DEF PlacesTyped

LEMMA PlacesKept == ASSUME PlacesTyped, [CountersNext]_allVars PROVE PlacesTyped'
  <1>1. CASE ParseLoop
    BY <1>1, PlacesOfLine, PlacesOfFilter, PlacesOfPass DEF ParseLoop, ProcessLine
  <1>2. conns \in 0..conns BY DEF PlacesTyped
  <1>3. CASE Collect
    <2>1. UNCHANGED passVars /\ conns' \in 0..conns /\ shown' \in {shown, conns', 0}
      BY <1>2, <1>3 DEF Collect, collectLogMetrics, collectFamily, EndScrape
    <2> QED BY <2>1, PlacesOfScrape
  <1>4. CASE OtherCaller \/ UNCHANGED allVars
    <2>1. UNCHANGED <<passVars, conns, shown>>
      BY <1>4 DEF OtherCaller, counterVars, scrapeVars, allVars
    <2>2. conns' \in 0..conns /\ shown' \in {shown, conns', 0} BY <1>2, <2>1
    <2> QED BY <2>1, <2>2, PlacesOfScrape
  <1> QED BY <1>1, <1>3, <1>4 DEF CountersNext

(* What is owed and what is exported are finite bags throughout.           *)
LEMMA BagsKept == ASSUME TypesInv, [CountersNext]_allVars PROVE BagsTyped'
  <1> USE DEF BagsTyped
  <1>1. AllFinite(owed) /\ AllFinite(due) /\ AllFinite(exported) BY DEF TypesInv
  <1>2. step \in 0..7 /\ cut \subseteq Families BY DEF TypesInv
  <1>3. CASE \E l \in Lines : TakeLine(l)
    <2>1. PICK l \in Lines : TakeLine(l) BY <1>3
    <2>2. owed' = Plus(owed, Owes(l)) /\ UNCHANGED <<due, cut, step, exported>>
      BY <2>1 DEF TakeLine, mapVars, scrapeVars
    <2>3. AllFinite(owed') BY <1>1, <2>2, OwesFinite, PlusFinite
    <2> QED BY <1>1, <1>2, <2>2, <2>3
  <1>4. CASE BeginPass \/ EndPass
    <2>1. owed' = Empty /\ UNCHANGED <<cut, step, exported>> /\ due' \in {due, Plus(due, owed)}
      BY <1>4 DEF BeginPass, EndPass, mapVars, scrapeVars
    <2>2. AllFinite(due') BY <1>1, <2>1, PlusFinite
    <2> QED BY <1>1, <1>2, <2>1, <2>2, EmptyAllFinite
  <1>5. CASE EmergencyCleanup \/ CleanupTick
    <2>1. /\ cut' = cut \cup {f \in Families : counts'[f] # counts[f]}
          /\ UNCHANGED <<owed, step, exported>>
      BY <1>5 DEF EmergencyCleanup, CleanupTick, trimToTopN, passVars, scrapeVars
    <2>2. cut' \subseteq Families BY <1>2, <2>1
    <2>3. due' = [f \in Families |->
                    Only(due[f], Keys(due[f]) \ (Keys(counts[f]) \ Keys(counts'[f])))]
      BY <1>5 DEF EmergencyCleanup, CleanupTick, trimToTopN
    <2>4. AllFinite(due') BY <1>1, <2>3, OnlyFinite DEF AllFinite
    <2> QED BY <1>1, <1>2, <2>1, <2>2, <2>4
  <1>6. CASE \E f \in Families : collectFamily(f)
    <2>1. PICK f \in Families : collectFamily(f) BY <1>6
    <2>2. PICK top \in keepTopN(counts[f], MaxTracked[f]) :
              exported' = [exported EXCEPT ![f] = top]
      BY <2>1 DEF collectFamily, topN, GetCounts
    <2>3. Finite(counts[f]) /\ MaxTracked[f] \in Nat
      BY LimitsAssumption DEF TypesInv, CountInv, AllFinite
    <2>4. Finite(top) BY <2>2, <2>3, KeptOfMap
    <2>5. AllFinite(exported') BY <1>1, <2>2, <2>4 DEF AllFinite
    <2>6. step' \in 0..7 BY <1>2, <2>1, SevenToCollect DEF collectFamily
    <2>7. UNCHANGED <<owed, due, cut>> BY <2>1 DEF collectFamily, passVars, mapVars
    <2> QED BY <1>1, <1>2, <2>5, <2>6, <2>7
  <1>7. CASE collectLogMetrics
    <2>1. step' \in 0..7 BY <1>2, <1>7, SevenToCollect DEF collectLogMetrics
    <2>2. UNCHANGED <<owed, due, cut, exported>>
      BY <1>7 DEF collectLogMetrics, passVars, mapVars
    <2> QED BY <1>1, <1>2, <2>1, <2>2
  <1>8. CASE EndScrape
    <2>1. step' = 0 /\ exported' = Empty /\ UNCHANGED <<owed, due, cut>>
      BY <1>8 DEF EndScrape, passVars, mapVars
    <2> QED BY <1>1, <1>2, <2>1, EmptyAllFinite
  <1>9. CASE \/ PassFails \/ checkEmergencyCleanup \/ FilterTarget \/ FilterClient
             \/ OtherCaller \/ UNCHANGED allVars \/ \E l \in Lines : DropLine(l)
    <2>1. UNCHANGED <<owed, due, cut, step, exported>>
      BY <1>9 DEF PassFails, checkEmergencyCleanup, FilterTarget, FilterClient, OtherCaller,
                  DropLine, allVars, counterVars, passVars, mapVars, scrapeVars
    <2> QED BY <1>1, <1>2, <2>1
  <1> QED BY <1>3, <1>4, <1>5, <1>6, <1>7, <1>8, <1>9
      DEF CountersNext, ParseLoop, ProcessLine, Collect

LEMMA InitTypesInv == CountersInit => TypesInv
  <1> SUFFICES ASSUME CountersInit PROVE PlacesTyped /\ BagsTyped
    BY InitCountInv DEF TypesInv
  <1>1. AtHand = 0 BY DEF CountersInit, AtHand
  <1>2. PlacesTyped BY <1>1, LimitsAssumption DEF CountersInit, PlacesTyped
  <1>3. BagsTyped BY EmptyAllFinite DEF CountersInit, BagsTyped
  <1> QED BY <1>2, <1>3

LEMMA NextTypesInv == TypesInv /\ [CountersNext]_allVars => TypesInv'
  BY NextCountInv, PlacesKept, BagsKept DEF TypesInv

(* Through filter, passes, trims and scrapes every map is a bag: a key is  *)
(* either absent or counted at least once; and no more connections are     *)
(* kept, merged or shown than lines were read.                             *)
THEOREM CountersTypeCorrect == CountersSpec => []CountersTypeOK
  <1>1. TypesInv => CountersTypeOK
    <2> SUFFICES ASSUME TypesInv PROVE CountersTypeOK
      OBVIOUS
    <2>1. FilterTypeOK BY DEF TypesInv, CountInv, FilterInv
    <2>2. {kept, conns, shown} \subseteq 0..MaxLines
      <3>1. /\ {read, kept, conns, shown, MaxLines} \subseteq Nat /\ AtHand \in {0, 1}
            /\ conns + kept + AtHand <= read /\ shown <= read /\ read <= MaxLines
        BY LimitsAssumption DEF TypesInv, PlacesTyped, AtHand
      <3>2. kept <= MaxLines /\ conns <= MaxLines /\ shown <= MaxLines BY <3>1
      <3> QED BY <3>1, <3>2
    <2>3. \A m \in {delta, counts, exported, owed, due} : AllBags(m)
      BY DEF TypesInv, CountInv, BagsTyped, AllFinite, Finite, AllBags
    <2> QED BY <2>1, <2>2, <2>3, SevenToCollect
        DEF TypesInv, PlacesTyped, BagsTyped, CountersTypeOK
  <1> QED BY <1>1, InitTypesInv, NextTypesInv, PTL DEF CountersSpec

----------------------------------------------------------------------------
(* How many are in a finite bag of counts.                                 *)

Size(b) == SumFunction(b)

LEMMA SizeIsSum == ASSUME NEW b PROVE Size(b) = SumFunctionOnSet(b, DOMAIN b)
  BY DEF Size, SumFunction, SumFunctionOnSet, FoldFunction

LEMMA FiniteSums ==
    ASSUME NEW b, Finite(b)
    PROVE  IsFiniteSet(DOMAIN b) /\ Natural(b, DOMAIN b) /\ Size(b) \in Nat
  <1>1. b \in [DOMAIN b -> {n \in Nat : n > 0}] /\ IsFiniteSet(DOMAIN b)
    BY DEF Finite, IsABag
  <1>2. Natural(b, DOMAIN b) BY <1>1 DEF Natural
  <1> QED BY <1>1, <1>2, SizeIsSum, SumNatural

LEMMA SizeOfEmpty == Size(EmptyBag) = 0
  <1>1. DOMAIN EmptyBag = {} BY DEF EmptyBag, SetToBag
  <1> QED BY <1>1, SizeIsSum, SumOfNone

LEMMA SizeOfOne == ASSUME NEW key, key # NoKey PROVE Size(One(key)) = 1
  <1>1. One(key) = [e \in {key} |-> 1] BY DEF One, SetToBag
  <1>2. DOMAIN One(key) = {key} /\ One(key)[key] = 1 BY <1>1
  <1>3. IsFiniteSet({}) /\ key \notin {} /\ {} \cup {key} = {key} BY FS_EmptySet
  <1>4. Natural(One(key), {} \cup {key}) BY <1>2 DEF Natural
  <1>5. SumFunctionOnSet(One(key), {} \cup {key}) = SumFunctionOnSet(One(key), {}) + One(key)[key]
    BY <1>3, <1>4, SumWithNew
  <1>6. SumFunctionOnSet(One(key), {}) = 0 BY SumOfNone
  <1> QED BY <1>2, <1>3, <1>5, <1>6, SizeIsSum

(* A bag's counts, extended by zeros, have the same sum.                   *)
LEMMA SizeExtended ==
    ASSUME NEW b, Finite(b), NEW D, IsFiniteSet(D), DOMAIN b \subseteq D, NEW f,
           \A e \in D : f[e] = IF e \in DOMAIN b THEN b[e] ELSE 0
    PROVE  Natural(f, D) /\ SumFunctionOnSet(f, D) = Size(b)
  <1>1. IsFiniteSet(DOMAIN b) /\ Natural(b, DOMAIN b) BY FiniteSums
  <1>2. Natural(f, D) BY <1>1 DEF Natural
  <1>3. \A e \in D \ DOMAIN b : f[e] = 0 OBVIOUS
  <1>4. SumFunctionOnSet(f, D) = SumFunctionOnSet(f, DOMAIN b)
    BY <1>2, <1>3, SumOfZeros
  <1>5. \A e \in DOMAIN b : f[e] = b[e] OBVIOUS
  <1>6. SumFunctionOnSet(f, DOMAIN b) = SumFunctionOnSet(b, DOMAIN b)
    BY <1>1, <1>5, SumOfSame
  <1> QED BY <1>2, <1>4, <1>6, SizeIsSum

LEMMA SizeOfPlus ==
    ASSUME NEW a, NEW b, Finite(a), Finite(b)
    PROVE  Size(a (+) b) = Size(a) + Size(b)
  <1> DEFINE D == DOMAIN a \cup DOMAIN b
             f == [e \in D |-> IF e \in DOMAIN a THEN a[e] ELSE 0]
             g == [e \in D |-> IF e \in DOMAIN b THEN b[e] ELSE 0]
             h == a (+) b
  <1>1. h = [e \in D |-> (IF e \in DOMAIN a THEN a[e] ELSE 0)
                            + (IF e \in DOMAIN b THEN b[e] ELSE 0)]
    BY DEF (+)
  <1>2. DOMAIN h = D BY <1>1
  <1>3. \A e \in D : h[e] = f[e] + g[e] BY <1>1
  <1>4. /\ \A e \in D : f[e] = IF e \in DOMAIN a THEN a[e] ELSE 0
        /\ \A e \in D : g[e] = IF e \in DOMAIN b THEN b[e] ELSE 0
    OBVIOUS
  <1>5. IsFiniteSet(D) BY FS_Union DEF Finite
  <1>6. DOMAIN a \subseteq D /\ DOMAIN b \subseteq D OBVIOUS
  <1> HIDE DEF D, f, g, h
  <1>7. Natural(f, D) /\ SumFunctionOnSet(f, D) = Size(a) BY <1>4, <1>5, <1>6, SizeExtended
  <1>8. Natural(g, D) /\ SumFunctionOnSet(g, D) = Size(b) BY <1>4, <1>5, <1>6, SizeExtended
  <1>9. SumFunctionOnSet(h, D) = SumFunctionOnSet(f, D) + SumFunctionOnSet(g, D)
    BY <1>3, <1>5, <1>7, <1>8, SumOfSums
  <1>10. Size(h) = SumFunctionOnSet(h, D) BY <1>2, SizeIsSum
  <1> QED BY <1>7, <1>8, <1>9, <1>10 DEF h

(* A map that has less than n keys after keepTopN lost none.               *)
LEMMA FewKeysKept ==
    ASSUME NEW m, Finite(m), NEW n \in Nat, NEW t \in keepTopN(m, n),
           Cardinality(Keys(t)) < n
    PROVE  t = m
  <1>1. CASE Cardinality(Keys(m)) <= n BY <1>1 DEF keepTopN
  <1>2. CASE ~(Cardinality(Keys(m)) <= n)
    <2>1. PICK S \in Largest(m, n) : t = Only(m, S) BY <1>2 DEF keepTopN
    <2>2. S \subseteq Keys(m) /\ Cardinality(S) = n BY <2>1 DEF Largest
    <2>3. DOMAIN t = S BY <2>1, <2>2 DEF Only
    <2> QED BY <2>2, <2>3 DEF Keys
  <1> QED BY <1>1, <1>2

----------------------------------------------------------------------------
(* Every connection that is kept, merged or shown has been counted for an  *)
(* ASN, in the pass, in the map, and in the map as it was exported.        *)

ConnsCounted ==
    /\ kept <= Size(delta["asn"])
    /\ "asn" \notin cut =>
         /\ conns <= Size(counts["asn"])
         /\ step \in 1..4 => shown <= Size(counts["asn"])
         /\ step \in 5..7 /\ Cardinality(Keys(exported["asn"])) < MaxTracked["asn"]
              => shown <= Size(exported["asn"])

Asn == "asn" \in Families /\ MaxTracked["asn"] \in Nat

LEMMA AsnIsFamily == Asn
  BY LimitsAssumption DEF Families, Asn

(* Whoever counts a user connection counts an ASN, known or not.           *)
LEMMA ConnsOfLine ==
    ASSUME TypesInv, ConnsCounted, ProcessLine
    PROVE  ConnsCounted'
  <1>1. UNCHANGED <<counts, cut, conns, step, exported, shown>>
    BY DEF ProcessLine, DropLine, TakeLine, FilterTarget, FilterClient, mapVars, scrapeVars
  <1>2. \/ kept' = kept /\ delta'["asn"] = delta["asn"]
        \/ /\ kept' = kept + 1
           /\ \E ip \in Addresses : delta'["asn"] = delta["asn"] (+) One(ASN(ip))
    <2>0. delta = [f \in Families |-> delta[f]] /\ "asn" \in Families
      BY AsnIsFamily DEF TypesInv, CountInv, AllFinite, Asn
    <2>1. ASSUME NEW l, NEW family \in {"domain", "ip"}, NEW key, CountRequest(l, family, key)
          PROVE  delta'["asn"] = delta["asn"]
      BY <2>0, <2>1 DEF CountRequest
    <2>2. CASE \E l \in Lines : DropLine(l) \/ TakeLine(l)
      BY <2>1, <2>2 DEF DropLine, TakeLine
    <2>3. CASE FilterTarget
      BY <2>1, <2>3 DEF FilterTarget
    <2>4. CASE FilterClient
      <3>1. line.from \in Addresses
        BY <2>4, LinesAssumption DEF FilterClient, TypesInv, CountInv, LineInv
      <3>2. \/ UNCHANGED <<kept, delta>>
            \/ CountUser(line.from, answer'.filtered)
        BY <2>4 DEF FilterClient
      <3> QED BY <2>0, <3>1, <3>2 DEF CountUser
    <2> QED BY <2>2, <2>3, <2>4 DEF ProcessLine
  <1>3. CASE kept' = kept /\ delta'["asn"] = delta["asn"]
    BY <1>1, <1>3 DEF ConnsCounted
  <1>4. CASE /\ kept' = kept + 1
             /\ \E ip \in Addresses : delta'["asn"] = delta["asn"] (+) One(ASN(ip))
    <2>1. PICK ip \in Addresses : delta'["asn"] = delta["asn"] (+) One(ASN(ip)) BY <1>4
    <2>2. ASN(ip) # NoKey BY ASNAssumption DEF ASN
    <2>3. Finite(delta["asn"]) BY AsnIsFamily DEF TypesInv, CountInv, AllFinite, Asn
    <2>4. Size(delta'["asn"]) = Size(delta["asn"]) + 1 /\ Size(delta["asn"]) \in Nat
      BY <2>1, <2>2, <2>3, OneFinite, SizeOfOne, SizeOfPlus, FiniteSums
    <2>5. kept \in Nat BY DEF TypesInv, PlacesTyped
    <2>6. kept' <= Size(delta'["asn"]) BY <1>4, <2>4, <2>5 DEF ConnsCounted
    <2> QED BY <1>1, <2>6 DEF ConnsCounted
  <1> QED BY <1>2, <1>3, <1>4

LEMMA ConnsOfPass ==
    ASSUME TypesInv, ConnsCounted, BeginPass \/ PassFails \/ EndPass \/ checkEmergencyCleanup
    PROVE  ConnsCounted'
  <1>1. UNCHANGED <<cut, step, exported, shown>>
    BY DEF BeginPass, PassFails, EndPass, checkEmergencyCleanup, mapVars, scrapeVars
  <1>2. Finite(delta["asn"]) /\ Finite(counts["asn"])
    BY AsnIsFamily DEF TypesInv, CountInv, AllFinite, Asn
  <1>3. Size(Empty["asn"]) = 0 BY AsnIsFamily, SizeOfEmpty DEF Empty, Asn
  <1>4. CASE BeginPass \/ EndPass
    <2>1. kept' = 0 /\ delta' = Empty BY <1>4 DEF BeginPass, EndPass
    <2>2. kept' <= Size(delta'["asn"]) BY <1>3, <2>1
    <2>3. CASE UNCHANGED <<counts, conns>> BY <1>1, <2>2, <2>3 DEF ConnsCounted
    <2>4. CASE EndPass
      <3>1. counts' = Plus(counts, delta) /\ conns' = conns + kept
        BY <2>4 DEF EndPass, mergeDelta
      <3>2. counts'["asn"] = counts["asn"] (+) delta["asn"]
        BY <3>1, AsnIsFamily DEF Plus, Asn
      <3>3. Size(counts'["asn"]) = Size(counts["asn"]) + Size(delta["asn"])
        BY <1>2, <3>2, SizeOfPlus
      <3>4. /\ Size(counts["asn"]) \in Nat /\ Size(delta["asn"]) \in Nat
            /\ conns \in Nat /\ kept \in Nat /\ shown \in Nat
        BY <1>2, FiniteSums DEF TypesInv, PlacesTyped
      <3>5. "asn" \notin cut => conns' <= Size(counts'["asn"])
        BY <3>1, <3>3, <3>4 DEF ConnsCounted
      <3>6. "asn" \notin cut /\ step \in 1..4 => shown <= Size(counts'["asn"])
        BY <3>3, <3>4 DEF ConnsCounted
      <3> QED BY <1>1, <2>2, <3>5, <3>6 DEF ConnsCounted
    <2>5. BeginPass => UNCHANGED <<counts, conns>> BY DEF BeginPass, mapVars
    <2> QED BY <1>4, <2>3, <2>4, <2>5
  <1>5. CASE PassFails \/ checkEmergencyCleanup
    <2>1. UNCHANGED <<counts, conns, kept, delta>>
      BY <1>5 DEF PassFails, checkEmergencyCleanup, mapVars
    <2> QED BY <1>1, <2>1 DEF ConnsCounted
  <1> QED BY <1>4, <1>5

LEMMA ConnsOfTrim ==
    ASSUME ConnsCounted, EmergencyCleanup \/ CleanupTick
    PROVE  ConnsCounted'
  <1>1. /\ cut' = cut \cup {f \in Families : counts'[f] # counts[f]}
        /\ UNCHANGED <<delta, kept, conns, step, exported, shown>>
    BY DEF EmergencyCleanup, CleanupTick, trimToTopN, passVars, scrapeVars
  <1>2. "asn" \notin cut' => "asn" \notin cut /\ counts'["asn"] = counts["asn"]
    BY <1>1, AsnIsFamily DEF Asn
  <1> QED BY <1>1, <1>2 DEF ConnsCounted

(* A scrape takes the connections before the counts of the ASNs.           *)
LEMMA ConnsOfScrape ==
    ASSUME TypesInv, ConnsCounted, Collect
    PROVE  ConnsCounted'
  <1>1. UNCHANGED <<delta, kept, counts, cut>>
    BY DEF Collect, collectLogMetrics, collectFamily, EndScrape, passVars, mapVars
  <1>2. step \in 0..7 BY DEF TypesInv, BagsTyped
  <1>3. CASE collectLogMetrics
    <2>1. step = 0 /\ step' = 1 /\ shown' = conns' /\ conns' \in 0..conns
      BY <1>2, <1>3 DEF collectLogMetrics, CollectOrder
    <2>2. conns \in Nat /\ Size(counts["asn"]) \in Nat
      BY AsnIsFamily, FiniteSums DEF TypesInv, PlacesTyped, CountInv, AllFinite, Asn
    <2>3. "asn" \notin cut => conns' <= Size(counts["asn"])
      BY <2>1, <2>2 DEF ConnsCounted
    <2>4. step' \notin 5..7 BY <2>1
    <2> QED BY <1>1, <2>1, <2>3, <2>4 DEF ConnsCounted
  <1>4. CASE \E f \in Families : collectFamily(f)
    <2>1. PICK f \in Families : collectFamily(f) BY <1>4
    <2>2. UNCHANGED <<conns, shown>> /\ step' = step + 1 /\ step < 7 /\ CollectOrder[step + 1] = f
      BY <2>1, SevenToCollect DEF collectFamily
    <2>3. PICK top \in keepTopN(counts[f], MaxTracked[f]) :
              exported' = [exported EXCEPT ![f] = top]
      BY <2>1 DEF collectFamily, topN, GetCounts
    <2>4. exported = [e \in Families |-> exported[e]]
      BY DEF TypesInv, BagsTyped, AllFinite
    <2>5. CASE f = "asn"
      <3>1. step = 4 /\ step' = 5 BY <1>2, <2>2, <2>5 DEF CollectOrder
      <3>2. exported'["asn"] = top BY <2>3, <2>4, <2>5
      <3>3. Finite(counts["asn"]) BY AsnIsFamily DEF TypesInv, CountInv, AllFinite, Asn
      <3>4. Cardinality(Keys(exported'["asn"])) < MaxTracked["asn"]
               => exported'["asn"] = counts["asn"]
        BY <2>3, <2>5, <3>2, <3>3, AsnIsFamily, FewKeysKept DEF Asn
      <3> QED BY <1>1, <2>2, <3>1, <3>4 DEF ConnsCounted
    <2>6. CASE f # "asn"
      <3>1. exported'["asn"] = exported["asn"] BY <2>3, <2>4, <2>6, AsnIsFamily DEF Asn
      <3>2. step # 0 /\ step # 4 BY <1>2, <2>2, <2>6 DEF CollectOrder, Families
      <3>3. (step' \in 1..4 => step \in 1..4) /\ (step' \in 5..7 => step \in 5..7)
        BY <1>2, <2>2, <3>2
      <3> QED BY <1>1, <2>2, <3>1, <3>3 DEF ConnsCounted
    <2> QED BY <2>5, <2>6
  <1>5. CASE EndScrape
    <2>1. step' = 0 /\ conns' = conns BY <1>5 DEF EndScrape
    <2>2. step' \notin 1..4 /\ step' \notin 5..7 BY <2>1
    <2> QED BY <1>1, <2>1, <2>2 DEF ConnsCounted
  <1> QED BY <1>3, <1>4, <1>5 DEF Collect

(* The connections that a scrape shows are all among the ASN counts that   *)
(* it shows, as none was cut, whatever the parser and its trims do between *)
(* the getters: the scrape takes the connections first.                    *)
THEOREM ConnectionsCovered == CountersSpec => []ConnectionsHaveASN
  <1>1. CountersInit => TypesInv /\ ConnsCounted
    <2> SUFFICES ASSUME CountersInit PROVE ConnsCounted
      BY InitTypesInv
    <2>1. /\ delta = Empty /\ counts = Empty /\ kept = 0 /\ conns = 0 /\ step = 0
      BY DEF CountersInit
    <2>2. Size(Empty["asn"]) = 0 BY AsnIsFamily, SizeOfEmpty DEF Empty, Asn
    <2> QED BY <2>1, <2>2 DEF ConnsCounted
  <1>2. TypesInv /\ ConnsCounted /\ [CountersNext]_allVars => TypesInv' /\ ConnsCounted'
    <2> SUFFICES ASSUME TypesInv, ConnsCounted, [CountersNext]_allVars PROVE ConnsCounted'
      BY NextTypesInv
    <2>1. CASE ParseLoop
      BY <2>1, ConnsOfLine, ConnsOfPass, ConnsOfTrim DEF ParseLoop
    <2>2. CASE Collect BY <2>2, ConnsOfScrape
    <2>3. CASE OtherCaller \/ UNCHANGED allVars
      <3>1. UNCHANGED <<delta, kept, counts, cut, conns, step, exported, shown>>
        BY <2>3 DEF OtherCaller, allVars, counterVars, passVars, mapVars, scrapeVars
      <3> QED BY <3>1 DEF ConnsCounted
    <2> QED BY <2>1, <2>2, <2>3 DEF CountersNext
  <1>3. TypesInv /\ ConnsCounted => ConnectionsHaveASN
    <2> SUFFICES ASSUME TypesInv, ConnsCounted, NEW i \in 1..step, CollectOrder[i] = "asn",
                        "asn" \notin cut, Cardinality(Keys(exported["asn"])) < MaxTracked["asn"]
                 PROVE  shown <= SumFunction(exported["asn"])
      BY DEF ConnectionsHaveASN
    <2>1. step \in 0..7 BY DEF TypesInv, BagsTyped
    <2>2. i \in 1..7 BY <2>1
    <2>3. i = 5 BY <2>2 DEF CollectOrder
    <2>4. step \in 5..7 BY <2>1, <2>3
    <2> QED BY <2>4 DEF ConnsCounted, Size
  <1> QED BY <1>1, <1>2, <1>3, PTL DEF CountersSpec
====
