---- MODULE Billing_proofs ----
(***************************************************************************)
(* Proofs about Billing for all sets of names and all answers of Xray and  *)
(* of Accounts: an email is billed only where Accounts gave it no UUID,    *)
(* every account for what its names used, and no traffic is lost.          *)
(***************************************************************************)
EXTENDS Billing, Sums, SequenceTheorems, TLAPS

(* The answer of Accounts, which nothing changes after the start, and the  *)
(* place of the loop in it.                                                *)
PayloadOK == payload \in Seq(Identities) /\ n \in Nat

(* What FetchIdentities indexed are answers of Accounts, under their keys. *)
Indexed(key) ==
    /\ identities[key] \in Range(payload) /\ identities[key] \in Identities
    /\ key \in Keys(identities[key])

IndexOK == \A key \in DOMAIN identities : Indexed(key)

(* Only the step of the fetch touches the index, only AddCounter the       *)
(* aggregates, and none the answer.                                        *)
LEMMA Steps ==
    ASSUME [Next]_vars, PayloadOK
    PROVE  /\ payload' = payload /\ PayloadOK'
           /\ IndexIdentity \/ identities' = identities
           /\ AddCounter \/ aggregates' = aggregates
  BY DEF Next, ReadCounter, CountersRead, IndexIdentity, IdentitiesFetched, AddCounter,
         SkipCounter, Normalized, vars, PayloadOK

(* An identity is indexed under its own keys, and the others keep theirs.  *)
LEMMA NextIndexOK ==
    ASSUME PayloadOK, IndexOK, [Next]_vars
    PROVE  IndexOK'
  <1>1. CASE IndexIdentity
    <2> DEFINE identity == payload[n + 1]
    <2>1. n + 1 \in 1..Len(payload) /\ DOMAIN payload = 1..Len(payload)
      BY <1>1, LenProperties DEF PayloadOK, IndexIdentity
    <2>2. identity \in Range(payload) /\ identity \in Identities
      BY <2>1, ElementOfSeq DEF PayloadOK, Range
    <2>3. /\ payload' = payload
          /\ identities' = [key \in DOMAIN identities \cup Keys(identity) |->
                               IF key \in Keys(identity) THEN identity ELSE identities[key]]
      BY <1>1 DEF IndexIdentity
    <2> HIDE DEF identity
    <2>4. ASSUME NEW key \in DOMAIN identities' PROVE Indexed(key)'
      <3>1. CASE key \in Keys(identity)
        <4>1. identities'[key] = identity BY <2>3, <3>1
        <4> QED BY <2>2, <2>3, <3>1, <4>1 DEF Indexed
      <3>2. CASE key \notin Keys(identity)
        <4>1. key \in DOMAIN identities /\ identities'[key] = identities[key]
          BY <2>3, <2>4, <3>2
        <4> QED BY <2>3, <4>1 DEF Indexed, IndexOK
      <3> QED BY <3>1, <3>2
    <2> QED BY <2>4 DEF IndexOK
  <1>2. CASE identities' = identities
    BY <1>2, Steps DEF IndexOK, Indexed
  <1> QED BY <1>1, <1>2, Steps

(* A counter is billed to an email only if it is a known one without UUID. *)
LEMMA EmailBilledTo ==
    ASSUME IndexOK, NEW id, ~Skipped(id), BilledUUID(id).name \in Emails
    PROVE  [ProxyUUID |-> Empty, AccountUUID |-> Empty, Email |-> BilledUUID(id).name]
              \in Range(payload)
  <1> DEFINE identity == identities[id.name]
  <1>1. ASSUME Known(id)
        PROVE  /\ identity \in Range(payload) /\ identity \in Identities
               /\ id.name \in Keys(identity)
    BY <1>1 DEF Known, IndexOK, Indexed
  <1>2. ASSUME NEW u \in UUIDs PROVE Spelled(u).name \notin Emails
    BY NamesAssumption DEF Spelled
  <1>3. ~(Known(id) /\ identity.AccountUUID # Empty)
    BY <1>1, <1>2 DEF BilledUUID, Identities
  <1>4. ~(Known(id) /\ identity.ProxyUUID # Empty)
    BY <1>1, <1>2, <1>3 DEF BilledUUID, Identities
  <1>5. BilledUUID(id) = id
    BY <1>3, <1>4 DEF BilledUUID
  <1>6. Known(id) /\ id.name \in Emails
    BY <1>5 DEF Skipped
  <1>7. identity.AccountUUID = Empty /\ identity.ProxyUUID = Empty
    BY <1>3, <1>4, <1>6
  <1>8. identity.Email = id.name
    BY <1>1, <1>6, <1>7, NamesAssumption DEF Keys, Names
  <1>9. identity = [ProxyUUID |-> Empty, AccountUUID |-> Empty, Email |-> id.name]
    BY <1>1, <1>6, <1>7, <1>8 DEF Identities
  <1> QED BY <1>1, <1>5, <1>6, <1>9

(* An email reaches the billing tables only if Accounts itself returned an *)
(* identity of that email with neither UUID, whatever else it returned and *)
(* Xray counted: this is how far the promise of normalize's comment goes.  *)
THEOREM EmailsKept == Spec => []EmailBilledOnlyWithoutUUID
  <1> DEFINE I == PayloadOK /\ IndexOK /\ EmailBilledOnlyWithoutUUID
  <1>1. Init => I
    <2> SUFFICES ASSUME Init PROVE I
      OBVIOUS
    <2>1. PayloadOK
      BY BoundsAssumption DEF Init, PayloadOK
    <2>2. DOMAIN identities = {} /\ DOMAIN aggregates = {}
      BY DEF Init
    <2> QED BY <2>1, <2>2 DEF IndexOK, EmailBilledOnlyWithoutUUID
  <1>2. I /\ [Next]_vars => I'
    <2> SUFFICES ASSUME I, [Next]_vars PROVE EmailBilledOnlyWithoutUUID'
      BY Steps, NextIndexOK
    <2>1. payload' = payload
      BY Steps
    <2>2. CASE AddCounter
      <3>1. PICK id : /\ ~Skipped(id)
                      /\ DOMAIN aggregates' = DOMAIN aggregates \cup {BilledUUID(id)}
        <4>1. ~Skipped(counters[n + 1].identifier)
          BY <2>2 DEF AddCounter
        <4>2. DOMAIN aggregates'
                = DOMAIN aggregates \cup {BilledUUID(counters[n + 1].identifier)}
          BY <2>2 DEF AddCounter
        <4> QED BY <4>1, <4>2
      <3> QED BY <2>1, <3>1, EmailBilledTo DEF EmailBilledOnlyWithoutUUID
    <2>3. CASE aggregates' = aggregates
      BY <2>1, <2>3 DEF EmailBilledOnlyWithoutUUID
    <2> QED BY <2>2, <2>3, Steps
  <1> QED BY <1>1, <1>2, PTL DEF Spec

----------------------------------------------------------------------------
(* The types.                                                              *)

(* What is billed is an identifier that may be billed, whoever it is.      *)
LEMMA BilledTyped ==
    ASSUME TypeOK, NEW id \in Identifiers
    PROVE  BilledUUID(id) \in Identifiers /\ Aggregate(id) \in Aggregates
  <1>1. \A u \in UUIDs : Spelled(u) \in Identifiers BY DEF Spelled, Identifiers, Names
  <1>2. Known(id) => identities[id.name] \in Identities BY DEF TypeOK, Known
  <1>3. BilledUUID(id) \in Identifiers
    BY <1>1, <1>2 DEF BilledUUID, Identities
  <1>4. Email(id) \in Emails \cup {Empty} BY <1>2 DEF Email, Identities
  <1>5. [email |-> Email(id), uplink |-> 0, downlink |-> 0] \in Aggregates
    BY <1>4 DEF Aggregates
  <1> QED BY <1>3, <1>5 DEF Aggregate, TypeOK

(* Adding bytes in either direction gives an aggregate again.              *)
LEMMA AddedTyped ==
    ASSUME NEW a \in Aggregates, NEW d \in Directions, NEW v \in Nat
    PROVE  [a EXCEPT ![d] = @ + v] \in Aggregates
  <1>1. CASE d = "uplink" BY <1>1 DEF Aggregates
  <1>2. CASE d = "downlink" BY <1>2 DEF Aggregates
  <1> QED BY <1>1, <1>2 DEF Directions

LEMMA NextTypeOK == ASSUME TypeOK, [Next]_vars PROVE TypeOK'
  <1>1. /\ Len(stats) \in Nat /\ \A i \in 1..Len(stats) : stats[i] \in Stats
        /\ Len(payload) \in Nat /\ \A i \in 1..Len(payload) : payload[i] \in Identities
        /\ Len(counters) \in Nat /\ \A i \in 1..Len(counters) : counters[i] \in Stats
        /\ n \in Nat /\ n + 1 \in Nat
    BY ElementOfSeq, LenProperties DEF TypeOK
  <1>2. CASE ReadCounter
    <2>1. stats[n + 1] \in Stats BY <1>1, <1>2 DEF ReadCounter
    <2>2. counters' \in Seq(Stats) BY <1>2, <2>1, AppendProperties DEF ReadCounter, TypeOK
    <2> QED BY <1>1, <1>2, <2>2 DEF ReadCounter, TypeOK
  <1>3. CASE CountersRead \/ IdentitiesFetched \/ Normalized \/ SkipCounter
    BY <1>1, <1>3 DEF CountersRead, IdentitiesFetched, Normalized, SkipCounter, TypeOK
  <1>4. CASE IndexIdentity
    <2> DEFINE identity == payload[n + 1]
    <2>1. identity \in Identities BY <1>1, <1>4 DEF IndexIdentity
    <2>2. Keys(identity) \subseteq Names BY <2>1 DEF Keys, Identities, Names
    <2>3. /\ identities' = [key \in DOMAIN identities \cup Keys(identity) |->
                               IF key \in Keys(identity) THEN identity ELSE identities[key]]
          /\ n' = n + 1 /\ UNCHANGED <<stats, payload, pc, counters, aggregates>>
      BY <1>4 DEF IndexIdentity
    <2> HIDE DEF identity
    <2>4. /\ DOMAIN identities' \subseteq Names
          /\ \A key \in DOMAIN identities' : identities'[key] \in Identities
      BY <2>1, <2>2, <2>3 DEF TypeOK
    <2> QED BY <1>1, <2>3, <2>4 DEF TypeOK
  <1>5. CASE AddCounter
    <2> DEFINE c == counters[n + 1]
               uuid == BilledUUID(c.identifier)
               sum == [Aggregate(c.identifier) EXCEPT ![c.direction] = @ + c.value]
    <2>1. c \in Stats BY <1>1, <1>5 DEF AddCounter
    <2>2. c.identifier \in Identifiers /\ c.direction \in Directions /\ c.value \in Nat
      BY <2>1 DEF Stats
    <2>3. /\ aggregates' = [key \in DOMAIN aggregates \cup {uuid} |->
                               IF key = uuid THEN sum ELSE aggregates[key]]
          /\ n' = n + 1 /\ UNCHANGED <<stats, payload, pc, counters, identities>>
      BY <1>5 DEF AddCounter
    <2>4. uuid \in Identifiers /\ sum \in Aggregates
      BY <2>2, BilledTyped, AddedTyped
    <2> HIDE DEF c, uuid, sum
    <2>5. /\ DOMAIN aggregates' \subseteq Identifiers
          /\ \A key \in DOMAIN aggregates' : aggregates'[key] \in Aggregates
      BY <2>3, <2>4 DEF TypeOK
    <2> QED BY <1>1, <2>3, <2>5 DEF TypeOK
  <1>6. CASE UNCHANGED vars
    BY <1>6 DEF vars, TypeOK
  <1> QED BY <1>2, <1>3, <1>4, <1>5, <1>6 DEF Next

LEMMA InitTypeOK == ASSUME Init PROVE TypeOK
  <1>1. stats \in Seq(Stats)
    <2>1. PICK k \in 0..MaxStats :
            \E s \in [1..k -> Identifiers \X Directions \X {"user"}
                             \cup {Spelled(u) : u \in UUIDs} \X {"uplink"} \X {"inbound"}] :
               stats = [i \in 1..k |-> [identifier |-> s[i][1], direction |-> s[i][2],
                                       dimension |-> s[i][3], value |-> i]]
      BY DEF Init
    <2>2. PICK s \in [1..k -> Identifiers \X Directions \X {"user"}
                             \cup {Spelled(u) : u \in UUIDs} \X {"uplink"} \X {"inbound"}] :
               stats = [i \in 1..k |-> [identifier |-> s[i][1], direction |-> s[i][2],
                                       dimension |-> s[i][3], value |-> i]]
      BY <2>1
    <2>3. \A u \in UUIDs : Spelled(u) \in Identifiers BY DEF Spelled, Identifiers, Names
    <2>4. ASSUME NEW i \in 1..k
          PROVE  [identifier |-> s[i][1], direction |-> s[i][2],
                  dimension |-> s[i][3], value |-> i] \in Stats
      <3>1. \/ s[i] \in Identifiers \X Directions \X {"user"}
            \/ s[i] \in {Spelled(u) : u \in UUIDs} \X {"uplink"} \X {"inbound"}
        BY <2>2
      <3>2. /\ s[i][1] \in Identifiers /\ s[i][2] \in Directions
            /\ s[i][3] \in {"user", "inbound"}
        BY <2>3, <3>1 DEF Directions
      <3>3. i \in Nat BY <2>1
      <3> QED BY <3>2, <3>3 DEF Stats
    <2>5. k \in Nat BY BoundsAssumption
    <2> QED BY <2>2, <2>4, <2>5
  <1>2. payload \in Seq(Identities) BY BoundsAssumption DEF Init
  <1>3. counters \in Seq(Stats) BY DEF Init
  <1>4. DOMAIN identities = {} /\ DOMAIN aggregates = {} BY DEF Init
  <1> QED BY <1>1, <1>2, <1>3, <1>4 DEF Init, TypeOK

(* Whatever Xray and Accounts answer: names are looked up under names,     *)
(* bytes are billed to identifiers as Xray or Accounts spell them, and     *)
(* sums of bytes are numbers.                                              *)
THEOREM BillingTypeCorrect == Spec => []TypeOK
  <1>1. Init => TypeOK BY InitTypeOK
  <1>2. TypeOK /\ [Next]_vars => TypeOK' BY NextTypeOK
  <1> QED BY <1>1, <1>2, PTL DEF Spec

----------------------------------------------------------------------------
(* The bytes of the first k of some counters that are in a set Q, and what *)
(* one more of them adds.                                                  *)

Values(c) == [i \in DOMAIN c |-> c[i].value]
Total(c, k, Q) == SumFunctionOnSet(Values(c), {i \in 1..k : c[i] \in Q})
ValueIn(s, Q) == IF s \in Q THEN s.value ELSE 0

LEMMA TotalSums ==
    ASSUME NEW c \in Seq(Stats), NEW k \in 0..Len(c), NEW Q
    PROVE  /\ IsFiniteSet({i \in 1..k : c[i] \in Q})
           /\ Natural(Values(c), {i \in 1..k : c[i] \in Q})
           /\ Total(c, k, Q) \in Nat
  <1>1. k \in Nat /\ 1..k \subseteq 1..Len(c) /\ DOMAIN c = 1..Len(c) BY LenProperties
  <1>2. IsFiniteSet({i \in 1..k : c[i] \in Q}) BY <1>1, FS_Interval, FS_Subset
  <1>3. \A i \in 1..k : c[i] \in Stats BY <1>1, ElementOfSeq
  <1>4. \A i \in 1..k : Values(c)[i] \in Nat BY <1>1, <1>3 DEF Values, Stats
  <1>5. Natural(Values(c), {i \in 1..k : c[i] \in Q}) BY <1>4 DEF Natural
  <1> QED BY <1>2, <1>5, SumNatural DEF Total

LEMMA TotalOfNone == ASSUME NEW c, NEW Q PROVE Total(c, 0, Q) = 0
  <1>1. {i \in 1..0 : c[i] \in Q} = {} OBVIOUS
  <1> QED BY <1>1, SumOfNone DEF Total

LEMMA TotalOfNext ==
    ASSUME NEW c \in Seq(Stats), NEW k \in Nat, k < Len(c), NEW Q
    PROVE  Total(c, k + 1, Q) = Total(c, k, Q) + ValueIn(c[k + 1], Q)
  <1> DEFINE R(l) == {i \in 1..l : c[i] \in Q}
  <1>1. k \in 0..Len(c) /\ k + 1 \in 0..Len(c) /\ k + 1 \in 1..Len(c) /\ DOMAIN c = 1..Len(c)
    BY LenProperties
  <1>2. Values(c)[k + 1] = c[k + 1].value BY <1>1 DEF Values
  <1>3. \A i \in 1..(k + 1) : i \in 1..k \/ i = k + 1 BY <1>1
  <1>4. k + 1 \notin 1..k /\ \A i \in 1..k : i \in 1..(k + 1) BY <1>1
  <1>5. CASE c[k + 1] \in Q
    <2>1. R(k + 1) = R(k) \cup {k + 1} /\ k + 1 \notin R(k) BY <1>1, <1>3, <1>4, <1>5
    <2>2. IsFiniteSet(R(k)) /\ Natural(Values(c), R(k) \cup {k + 1})
      <3>1. IsFiniteSet(R(k)) /\ Natural(Values(c), R(k + 1)) BY <1>1, TotalSums
      <3> QED BY <2>1, <3>1
    <2>3. k + 1 \notin R(k) BY <2>1
    <2> HIDE DEF R
    <2>4. PICK r : r = R(k) OBVIOUS
    <2>5. SumFunctionOnSet(Values(c), r \cup {k + 1})
            = SumFunctionOnSet(Values(c), r) + Values(c)[k + 1]
      BY <2>2, <2>3, <2>4, SumWithNew
    <2> QED BY <1>2, <1>5, <2>1, <2>4, <2>5 DEF R, Total, ValueIn
  <1>6. CASE c[k + 1] \notin Q
    <2>1. R(k + 1) = R(k) BY <1>1, <1>3, <1>4, <1>6
    <2>2. Total(c, k, Q) \in Nat BY <1>1, TotalSums
    <2>3. Total(c, k + 1, Q) = Total(c, k, Q) BY <2>1 DEF Total
    <2> QED BY <1>6, <2>2, <2>3 DEF ValueIn
  <1> QED BY <1>5, <1>6

(* A counter more at the end adds its bytes if it is in the set.           *)
LEMMA TotalOfAppended ==
    ASSUME NEW c \in Seq(Stats), NEW s \in Stats, NEW Q
    PROVE  Total(Append(c, s), Len(Append(c, s)), Q) = Total(c, Len(c), Q) + ValueIn(s, Q)
  <1> DEFINE d == Append(c, s)
             m == Len(c)
  <1>1. /\ d \in Seq(Stats) /\ Len(d) = m + 1 /\ d[m + 1] = s /\ m \in Nat
        /\ \A i \in 1..m : d[i] = c[i]
        /\ DOMAIN c = 1..m /\ DOMAIN d = 1..(m + 1)
    BY AppendProperties, LenProperties
  <1> HIDE DEF d, m
  <1>2. m < Len(d) BY <1>1
  <1>3. Total(d, m + 1, Q) = Total(d, m, Q) + ValueIn(s, Q) BY <1>1, <1>2, TotalOfNext
  <1> DEFINE R == {i \in 1..m : c[i] \in Q}
  <1>4. {i \in 1..m : d[i] \in Q} = R BY <1>1
  <1>5. \A i \in R : Values(d)[i] = Values(c)[i]
    <2>1. \A i \in 1..m : i \in 1..(m + 1) BY <1>1
    <2> QED BY <1>1, <2>1 DEF Values
  <1>6. IsFiniteSet(R) /\ Natural(Values(c), R)
    <2>1. m \in 0..Len(c) BY <1>1 DEF m
    <2> QED BY <2>1, TotalSums
  <1>7. Total(d, m, Q) = Total(c, m, Q)
    <2>1. Total(d, m, Q) = SumFunctionOnSet(Values(d), R) BY <1>4 DEF Total
    <2>2. Total(c, m, Q) = SumFunctionOnSet(Values(c), R) BY DEF Total
    <2> HIDE DEF R
    <2> QED BY <1>5, <1>6, <2>1, <2>2, SumOfSame
  <1> QED BY <1>1, <1>3, <1>7 DEF d, m

----------------------------------------------------------------------------
(* What FetchIdentities looks up, told by the answer of Accounts alone.    *)

KeysTo(k) == {key \in Names : \E i \in 1..k : key \in Keys(payload[i])}
IndexedAll ==
    /\ pc = "querying" => DOMAIN identities = {}
    /\ pc = "fetching" => n <= Len(payload) /\ DOMAIN identities = KeysTo(n)
    /\ pc \in {"normalizing", "done"} => DOMAIN identities = KeysTo(Len(payload))

LEMMA NextIndexedAll == ASSUME TypeOK, IndexedAll, [Next]_vars PROVE IndexedAll'
  <1>1. /\ Len(payload) \in Nat /\ n \in Nat
        /\ \A i \in 1..Len(payload) : payload[i] \in Identities
    BY ElementOfSeq, LenProperties DEF TypeOK
  <1>2. CASE ReadCounter \/ UNCHANGED vars \/ AddCounter \/ SkipCounter \/ Normalized
    BY <1>2 DEF ReadCounter, vars, AddCounter, SkipCounter, Normalized, IndexedAll, KeysTo
  <1>3. CASE CountersRead
    <2>1. KeysTo(0) = {} BY DEF KeysTo
    <2> QED BY <1>1, <1>3, <2>1 DEF CountersRead, IndexedAll, KeysTo
  <1>4. CASE IdentitiesFetched
    BY <1>4 DEF IdentitiesFetched, IndexedAll, KeysTo
  <1>5. CASE IndexIdentity
    <2> DEFINE identity == payload[n + 1]
    <2>1. n < Len(payload) /\ pc = "fetching" /\ pc' = pc /\ n' = n + 1 /\ payload' = payload
      BY <1>5 DEF IndexIdentity
    <2>2. DOMAIN identities' = DOMAIN identities \cup Keys(identity) BY <1>5 DEF IndexIdentity
    <2>3. Keys(identity) \subseteq Names BY <1>1, <2>1 DEF Keys, Identities, Names
    <2>4. \A i \in 1..(n + 1) : i \in 1..n \/ i = n + 1 BY <1>1
    <2>5. n + 1 \in 1..(n + 1) /\ \A i \in 1..n : i \in 1..(n + 1) BY <1>1
    <2>6. KeysTo(n + 1) = KeysTo(n) \cup Keys(identity) BY <2>3, <2>4, <2>5 DEF KeysTo
    <2>7. DOMAIN identities' = KeysTo(n + 1) BY <2>1, <2>2, <2>6 DEF IndexedAll
    <2>8. KeysTo(n)' = KeysTo(n + 1) BY <2>1 DEF KeysTo
    <2> QED BY <1>1, <2>1, <2>7, <2>8 DEF IndexedAll
  <1> QED BY <1>2, <1>3, <1>4, <1>5 DEF Next

----------------------------------------------------------------------------
(* What TrafficCounters keeps: all of what Xray reported for users.        *)

UserStats == {s \in Stats : s.dimension = "user"}
StatsRead == IF pc = "querying" THEN n ELSE Len(stats)
ReadAll ==
    /\ pc = "querying" => n <= Len(stats)
    /\ \A i \in 1..Len(counters) : counters[i].dimension = "user"
    /\ UserTrafficMetrics => \A Q \in SUBSET UserStats :
         Total(counters, Len(counters), Q) = Total(stats, StatsRead, Q)

LEMMA NextReadAll == ASSUME TypeOK, ReadAll, [Next]_vars PROVE ReadAll'
  <1>1. /\ Len(stats) \in Nat /\ n \in Nat /\ stats \in Seq(Stats) /\ counters \in Seq(Stats)
        /\ \A i \in 1..Len(stats) : stats[i] \in Stats
    BY ElementOfSeq, LenProperties DEF TypeOK
  <1>2. CASE ReadCounter
    <2> DEFINE s == stats[n + 1]
    <2>1. /\ n < Len(stats) /\ pc = "querying" /\ pc' = pc /\ n' = n + 1 /\ stats' = stats
          /\ counters' = IF UserTraffic(s) THEN Append(counters, s) ELSE counters
      BY <1>2 DEF ReadCounter
    <2>2. s \in Stats BY <1>1, <2>1
    <2> HIDE DEF s
    <2>3. \A Q : Total(stats, n + 1, Q) = Total(stats, n, Q) + ValueIn(s, Q)
      BY <1>1, <2>1, TotalOfNext DEF s
    <2>4. ASSUME NEW i \in 1..Len(counters') PROVE counters'[i].dimension = "user"
      <3>1. CASE UserTraffic(s)
        <4>1. /\ counters' = Append(counters, s) /\ Len(counters') = Len(counters) + 1
              /\ \A j \in 1..Len(counters) : counters'[j] = counters[j]
              /\ counters'[Len(counters) + 1] = s
              /\ Len(counters) \in Nat
          BY <1>1, <2>1, <2>2, <3>1, AppendProperties, LenProperties
        <4>2. i \in 1..Len(counters) \/ i = Len(counters) + 1 BY <2>4, <4>1
        <4> QED BY <3>1, <4>1, <4>2 DEF UserTraffic, ReadAll
      <3>2. CASE ~UserTraffic(s)
        <4>1. counters' = counters BY <2>1, <3>2
        <4> QED BY <2>4, <4>1 DEF ReadAll
      <3> QED BY <3>1, <3>2
    <2>5. ASSUME UserTrafficMetrics, NEW Q \in SUBSET UserStats
          PROVE  Total(counters', Len(counters'), Q) = Total(stats, n + 1, Q)
      <3>1. Total(counters, Len(counters), Q) = Total(stats, n, Q)
        BY <2>1, <2>5 DEF ReadAll, StatsRead
      <3>2. CASE UserTraffic(s)
        BY <1>1, <2>1, <2>2, <2>3, <3>1, <3>2, TotalOfAppended
      <3>3. CASE ~UserTraffic(s)
        <4>1. counters' = counters /\ ValueIn(s, Q) = 0
          BY <2>1, <2>5, <3>3 DEF UserTraffic, UserStats, ValueIn
        <4>2. n \in 0..Len(stats) BY <1>1, <2>1
        <4>3. Total(stats, n, Q) \in Nat BY <1>1, <4>2, TotalSums
        <4> QED BY <2>3, <3>1, <4>1, <4>3
      <3> QED BY <3>2, <3>3
    <2>6. StatsRead' = n + 1 /\ stats' = stats /\ n + 1 <= Len(stats)
      BY <1>1, <2>1 DEF StatsRead
    <2> QED BY <2>1, <2>4, <2>5, <2>6 DEF ReadAll
  <1>3. CASE CountersRead
    <2>1. StatsRead' = StatsRead BY <1>3 DEF CountersRead, StatsRead
    <2> QED BY <1>3, <2>1 DEF CountersRead, ReadAll
  <1>4. CASE UNCHANGED <<stats, counters>> /\ pc # "querying" /\ pc' # "querying"
    BY <1>4 DEF ReadAll, StatsRead
  <1>5. CASE UNCHANGED vars BY <1>5 DEF vars, ReadAll, StatsRead
  <1>6. IndexIdentity \/ IdentitiesFetched \/ AddCounter \/ SkipCounter \/ Normalized
           => UNCHANGED <<stats, counters>> /\ pc # "querying" /\ pc' # "querying"
    BY DEF IndexIdentity, IdentitiesFetched, AddCounter, SkipCounter, Normalized
  <1> QED BY <1>2, <1>3, <1>4, <1>5, <1>6 DEF Next

----------------------------------------------------------------------------
(* Who pays, told by the answer of Accounts, is whom normalize bills.      *)

OneAccount == \A key \in Names : Cardinality(Payers(key)) <= 1
NamesOf(u) == {key \in Names : Payers(key) = {u}}
Billable == UUIDs \cup (Emails \cap DOMAIN identities)

(* The payers of a name are those of the identities that have it as a key. *)
LEMMA PayersAre ==
    ASSUME NEW key \in Names, payload \in Seq(Identities)
    PROVE  \A p : p \in Payers(key) <=> \E i \in 1..Len(payload) :
                       key \in Keys(payload[i]) /\ p = Payer(payload[i])
  <1>1. DOMAIN payload = 1..Len(payload) BY LenProperties
  <1>2. \A identity : key \in {identity.ProxyUUID, identity.AccountUUID, identity.Email}
                        <=> key \in Keys(identity)
    BY NamesAssumption DEF Keys
  <1>3. \A identity : identity \in Range(payload)
                        <=> \E i \in 1..Len(payload) : identity = payload[i]
    BY <1>1 DEF Range
  <1> QED BY <1>2, <1>3 DEF Payers

(* A name of which Accounts says one account at most has no other payer.   *)
LEMMA OnePayer ==
    ASSUME NEW key \in Names, payload \in Seq(Identities), Cardinality(Payers(key)) <= 1,
           NEW p \in Payers(key)
    PROVE  Payers(key) = {p}
  <1> DEFINE f == [i \in 1..Len(payload) |-> Payer(payload[i])]
             T == {f[i] : i \in 1..Len(payload)}
  <1>1. IsFiniteSet(1..Len(payload)) BY LenProperties, FS_Interval
  <1>2. f \in Surjection(1..Len(payload), T) BY DEF Surjection
  <1>3. IsFiniteSet(T) BY <1>1, <1>2, FS_Surjection
  <1>4. Payers(key) \subseteq T
    <2>1. ASSUME NEW q \in Payers(key) PROVE q \in T
      <3>1. PICK i \in 1..Len(payload) : q = Payer(payload[i]) BY <2>1, PayersAre
      <3>2. f[i] = q BY <3>1
      <3> QED BY <3>2
    <2> QED BY <2>1
  <1>5. IsFiniteSet(Payers(key)) BY <1>3, <1>4, FS_Subset
  <1>6. /\ IsFiniteSet(Payers(key) \ {p}) /\ Cardinality(Payers(key) \ {p}) \in Nat
        /\ Cardinality(Payers(key)) \in Nat
        /\ Cardinality(Payers(key) \ {p}) = Cardinality(Payers(key)) - 1
    BY <1>5, FS_RemoveElement, FS_CardinalityType
  <1>7. Cardinality(Payers(key) \ {p}) = 0 BY <1>6
  <1>8. Payers(key) \ {p} = {} BY <1>6, <1>7, FS_EmptySet
  <1> QED BY <1>8

(* A counter is billed to an account if its name is one that only this     *)
(* account pays for, and else to another: an identifier that is spelled like*)
(* the account is known, so it is looked up and not billed as it stands.   *)
LEMMA BilledToPayer ==
    ASSUME TypeOK, IndexOK, DOMAIN identities = KeysTo(Len(payload)), OneAccount,
           NEW id \in Identifiers, ~Skipped(id), NEW u \in UUIDs, NamesOf(u) # {}
    PROVE  BilledUUID(id) = Spelled(u) <=> id.name \in NamesOf(u)
  <1> DEFINE identity == identities[id.name]
  <1>0. payload \in Seq(Identities) BY DEF TypeOK
  <1>1. id.name \in Names BY DEF Skipped, Identifiers
  <1>2. ASSUME Known(id)
        PROVE  /\ identity \in Identities /\ id.name \in Keys(identity)
               /\ Payer(identity) \in Payers(id.name)
    <2>1. /\ identity \in Range(payload) /\ identity \in Identities
          /\ id.name \in Keys(identity)
      BY <1>2 DEF Known, IndexOK, Indexed
    <2>2. DOMAIN payload = 1..Len(payload) BY <1>0, LenProperties
    <2>3. PICK i \in 1..Len(payload) : identity = payload[i] BY <2>1, <2>2 DEF Range
    <2> QED BY <1>0, <1>1, <2>1, <2>3, PayersAre
  <1>3. \A x, y \in UUIDs : Spelled(x) = Spelled(y) => x = y BY DEF Spelled
  <1>4. ASSUME NEW key \in Names, NEW p \in Payers(key) PROVE key \in DOMAIN identities
    <2>1. \E i \in 1..Len(payload) : key \in Keys(payload[i]) BY <1>0, <1>4, PayersAre
    <2> QED BY <2>1 DEF KeysTo
  <1>5. ASSUME id.name \in NamesOf(u) PROVE BilledUUID(id) = Spelled(u)
    <2>1. Payers(id.name) = {u} BY <1>5 DEF NamesOf
    <2>2. Known(id) BY <1>1, <1>4, <2>1 DEF Known
    <2>3. Payer(identity) = u /\ u # Empty
      BY <1>2, <2>1, <2>2, NamesAssumption DEF Names
    <2> QED BY <2>2, <2>3 DEF BilledUUID, Payer
  <1>6. ASSUME BilledUUID(id) = Spelled(u), Known(id), Payer(identity) # Empty
        PROVE  id.name \in NamesOf(u)
    <2>1. BilledUUID(id) = Spelled(Payer(identity)) BY <1>6 DEF BilledUUID, Payer
    <2>2. Payer(identity) \in UUIDs BY <1>2, <1>6 DEF Payer, Identities
    <2>3. Payer(identity) = u BY <1>3, <1>6, <2>1, <2>2
    <2>4. Payers(id.name) = {u} BY <1>0, <1>1, <1>2, <1>6, <2>3, OnePayer DEF OneAccount
    <2> QED BY <1>1, <2>4 DEF NamesOf
  <1>7. ASSUME BilledUUID(id) = Spelled(u), ~(Known(id) /\ Payer(identity) # Empty)
        PROVE  FALSE
    <2>1. BilledUUID(id) = id BY <1>7 DEF BilledUUID, Payer
    <2>2. id.name = u BY <1>7, <2>1 DEF Spelled
    <2>3. PICK key \in Names : u \in Payers(key) BY DEF NamesOf
    <2>4. PICK i \in 1..Len(payload) : u = Payer(payload[i]) BY <1>0, <2>3, PayersAre
    <2>5. u # Empty /\ u \in Names BY NamesAssumption DEF Names
    <2>6. u \in Keys(payload[i]) BY <2>4, <2>5 DEF Payer, Keys
    <2>7. Known(id) BY <2>2, <2>5, <2>6 DEF KeysTo, Known
    <2>8. identity.AccountUUID = Empty /\ identity.ProxyUUID = Empty
      BY <1>7, <2>7 DEF Payer
    <2>9. u = identity.Email BY <1>2, <2>2, <2>5, <2>7, <2>8 DEF Keys
    <2> QED BY <1>2, <2>5, <2>7, <2>9, NamesAssumption DEF Identities
  <1> QED BY <1>5, <1>6, <1>7

(* Only what may be billed is.                                             *)
LEMMA SkippedUnbillable ==
    ASSUME NEW id \in Identifiers
    PROVE  Skipped(id) <=> id.name \notin Billable
  BY NamesAssumption DEF Skipped, Billable, Identifiers, Names, Known

----------------------------------------------------------------------------
(* The bytes of aggregates, and what adding a counter to one adds to them. *)

Bytes(a, d) == SumFunction([uuid \in DOMAIN a |-> a[uuid][d]])
BytesAt(a, x, d) == IF x \in DOMAIN a THEN a[x][d] ELSE 0

LEMMA BytesAreSum ==
    ASSUME NEW a, NEW d
    PROVE  Bytes(a, d) = SumFunctionOnSet([uuid \in DOMAIN a |-> a[uuid][d]], DOMAIN a)
  BY DEF Bytes, SumFunction, SumFunctionOnSet, FoldFunction

(* Adding to an aggregate, or starting one, adds as much to all of them.   *)
LEMMA BytesOfAdded ==
    ASSUME NEW a, NEW b, IsFiniteSet(DOMAIN a), NEW x, NEW d, NEW v \in Nat,
           \A y \in DOMAIN a : a[y][d] \in Nat,
           DOMAIN b = DOMAIN a \cup {x}, \A y \in DOMAIN a : y # x => b[y] = a[y],
           b[x][d] = BytesAt(a, x, d) + v
    PROVE  Bytes(b, d) = Bytes(a, d) + v
  <1> DEFINE D == DOMAIN a
             f == [y \in D |-> a[y][d]]
             g == [y \in DOMAIN b |-> b[y][d]]
  <1>1. \A y \in D : f[y] = a[y][d] /\ f[y] \in Nat OBVIOUS
  <1>2. \A y \in D : y # x => g[y] = f[y] OBVIOUS
  <1>3. g[x] = BytesAt(a, x, d) + v OBVIOUS
  <1>4. Bytes(a, d) = SumFunctionOnSet(f, D) /\ Bytes(b, d) = SumFunctionOnSet(g, D \cup {x})
    BY BytesAreSum
  <1>5. IsFiniteSet(D) OBVIOUS
  <1>6. x \in D => BytesAt(a, x, d) = f[x] BY DEF BytesAt
  <1>7. x \notin D => BytesAt(a, x, d) = 0 BY DEF BytesAt
  <1> HIDE DEF D, f, g
  <1>8. Natural(f, D) BY <1>1 DEF Natural
  <1>9. CASE x \in D
    <2>1. D \cup {x} = D BY <1>9
    <2>2. g[x] = f[x] + v /\ \A y \in D \ {x} : g[y] = f[y] BY <1>2, <1>3, <1>6, <1>9
    <2>3. SumFunctionOnSet(g, D) = SumFunctionOnSet(f, D) + v
      BY <1>5, <1>8, <1>9, <2>2, SumOfMore
    <2> QED BY <1>4, <2>1, <2>3
  <1>10. CASE x \notin D
    <2>1. \A y \in D : g[y] = f[y] BY <1>2, <1>10
    <2>2. g[x] = v BY <1>3, <1>7, <1>10
    <2>3. Natural(g, D \cup {x}) BY <1>1, <2>1, <2>2 DEF Natural
    <2>4. SumFunctionOnSet(g, D \cup {x}) = SumFunctionOnSet(g, D) + g[x]
      BY <1>5, <1>10, <2>3, SumWithNew
    <2>5. SumFunctionOnSet(g, D) = SumFunctionOnSet(f, D) BY <1>5, <1>8, <2>1, SumOfSame
    <2> QED BY <1>4, <2>2, <2>4, <2>5
  <1> QED BY <1>9, <1>10

----------------------------------------------------------------------------
(* What normalize has added up so far: the bytes of the counters behind,   *)
(* all that may be billed, and for an account those under its names.       *)

Named(N, d) == {s \in UserStats : s.identifier.name \in N /\ s.direction = d}
BilledAll ==
    /\ IsFiniteSet(DOMAIN aggregates)
    /\ pc \in {"querying", "fetching"} => DOMAIN aggregates = {}
    /\ pc \in {"normalizing", "done"} => n <= Len(counters)
    /\ pc = "done" => n = Len(counters)
    /\ pc \in {"normalizing", "done"} =>
        \A d \in Directions :
            /\ Bytes(aggregates, d) = Total(counters, n, Named(Billable, d))
            /\ OneAccount => \A u \in UUIDs : NamesOf(u) # {} =>
                  Billed(Spelled(u), d) = Total(counters, n, Named(NamesOf(u), d))

(* Names that some account pays for may be billed.                         *)
LEMMA NamesBillable ==
    ASSUME payload \in Seq(Identities), DOMAIN identities = KeysTo(Len(payload)), NEW u
    PROVE  NamesOf(u) \subseteq Billable
  <1>1. ASSUME NEW key \in NamesOf(u) PROVE key \in Names /\ key \in DOMAIN identities
    <2>1. key \in Names /\ u \in Payers(key) BY <1>1 DEF NamesOf
    <2>2. \E i \in 1..Len(payload) : key \in Keys(payload[i]) BY <2>1, PayersAre
    <2> QED BY <2>1, <2>2 DEF KeysTo
  <1> QED BY <1>1 DEF Billable, Names

LEMMA NextBilledAll ==
    ASSUME TypeOK, IndexOK, IndexedAll, ReadAll, BilledAll, [Next]_vars
    PROVE  BilledAll'
  <1>1. /\ Len(counters) \in Nat /\ n \in Nat /\ counters \in Seq(Stats)
        /\ \A i \in 1..Len(counters) : counters[i] \in Stats
    BY ElementOfSeq, LenProperties DEF TypeOK
  <1>2. CASE AddCounter
    <2> DEFINE c == counters[n + 1]
               uuid == BilledUUID(c.identifier)
               v(d) == IF c.direction = d THEN c.value ELSE 0
               sum == [Aggregate(c.identifier) EXCEPT ![c.direction] = @ + c.value]
    <2>1. /\ n < Len(counters) /\ pc = "normalizing" /\ pc' = pc /\ n' = n + 1
          /\ counters' = counters /\ payload' = payload /\ identities' = identities
          /\ ~Skipped(c.identifier)
      BY <1>2 DEF AddCounter
    <2>2. aggregates' = [key \in DOMAIN aggregates \cup {uuid} |->
                             IF key = uuid THEN sum ELSE aggregates[key]]
      BY <1>2 DEF AddCounter
    <2>3. n + 1 \in 1..Len(counters) BY <1>1, <2>1
    <2>4. c \in UserStats /\ c.identifier \in Identifiers /\ c.direction \in Directions
            /\ c.value \in Nat
      BY <1>1, <2>3 DEF ReadAll, UserStats, Stats
    <2>5. uuid \in Identifiers /\ Aggregate(c.identifier) \in Aggregates
      BY <2>4, BilledTyped
    <2>6. ASSUME NEW d \in Directions
          PROVE  v(d) \in Nat /\ sum[d] = BytesAt(aggregates, uuid, d) + v(d)
      <3>1. Aggregate(c.identifier)[d] = BytesAt(aggregates, uuid, d)
        BY <2>6 DEF Aggregate, BytesAt, Directions
      <3>2. sum[d] = IF c.direction = d THEN Aggregate(c.identifier)[d] + c.value
                     ELSE Aggregate(c.identifier)[d]
        <4>1. CASE d = "uplink" BY <2>4, <2>5, <4>1 DEF Aggregates, Directions
        <4>2. CASE d = "downlink" BY <2>4, <2>5, <4>2 DEF Aggregates, Directions
        <4> QED BY <2>6, <4>1, <4>2 DEF Directions
      <3>3. Aggregate(c.identifier)[d] \in Nat
        BY <2>5, <2>6 DEF Aggregates, Directions
      <3> QED BY <2>4, <3>1, <3>2, <3>3
    <2>7. /\ DOMAIN aggregates' = DOMAIN aggregates \cup {uuid}
          /\ \A y \in DOMAIN aggregates : y # uuid => aggregates'[y] = aggregates[y]
          /\ aggregates'[uuid] = sum
      BY <2>2
    <2>8. \A d \in Directions : \A y \in DOMAIN aggregates : aggregates[y][d] \in Nat
      BY DEF TypeOK, Aggregates, Directions
    <2>9. Billable' = Billable BY <2>1 DEF Billable
    <2>10. /\ OneAccount' <=> OneAccount
           /\ \A u : NamesOf(u)' = NamesOf(u)
      BY <2>1 DEF OneAccount, NamesOf, Payers
    <2>11. ASSUME NEW N, NEW d \in Directions
           PROVE  Total(counters, n + 1, Named(N, d))
                    = Total(counters, n, Named(N, d))
                        + IF c.identifier.name \in N THEN v(d) ELSE 0
      <3>1. Total(counters, n + 1, Named(N, d))
              = Total(counters, n, Named(N, d)) + ValueIn(c, Named(N, d))
        BY <1>1, <2>1, TotalOfNext
      <3>2. ValueIn(c, Named(N, d)) = IF c.identifier.name \in N THEN v(d) ELSE 0
        BY <2>4 DEF ValueIn, Named
      <3> QED BY <3>1, <3>2
    <2>12. c.identifier.name \in Billable BY <2>1, <2>4, SkippedUnbillable
    <2>13. ASSUME NEW N, NEW d \in Directions
           PROVE  Total(counters, n, Named(N, d)) \in Nat
      <3>1. n \in 0..Len(counters) BY <1>1, <2>1
      <3> QED BY <1>1, <3>1, TotalSums
    <2>14. ASSUME OneAccount, NEW u \in UUIDs, NamesOf(u) # {}
           PROVE  uuid = Spelled(u) <=> c.identifier.name \in NamesOf(u)
      BY <2>1, <2>4, <2>14, BilledToPayer DEF IndexedAll
    <2> HIDE DEF c, uuid, sum, v
    <2>15. ASSUME NEW d \in Directions
           PROVE  Bytes(aggregates', d) = Total(counters, n + 1, Named(Billable, d))
      <3>1. /\ aggregates'[uuid][d] = BytesAt(aggregates, uuid, d) + v(d)
            /\ v(d) \in Nat /\ IsFiniteSet(DOMAIN aggregates)
        BY <2>6, <2>7 DEF BilledAll
      <3>2. Bytes(aggregates', d) = Bytes(aggregates, d) + v(d)
        BY <2>7, <2>8, <3>1, BytesOfAdded
      <3> QED BY <2>1, <2>11, <2>12, <3>2 DEF BilledAll
    <2>16. ASSUME OneAccount, NEW u \in UUIDs, NamesOf(u) # {}, NEW d \in Directions
           PROVE  Billed(Spelled(u), d)' = Total(counters, n + 1, Named(NamesOf(u), d))
      <3>1. Billed(Spelled(u), d) = BytesAt(aggregates, Spelled(u), d)
        BY DEF Billed, BytesAt
      <3>2. Billed(Spelled(u), d)' = BytesAt(aggregates', Spelled(u), d)
        BY DEF Billed, BytesAt
      <3>3. Billed(Spelled(u), d) = Total(counters, n, Named(NamesOf(u), d))
        BY <2>1, <2>16 DEF BilledAll
      <3>4. CASE uuid = Spelled(u)
        <4>1. Billed(Spelled(u), d)' = Billed(Spelled(u), d) + v(d)
          BY <2>6, <2>7, <3>1, <3>2, <3>4 DEF BytesAt
        <4> QED BY <2>11, <2>14, <2>16, <3>3, <3>4, <4>1
      <3>5. CASE uuid # Spelled(u)
        <4>1. Billed(Spelled(u), d)' = Billed(Spelled(u), d)
          BY <2>7, <3>1, <3>2, <3>5 DEF BytesAt
        <4> QED BY <2>11, <2>13, <2>14, <2>16, <3>3, <3>5, <4>1
      <3> QED BY <3>4, <3>5
    <2>17. IsFiniteSet(DOMAIN aggregates') BY <2>7, FS_AddElement DEF BilledAll
    <2> QED BY <1>1, <2>1, <2>9, <2>10, <2>15, <2>16, <2>17 DEF BilledAll
  <1>3. CASE SkipCounter
    <2> DEFINE c == counters[n + 1]
    <2>1. /\ n < Len(counters) /\ pc = "normalizing" /\ pc' = pc /\ n' = n + 1
          /\ UNCHANGED <<counters, payload, identities, aggregates>>
          /\ Skipped(c.identifier)
      BY <1>3 DEF SkipCounter
    <2>2. n \in 0..Len(counters) /\ n + 1 \in 1..Len(counters) BY <1>1, <2>1
    <2>3. c.identifier \in Identifiers BY <1>1, <2>2 DEF Stats
    <2>4. c.identifier.name \notin Billable BY <2>1, <2>3, SkippedUnbillable
    <2>5. \A u : c.identifier.name \notin NamesOf(u)
      BY <2>1, <2>4, NamesBillable DEF TypeOK, IndexedAll
    <2>6. ASSUME NEW N, NEW d, c.identifier.name \notin N
          PROVE  Total(counters, n + 1, Named(N, d)) = Total(counters, n, Named(N, d))
      <3>1. Total(counters, n + 1, Named(N, d))
              = Total(counters, n, Named(N, d)) + ValueIn(c, Named(N, d))
        BY <1>1, <2>1, TotalOfNext
      <3>2. ValueIn(c, Named(N, d)) = 0 BY <2>6 DEF ValueIn, Named
      <3>3. Total(counters, n, Named(N, d)) \in Nat BY <1>1, <2>2, TotalSums
      <3> QED BY <3>1, <3>2, <3>3
    <2> HIDE DEF c
    <2>7. /\ Billable' = Billable /\ (OneAccount' <=> OneAccount)
          /\ \A u : NamesOf(u)' = NamesOf(u)
          /\ \A u, d : Billed(u, d)' = Billed(u, d)
      BY <2>1 DEF Billable, OneAccount, NamesOf, Payers, Billed
    <2>8. ASSUME NEW d \in Directions
          PROVE  Bytes(aggregates', d) = Total(counters, n + 1, Named(Billable, d))
      BY <2>1, <2>4, <2>6 DEF BilledAll
    <2>9. ASSUME OneAccount, NEW u \in UUIDs, NamesOf(u) # {}, NEW d \in Directions
          PROVE  Billed(Spelled(u), d) = Total(counters, n + 1, Named(NamesOf(u), d))
      BY <2>1, <2>5, <2>6, <2>9 DEF BilledAll
    <2> QED BY <1>1, <2>1, <2>7, <2>8, <2>9 DEF BilledAll
  <1>4. CASE IdentitiesFetched
    <2>1. /\ pc = "fetching" /\ pc' = "normalizing" /\ n' = 0
          /\ UNCHANGED <<counters, payload, identities, aggregates>>
      BY <1>4 DEF IdentitiesFetched
    <2>2. DOMAIN aggregates = {} BY <2>1 DEF BilledAll
    <2>3. ASSUME NEW d PROVE Bytes(aggregates, d) = 0
      BY <2>2, BytesAreSum, SumOfNone
    <2>4. \A uuid, d : Billed(uuid, d)' = 0 BY <2>1, <2>2 DEF Billed
    <2>5. \A Q : Total(counters, 0, Q) = 0 BY TotalOfNone
    <2>6. 0 <= Len(counters) BY <1>1
    <2> QED BY <2>1, <2>2, <2>3, <2>4, <2>5, <2>6 DEF BilledAll
  <1>5. CASE Normalized \/ UNCHANGED vars
    <2>1. UNCHANGED <<counters, payload, identities, aggregates, n>>
      BY <1>5 DEF Normalized, vars
    <2>2. /\ Billable' = Billable /\ (OneAccount' <=> OneAccount)
          /\ \A u : NamesOf(u)' = NamesOf(u)
          /\ \A u, d : Billed(u, d)' = Billed(u, d)
      BY <2>1 DEF Billable, OneAccount, NamesOf, Payers, Billed
    <2>3. \/ pc' = pc
          \/ pc = "normalizing" /\ pc' = "done" /\ n = Len(counters)
      BY <1>5 DEF Normalized, vars
    <2> QED BY <2>1, <2>2, <2>3 DEF BilledAll
  <1>6. CASE ReadCounter \/ CountersRead \/ IndexIdentity
    <2>1. aggregates' = aggregates /\ pc \in {"querying", "fetching"}
            /\ pc' \in {"querying", "fetching"}
      BY <1>6 DEF ReadCounter, CountersRead, IndexIdentity
    <2> QED BY <2>1 DEF BilledAll
  <1> QED BY <1>2, <1>3, <1>4, <1>5, <1>6 DEF Next

----------------------------------------------------------------------------
BillingInv == TypeOK /\ IndexOK /\ IndexedAll /\ ReadAll /\ BilledAll

(* Together they hold of every state.                                      *)
LEMMA BillingInvariant == Spec => []BillingInv
  <1>1. Init => BillingInv
    <2> SUFFICES ASSUME Init PROVE BillingInv
      OBVIOUS
    <2>1. TypeOK BY InitTypeOK
    <2>2. /\ pc = "querying" /\ n = 0 /\ counters = <<>>
          /\ DOMAIN identities = {} /\ DOMAIN aggregates = {}
      BY DEF Init
    <2>3. IndexOK /\ IndexedAll BY <2>2 DEF IndexOK, IndexedAll
    <2>4. ReadAll
      <3>1. Len(counters) = 0 /\ 0 <= Len(stats) BY <2>1, <2>2, LenProperties DEF TypeOK
      <3> QED BY <2>2, <3>1, TotalOfNone DEF ReadAll, StatsRead
    <2>5. BilledAll BY <2>2, FS_EmptySet DEF BilledAll
    <2> QED BY <2>1, <2>3, <2>4, <2>5 DEF BillingInv
  <1>2. BillingInv /\ [Next]_vars => BillingInv'
    <2> SUFFICES ASSUME BillingInv, [Next]_vars PROVE BillingInv'
      OBVIOUS
    <2>1. PayloadOK BY DEF BillingInv, TypeOK, PayloadOK
    <2> QED BY <2>1, NextTypeOK, NextIndexOK, NextIndexedAll, NextReadAll, NextBilledAll
            DEF BillingInv
  <1> QED BY <1>1, <1>2, PTL DEF Spec

(* Once all is read and added, what was counted is what Xray reported.     *)
LEMMA ReportedIsTotal ==
    ASSUME BillingInv, pc = "done", UserTrafficMetrics, NEW N, NEW d \in Directions
    PROVE  Reported(N, d) = Total(counters, n, Named(N, d))
  <1> DEFINE Q == Named(N, d)
  <1>1. /\ DOMAIN stats = 1..Len(stats)
        /\ \A i \in 1..Len(stats) : stats[i] \in Stats
    BY ElementOfSeq, LenProperties DEF BillingInv, TypeOK
  <1>2. {i \in DOMAIN stats : /\ stats[i].dimension = "user"
                              /\ stats[i].identifier.name \in N
                              /\ stats[i].direction = d}
          = {i \in 1..Len(stats) : stats[i] \in Q}
    BY <1>1 DEF Named, UserStats
  <1>3. Reported(N, d) = Total(stats, Len(stats), Q)
    BY <1>2 DEF Reported, Total, Values
  <1>4. Q \in SUBSET UserStats BY DEF Named
  <1>5. n = Len(counters) BY DEF BillingInv, BilledAll
  <1>6. Total(counters, Len(counters), Q) = Total(stats, Len(stats), Q)
    BY <1>4 DEF BillingInv, ReadAll, StatsRead
  <1> QED BY <1>3, <1>5, <1>6

(* As long as Accounts gives each name to one account, a snapshot bills an *)
(* account for all that Xray reported under any of its names, however many *)
(* counters and identities there are.                                      *)
THEOREM AccountsBilled == Spec => []BilledToAccount
  <1>1. ASSUME BillingInv PROVE BilledToAccount
    <2> SUFFICES ASSUME pc = "done", UserTrafficMetrics, OneAccount,
                        NEW u \in UUIDs, NEW d \in Directions, NamesOf(u) # {}
                 PROVE  Billed(Spelled(u), d) = Reported(NamesOf(u), d)
      BY DEF BilledToAccount, OneAccount, NamesOf
    <2>1. Billed(Spelled(u), d) = Total(counters, n, Named(NamesOf(u), d))
      BY <1>1 DEF BillingInv, BilledAll
    <2> QED BY <1>1, <2>1, ReportedIsTotal
  <1> QED BY <1>1, BillingInvariant, PTL

(* No traffic is lost or billed twice, even when names collide: the samples*)
(* add up to all traffic but that without a name, or of an email that      *)
(* Accounts does not know.                                                 *)
THEOREM NothingLost == Spec => []TrafficConserved
  <1>1. ASSUME BillingInv PROVE TrafficConserved
    <2> DEFINE paid == {key \in Emails : Payers(key) # {}}
    <2> SUFFICES ASSUME pc = "done", UserTrafficMetrics, NEW d \in Directions
                 PROVE  Bytes(aggregates, d) = Reported(UUIDs \cup paid, d)
      BY DEF TrafficConserved, Bytes
    <2>1. Bytes(aggregates, d) = Total(counters, n, Named(Billable, d))
      BY <1>1 DEF BillingInv, BilledAll
    <2>2. UUIDs \cup paid = Billable
      <3>1. payload \in Seq(Identities) /\ DOMAIN identities = KeysTo(Len(payload))
        BY <1>1 DEF BillingInv, TypeOK, IndexedAll
      <3>2. ASSUME NEW key \in Emails PROVE Payers(key) # {} <=> key \in DOMAIN identities
        <4>1. key \in Names BY DEF Names
        <4>2. \A p : p \in Payers(key) <=> \E i \in 1..Len(payload) :
                       key \in Keys(payload[i]) /\ p = Payer(payload[i])
          BY <3>1, <4>1, PayersAre
        <4>3. Payers(key) # {} <=> \E i \in 1..Len(payload) : key \in Keys(payload[i])
          BY <4>2
        <4> QED BY <3>1, <4>1, <4>3 DEF KeysTo
      <3> QED BY <3>2 DEF Billable
    <2> QED BY <1>1, <2>1, <2>2, ReportedIsTotal
  <1> QED BY <1>1, BillingInvariant, PTL
====
