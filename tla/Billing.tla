---- MODULE Billing ----
(***************************************************************************)
(* How a billing snapshot is made of Xray's counters and the identities of *)
(* the Accounts service: Exporter.TrafficCounters (src/exporter.go), then  *)
(* AccountsClient.FetchIdentities and normalize (src/internal/snapshot).   *)
(*                                                                         *)
(* A name stands for its lower-case spelling.  An identifier that Xray     *)
(* reports is spelled as the administrator likes, with capitals or not;    *)
(* Accounts answers in lower case.  Outer spaces are left out.             *)
(***************************************************************************)
EXTENDS Integers, Sequences, FiniteSets, Functions

CONSTANTS UUIDs,              \* account and proxy UUIDs
          Emails,             \* names with an @
          MaxStats,           \* bound: counters that Xray reports
          MaxIdentities,      \* bound: identities that Accounts returns
          UserTrafficMetrics  \* the option of that name

Names == UUIDs \cup Emails
Empty == ""                   \* the empty string

ASSUME NamesAssumption == UUIDs \cap Emails = {} /\ Empty \notin Names
ASSUME BoundsAssumption == MaxStats \in Nat /\ MaxIdentities \in Nat
ASSUME OptionAssumption == UserTrafficMetrics \in BOOLEAN

Identities == [ProxyUUID : UUIDs \cup {Empty}, AccountUUID : UUIDs \cup {Empty},
               Email : Emails \cup {Empty}]
Identifiers == [name : Names, capitals : BOOLEAN]
               \cup {[name |-> Empty, capitals |-> FALSE]}
Directions == {"uplink", "downlink"}
Stats == [dimension : {"user", "inbound"}, identifier : Identifiers,
          direction : Directions, value : Nat]

VARIABLES stats,       \* what Xray answers
          payload,     \* what Accounts answers
          pc,          \* querying, fetching, normalizing or done
          counters,    \* []RawCounter
          identities,  \* the map of FetchIdentities: name -> identity
          aggregates,  \* the map of normalize: UUID as spelled -> aggregate
          n            \* elements of the current loop that are behind

vars == <<stats, payload, pc, counters, identities, aggregates, n>>

----------------------------------------------------------------------------
UserTraffic(s) == s.dimension = "user" /\ UserTrafficMetrics

\* Of what Xray answers only the traffic of users is kept.
ReadCounter ==
    /\ pc = "querying" /\ n < Len(stats)
    /\ counters' = IF UserTraffic(stats[n + 1]) THEN Append(counters, stats[n + 1])
                   ELSE counters
    /\ n' = n + 1
    /\ UNCHANGED <<stats, payload, pc, identities, aggregates>>

CountersRead ==
    /\ pc = "querying" /\ n = Len(stats)
    /\ pc' = "fetching" /\ n' = 0
    /\ UNCHANGED <<stats, payload, counters, identities, aggregates>>

\* (mutant: an empty key is a key)
MutantAllKeys(identity) == {identity.ProxyUUID, identity.AccountUUID, identity.Email}
\* (mutant: an identity is only found by its UUIDs)
MutantKeys(identity) == {identity.ProxyUUID, identity.AccountUUID} \ {Empty}
Keys(identity) == {identity.ProxyUUID, identity.AccountUUID, identity.Email} \ {Empty}

\* An identity goes under each of its keys; the later one of a key wins.
IndexIdentity ==
    /\ pc = "fetching" /\ n < Len(payload)
    /\ LET identity == payload[n + 1]
       IN  identities' = [key \in DOMAIN identities \cup Keys(identity) |->
                             IF key \in Keys(identity) THEN identity ELSE identities[key]]
    /\ n' = n + 1
    /\ UNCHANGED <<stats, payload, pc, counters, aggregates>>

IdentitiesFetched ==
    /\ pc = "fetching" /\ n = Len(payload)
    /\ pc' = "normalizing" /\ n' = 0
    /\ UNCHANGED <<stats, payload, counters, identities, aggregates>>

Known(id) == id.name \in DOMAIN identities

\* Counters without an identifier, or with an email that Accounts does not know.
\* (mutant: unknown emails are kept)
MutantSkipped(id) == id.name = Empty
Skipped(id) == id.name = Empty \/ (~Known(id) /\ id.name \in Emails)

Spelled(name) == [name |-> name, capitals |-> FALSE]

\* Whom the traffic of an identifier is billed to: the account, or the proxy if
\* the identity has no account, or else the identifier itself, as it is spelled.
BilledUUID(id) ==
    LET identity == identities[id.name]
    IN  IF Known(id) /\ identity.AccountUUID # Empty THEN Spelled(identity.AccountUUID)
        ELSE IF Known(id) /\ identity.ProxyUUID # Empty THEN Spelled(identity.ProxyUUID)
        ELSE id

Email(id) == IF Known(id) THEN identities[id.name].Email ELSE Empty

\* (mutant: each counter starts a new aggregate)
MutantAggregate(id) == [email |-> Email(id), uplink |-> 0, downlink |-> 0]
Aggregate(id) ==
    IF BilledUUID(id) \in DOMAIN aggregates THEN aggregates[BilledUUID(id)]
    ELSE [email |-> Email(id), uplink |-> 0, downlink |-> 0]

AddCounter ==
    /\ pc = "normalizing" /\ n < Len(counters)
    /\ LET c == counters[n + 1]
           uuid == BilledUUID(c.identifier)
       IN  /\ ~Skipped(c.identifier)
           /\ aggregates' =
                 [key \in DOMAIN aggregates \cup {uuid} |->
                     IF key = uuid
                     THEN [Aggregate(c.identifier) EXCEPT ![c.direction] = @ + c.value]
                     ELSE aggregates[key]]
    /\ n' = n + 1
    /\ UNCHANGED <<stats, payload, pc, counters, identities>>

SkipCounter ==
    /\ pc = "normalizing" /\ n < Len(counters)
    /\ Skipped(counters[n + 1].identifier)
    /\ n' = n + 1
    /\ UNCHANGED <<stats, payload, pc, counters, identities, aggregates>>

\* The samples are the aggregates, sorted by UUID.
Normalized ==
    /\ pc = "normalizing" /\ n = Len(counters)
    /\ pc' = "done"
    /\ UNCHANGED <<stats, payload, counters, identities, aggregates, n>>

----------------------------------------------------------------------------
\* The k-th counter is of k bytes; an inbound is named like a user.
Init ==
    /\ \E k \in 0..MaxStats :
          \E s \in [1..k -> Identifiers \X Directions \X {"user"}
                            \cup {Spelled(u) : u \in UUIDs} \X {"uplink"} \X {"inbound"}] :
             stats = [i \in 1..k |-> [identifier |-> s[i][1], direction |-> s[i][2],
                                      dimension |-> s[i][3], value |-> i]]
    /\ \E k \in 0..MaxIdentities : payload \in [1..k -> Identities]
    /\ pc = "querying" /\ n = 0
    /\ counters = <<>>
    /\ identities = [key \in {} |-> Empty] /\ aggregates = [key \in {} |-> Empty]

Next == ReadCounter \/ CountersRead \/ IndexIdentity \/ IdentitiesFetched
        \/ AddCounter \/ SkipCounter \/ Normalized

Spec == Init /\ [][Next]_vars

----------------------------------------------------------------------------
Aggregates == [email : Emails \cup {Empty}, uplink : Nat, downlink : Nat]

TypeOK ==
    /\ stats \in Seq(Stats) /\ payload \in Seq(Identities)
    /\ pc \in {"querying", "fetching", "normalizing", "done"}
    /\ counters \in Seq(Stats)
    /\ DOMAIN identities \subseteq Names
    /\ \A key \in DOMAIN identities : identities[key] \in Identities
    /\ DOMAIN aggregates \subseteq Identifiers
    /\ \A key \in DOMAIN aggregates : aggregates[key] \in Aggregates
    /\ n \in Nat

\* What the inputs say, however they are looked up and added.
Payer(identity) ==
    IF identity.AccountUUID # Empty THEN identity.AccountUUID ELSE identity.ProxyUUID
Payers(key) == {Payer(identity) : identity \in {i \in Range(payload) :
                    key \in {i.ProxyUUID, i.AccountUUID, i.Email}}}
Billed(uuid, d) ==
    IF uuid \in DOMAIN aggregates THEN aggregates[uuid][d] ELSE 0
\* The bytes reported for users of these names, in direction d.
Reported(N, d) ==
    SumFunctionOnSet([i \in DOMAIN stats |-> stats[i].value],
                     {i \in DOMAIN stats : /\ stats[i].dimension = "user"
                                           /\ stats[i].identifier.name \in N
                                           /\ stats[i].direction = d})

(* As long as Accounts gives each name to one account, a snapshot bills an *)
(* account for all of the traffic reported under any of its names, in any  *)
(* spelling and on any inbound, and for no other.                          *)
BilledToAccount ==
    pc = "done" /\ UserTrafficMetrics /\ (\A key \in Names : Cardinality(Payers(key)) <= 1)
        => \A u \in UUIDs, d \in Directions :
              LET named == {key \in Names : Payers(key) = {u}}
              IN  named # {} => Billed(Spelled(u), d) = Reported(named, d)

(* No traffic is lost or billed twice, even when names collide: the samples*)
(* add up to all traffic but that without a name, or of an email that      *)
(* Accounts does not know.                                                 *)
TrafficConserved ==
    pc = "done" /\ UserTrafficMetrics => \A d \in Directions :
        SumFunction([uuid \in DOMAIN aggregates |-> aggregates[uuid][d]])
            = Reported(UUIDs \cup {key \in Emails : Payers(key) # {}}, d)

(* An email only becomes a key of a sample if Accounts itself returned an  *)
(* identity of that email which has neither UUID.                          *)
EmailBilledOnlyWithoutUUID ==
    \A uuid \in DOMAIN aggregates : uuid.name \in Emails =>
        [ProxyUUID |-> Empty, AccountUUID |-> Empty, Email |-> uuid.name] \in Range(payload)
====
