---- MODULE IPFilter ----
(***************************************************************************)
(* The address filter of the log parser                                    *)
(* (src/internal/logparser/filter.go): ShouldFilter decides whether an     *)
(* address is a system's, a public DNS server's or a private one, and      *)
(* remembers its answers in an LRU cache.  The cache's lock is released    *)
(* while an answer is computed, so callers may overtake each other between *)
(* the lookup that fails and the insertion.                                *)
(*                                                                         *)
(* Addresses arrive normalised, so net.ParseIP never fails on them.        *)
(***************************************************************************)
EXTENDS Integers, Sequences

CONSTANTS Addresses,            \* addresses that are asked about
          Callers,              \* goroutines that may call ShouldFilter
          systemIPs, dnsServers,
          privateNets,          \* a set of networks, each a set of addresses
          maxCacheSize,
          NoAddress             \* a value that is no address

ASSUME AddressesAssumption == NoAddress \notin Addresses
ASSUME CacheAssumption == maxCacheSize \in Nat \ {0}

VARIABLES
    cache,      \* address -> the result in its element of the list
    lru,        \* the addresses of the list's elements, front first
    pending,    \* caller -> the address it computes, outside the lock
    answer,     \* the latest answer, to whichever caller
    touched     \* history: all addresses asked about, the latest first

filterVars == <<cache, lru, pending, answer, touched>>

Cached(ip) == ip \in DOMAIN cache

shouldFilterInternal(ip) ==
    ip \in systemIPs \/ ip \in dnsServers \/ \E net \in privateNets : ip \in net

InList(s, ip) == \E i \in DOMAIN s : s[i] = ip
Place(s, ip) == CHOOSE i \in DOMAIN s : s[i] = ip

PushFront(s, ip) == <<ip>> \o s
\* (mutant: an entry that is used again stays where it is)
MutantMoveToFront(s, ip) == s
MoveToFront(s, ip) ==
    [i \in DOMAIN s |-> IF i = 1 THEN ip ELSE IF i <= Place(s, ip) THEN s[i-1] ELSE s[i]]

\* The list s when ip has been used.
Touch(s, ip) == IF InList(s, ip) THEN MoveToFront(s, ip) ELSE PushFront(s, ip)

Reply(ip, result) == answer' = [asked |-> TRUE, ip |-> ip, filtered |-> result]

----------------------------------------------------------------------------
\* The lookup, under mu.

Hit(c, ip) ==
    /\ pending[c] = NoAddress /\ Cached(ip)
    /\ lru' = MoveToFront(lru, ip)
    /\ Reply(ip, cache[ip])
    /\ touched' = Touch(touched, ip)
    /\ UNCHANGED <<cache, pending>>

Miss(c, ip) ==
    /\ pending[c] = NoAddress /\ ~Cached(ip)
    /\ pending' = [pending EXCEPT ![c] = ip]
    /\ UNCHANGED <<cache, lru, answer, touched>>

----------------------------------------------------------------------------
\* The insertion, under mu again, with the result computed in between.

Computed(c, ip) ==
    /\ pending[c] = ip /\ ip # NoAddress
    /\ pending' = [pending EXCEPT ![c] = NoAddress]
    /\ Reply(ip, shouldFilterInternal(ip))
    /\ touched' = Touch(touched, ip)

\* (mutant: the second check of the cache is missing)
MutantRefresh(c, ip) ==
    /\ Computed(c, ip) /\ Cached(ip)
    /\ lru' = PushFront(lru, ip)
    /\ cache' = [cache EXCEPT ![ip] = shouldFilterInternal(ip)]
\* Another caller inserted the address in the meantime.
Refresh(c, ip) ==
    /\ Computed(c, ip) /\ Cached(ip)
    /\ lru' = MoveToFront(lru, ip)
    /\ cache' = [cache EXCEPT ![ip] = shouldFilterInternal(ip)]

Insert(c, ip) ==
    /\ Computed(c, ip) /\ ~Cached(ip) /\ Len(lru) < maxCacheSize
    /\ lru' = PushFront(lru, ip)
    /\ cache' = [a \in DOMAIN cache \cup {ip} |->
                    IF a = ip THEN shouldFilterInternal(ip) ELSE cache[a]]

Oldest == lru[Len(lru)]

\* (mutant: the new entry takes over the evicted one's element as it is)
MutantInsertEvicting(c, ip) ==
    /\ Computed(c, ip) /\ ~Cached(ip) /\ Len(lru) >= maxCacheSize
    /\ lru' = SubSeq(PushFront(lru, ip), 1, Len(lru))
    /\ cache' = [a \in (DOMAIN cache \cup {ip}) \ {Oldest} |->
                    IF a = ip THEN cache[Oldest] ELSE cache[a]]
\* Over capacity, the least recently used entry leaves the list and the map.
InsertEvicting(c, ip) ==
    /\ Computed(c, ip) /\ ~Cached(ip) /\ Len(lru) >= maxCacheSize
    /\ lru' = SubSeq(PushFront(lru, ip), 1, Len(lru))
    /\ cache' = [a \in (DOMAIN cache \cup {ip}) \ {Oldest} |->
                    IF a = ip THEN shouldFilterInternal(ip) ELSE cache[a]]

----------------------------------------------------------------------------
\* ShouldFilter comes back to its caller in one of these steps.
Answered(c, ip) == Hit(c, ip) \/ Refresh(c, ip) \/ Insert(c, ip) \/ InsertEvicting(c, ip)

ShouldFilter(c, ip) == Miss(c, ip) \/ Answered(c, ip)

Init ==
    /\ cache = [a \in {} |-> FALSE] /\ lru = <<>>
    /\ pending = [c \in Callers |-> NoAddress]
    /\ answer = [asked |-> FALSE]
    /\ touched = <<>>

Next == \E c \in Callers, ip \in Addresses : ShouldFilter(c, ip)

Spec == Init /\ [][Next]_filterVars

----------------------------------------------------------------------------
FilterTypeOK ==
    /\ \E S \in SUBSET Addresses : cache \in [S -> BOOLEAN]
    /\ lru \in Seq(Addresses) /\ touched \in Seq(Addresses)
    /\ pending \in [Callers -> Addresses \cup {NoAddress}]
    /\ answer \in [asked : {FALSE}]
                  \cup [asked : {TRUE}, ip : Addresses, filtered : BOOLEAN]

NoRepeats(s) == \A i, j \in DOMAIN s : s[i] = s[j] => i = j

(* The map and the list of the cache hold the same addresses, each once,   *)
(* and no more than the cap, whichever callers were between lookup and     *)
(* insertion of the same address: an entry that only one of the two knew   *)
(* would never be evicted, or evicted twice.                               *)
IndexMatchesList ==
    /\ \A ip \in Addresses : Cached(ip) <=> InList(lru, ip)
    /\ NoRepeats(lru)
    /\ Len(lru) <= maxCacheSize

(* The cache is least-recently-used: it holds the addresses that were      *)
(* asked about last, in that order, also when callers overtake each other. *)
MostRecentCached ==
    /\ Len(lru) <= Len(touched)
    /\ Len(lru) < Len(touched) => Len(lru) = maxCacheSize
    /\ \A i \in DOMAIN lru : lru[i] = touched[i]

(* With its cache the filter answers as the lists do without one: no stale *)
(* or foreign result, in any order of lookups, evictions and insertions.   *)
Pure == INSTANCE PureFilter
          WITH Listed <- systemIPs \cup dnsServers \cup UNION privateNets
ImplementsPureFilter == Pure!Spec
====
