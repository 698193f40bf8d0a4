---- MODULE Counters ----
(***************************************************************************)
(* The request counters of the log parser                                  *)
(* (src/internal/logparser/parser.go) and how a scrape exports them        *)
(* (src/exporter.go).  The parse goroutine turns each line of a pass into  *)
(* a delta, asking the IP filter twice on the way, merges the delta under  *)
(* metrics.mu, and trims the maps when they grow too large; a second       *)
(* ticker trims them anyway.  A scrape reads the maps one by one.          *)
(*                                                                         *)
(* A map of counts is a bag.  A line is what processLine gets out of it:   *)
(*   parsed    parseLine finds a time and a valid client address           *)
(*   from      that address                                                *)
(*   to        the target: none, a host, a host of nothing but a-f,        *)
(*             digits and dots (hexhost), an address, or an address in     *)
(*             brackets, as Xray writes IPv6                               *)
(*   outbound  the outbound's name                                         *)
(*   old       is the time outside the window?                             *)
(***************************************************************************)
EXTENDS IPFilter, Bags, FiniteSets, Functions

CONSTANTS Lines,          \* the lines Xray may write
          parser,         \* the parse goroutine, one of the Callers
          Readers,        \* the GeoIP databases that could be opened
          RootOf,         \* of the text of a target: its registrable domain,
                          \* or else what follows the last dot but one
          ASNOf, CountryOf,  \* what two of them say of an address
          CityOf,            \* the third one: a country and a city
          MaxTracked, BeforeCleanup,  \* family -> its two limits
          NoKey,          \* a name that is empty or not known
          MaxLines        \* bound: lines that are read

Families == {"domain", "ip", "outbound", "asn", "country", "city"}

ASSUME ParserAssumption == parser \in Callers
ASSUME ReadersAssumption == Readers \subseteq {"asn", "country", "city"}
ASSUME LimitsAssumption ==
    /\ MaxTracked \in [Families -> Nat \ {0}]
    /\ BeforeCleanup \in [Families -> Nat]
    /\ \A f \in Families : MaxTracked[f] <= BeforeCleanup[f]
    /\ MaxLines \in Nat
\* An ASN's key joins a number and a name by a bar: it is never empty.
ASSUME ASNAssumption ==
    "unknown" # NoKey /\ ("asn" \in Readers => \A ip \in Addresses : ASNOf[ip] # NoKey)
\* What processLine can tell of a target, and what it takes for an address.
ASSUME LinesAssumption ==
    /\ NoKey \notin Addresses
    /\ \A l \in Lines : l.parsed \in BOOLEAN /\ (l.parsed =>
          /\ l.from \in Addresses /\ l.old \in BOOLEAN
          /\ l.to.form \in {"none", "host", "hexhost", "bracketed", "address"}
          /\ l.to.form = "none" => l.to.key = NoKey
          /\ l.to.form \in {"address", "bracketed"} => l.to.key \in Addresses)

VARIABLES
    pc,        \* the parse goroutine: waiting, reading, target or client
               \* (asking the filter about either), checking or trimming
    read,      \* lines read so far
    line,      \* the line at hand
    delta,     \* the counts of the pass at hand
    kept,      \* its user connections, len(delta.timestamps)
    counts,    \* DomainCounts, IPCounts and so on, by family
    conns,     \* connections in the window (ConnWindow has the details)
    step,      \* how far Collect is, 0 when there is no scrape
    exported,  \* what it has exported of each family
    shown,     \* and as total_connections
    owed,      \* history: what the lines of this pass should count for
    due,       \* history: the same of all merged lines, since a key was cut
    cut        \* history: families that have lost a key

passVars == <<pc, read, line, delta, kept, owed>>
mapVars == <<counts, due, cut>>
scrapeVars == <<step, exported, shown>>
counterVars == <<passVars, mapVars, conns, scrapeVars>>
allVars == <<filterVars, counterVars>>

Empty == [f \in Families |-> EmptyBag]
NoLine == [parsed |-> FALSE]
One(key) == IF key = NoKey THEN EmptyBag ELSE SetToBag({key})
Plus(a, b) == [f \in Families |-> a[f] (+) b[f]]
Keys(m) == DOMAIN m

----------------------------------------------------------------------------
\* processLine, up to the merge on nothing but the delta.

\* A host that consists of hexadecimal digits and dots passes for an address.
isIPAddressFast(to) == to.form \in {"address", "hexhost"}
normalizeIP(to) == IF to.form = "address" THEN to.key ELSE NoKey
\* Of a name or, in brackets, of an address, which may have dots of its own.
getRootDomain(to) == IF to.form = "none" THEN NoKey ELSE RootOf[to]

\* Lines outside the window count as requests only.
AfterRequest(l) == IF l.old THEN "reading" ELSE "client"

CountRequest(l, family, key) ==
    /\ delta' = [delta EXCEPT ![family] = @ (+) One(key),
                              !["outbound"] = @ (+) One(l.outbound)]
    /\ pc' = AfterRequest(l)
    /\ line' = IF pc' = "reading" THEN NoLine ELSE l

\* A city's database has the last word on the country, if there is one.
Country(ip) == IF "city" \in Readers THEN CityOf[ip].country
               ELSE IF "country" \in Readers THEN CountryOf[ip] ELSE NoKey
City(ip) == IF "city" \in Readers THEN CityOf[ip].city ELSE NoKey
ASN(ip) == IF "asn" \in Readers THEN ASNOf[ip] ELSE "unknown"

\* What the line should count for: every name as a domain, and every address
\* that is not listed as an address, however either is written.
Listed == systemIPs \cup dnsServers \cup UNION privateNets
IsName(to) == to.form \in {"host", "hexhost"}
IsAddress(to) == to.form \in {"address", "bracketed"}
Owes(l) ==
    LET OneIf(p, key) == IF p THEN One(key) ELSE EmptyBag
        user == ~l.old /\ l.from \notin Listed
    IN  [domain   |-> OneIf(IsName(l.to), getRootDomain(l.to)),
         ip       |-> OneIf(IsAddress(l.to) /\ l.to.key \notin Listed, l.to.key),
         outbound |-> One(l.outbound),
         asn      |-> OneIf(user, ASN(l.from)),
         country  |-> OneIf(user, Country(l.from)),
         city     |-> OneIf(user, City(l.from))]

DropLine(l) ==
    /\ pc = "reading" /\ read < MaxLines /\ ~l.parsed
    /\ read' = read + 1
    /\ UNCHANGED <<filterVars, pc, line, delta, kept, owed, mapVars, conns, scrapeVars>>

TakeLine(l) ==
    /\ pc = "reading" /\ read < MaxLines /\ l.parsed
    /\ read' = read + 1
    /\ owed' = Plus(owed, Owes(l))
    /\ IF ~isIPAddressFast(l.to) THEN CountRequest(l, "domain", getRootDomain(l.to))
       ELSE IF normalizeIP(l.to) # NoKey THEN pc' = "target" /\ line' = l /\ UNCHANGED delta
       ELSE CountRequest(l, "ip", NoKey)
    /\ UNCHANGED <<filterVars, kept, mapVars, conns, scrapeVars>>

\* ShouldFilter may take two steps; the result is used in the second.
FilterTarget ==
    /\ pc = "target"
    /\ LET ip == normalizeIP(line.to)
       IN  \/ Miss(parser, ip) /\ UNCHANGED <<pc, line, delta>>
           \/ /\ Answered(parser, ip)
              /\ CountRequest(line, "ip",
                              IF answer'.filtered THEN NoKey ELSE ip)
    /\ UNCHANGED <<read, kept, owed, mapVars, conns, scrapeVars>>

CountUser(ip, filtered) ==
    IF filtered THEN UNCHANGED <<kept, delta>>
    ELSE /\ kept' = kept + 1
         /\ delta' = [delta EXCEPT !["asn"] = @ (+) One(ASN(ip)),
                                   !["country"] = @ (+) One(Country(ip)),
                                   !["city"] = @ (+) One(City(ip))]

FilterClient ==
    /\ pc = "client"
    /\ \/ Miss(parser, line.from) /\ UNCHANGED <<pc, line, kept, delta>>
       \/ /\ Answered(parser, line.from)
          /\ CountUser(line.from, answer'.filtered)
          /\ pc' = "reading" /\ line' = NoLine
    /\ UNCHANGED <<read, owed, mapVars, conns, scrapeVars>>

----------------------------------------------------------------------------
\* keepTopN and topN sort a random order of the map's keys by count only:
\* which of the keys with the same count come first is open.

Largest(m, n) ==
    {S \in SUBSET Keys(m) : /\ Cardinality(S) = n
                            /\ \A k \in S, o \in Keys(m) \ S : m[k] >= m[o]}

Only(m, S) == [k \in Keys(m) \cap S |-> m[k]]

keepTopN(m, n) == IF Cardinality(Keys(m)) <= n THEN {m}
                  ELSE {Only(m, S) : S \in Largest(m, n)}

\* Under metrics.mu, family by family.
trimToTopN ==
    /\ \E d \in keepTopN(counts["domain"], MaxTracked["domain"]),
          i \in keepTopN(counts["ip"], MaxTracked["ip"]),
          o \in keepTopN(counts["outbound"], MaxTracked["outbound"]),
          a \in keepTopN(counts["asn"], MaxTracked["asn"]),
          c \in keepTopN(counts["country"], MaxTracked["country"]),
          t \in keepTopN(counts["city"], MaxTracked["city"]) :
             counts' = [domain |-> d, ip |-> i, outbound |-> o, asn |-> a,
                        country |-> c, city |-> t]
    /\ cut' = cut \cup {f \in Families : counts'[f] # counts[f]}
    /\ due' = [f \in Families |-> Only(due[f], Keys(due[f]) \ (Keys(counts[f]) \ Keys(counts'[f])))]

----------------------------------------------------------------------------
\* parseLoop: passes, each followed by checkEmergencyCleanup, and clean-ups.

BeginPass ==
    /\ pc = "waiting" /\ pc' = "reading"
    /\ delta' = Empty /\ kept' = 0 /\ owed' = Empty
    /\ UNCHANGED <<filterVars, read, line, mapVars, conns, scrapeVars>>

\* The log cannot be opened: nothing is merged.
PassFails ==
    /\ pc = "waiting" /\ pc' = "checking"
    /\ UNCHANGED <<filterVars, read, line, delta, kept, owed, mapVars, conns, scrapeVars>>

\* (mutant: a family is merged by assignment)
MutantMergeDelta ==
    /\ counts' = [f \in Families |-> IF f = "ip" THEN delta[f] ELSE counts[f] (+) delta[f]]
    /\ conns' = conns + kept
\* (mutant: the user connections of a batch are appended twice)
MutantMergeDeltaTwice == counts' = Plus(counts, delta) /\ conns' = conns + 2 * kept
mergeDelta == counts' = Plus(counts, delta) /\ conns' = conns + kept

EndPass ==
    /\ pc = "reading" /\ pc' = "checking"
    /\ mergeDelta
    /\ due' = Plus(due, owed)
    /\ delta' = Empty /\ kept' = 0 /\ owed' = Empty
    /\ UNCHANGED <<filterVars, read, line, cut, scrapeVars>>

TooLarge(m) == \E f \in Families : Cardinality(Keys(m[f])) > BeforeCleanup[f]

\* Under the read lock, which is released before the maps are trimmed.
checkEmergencyCleanup ==
    /\ pc = "checking" /\ pc' = IF TooLarge(counts) THEN "trimming" ELSE "waiting"
    /\ UNCHANGED <<filterVars, read, line, delta, kept, owed, mapVars, conns, scrapeVars>>

EmergencyCleanup ==
    /\ pc = "trimming" /\ pc' = "waiting"
    /\ trimToTopN
    /\ UNCHANGED <<filterVars, read, line, delta, kept, owed, conns, scrapeVars>>

\* (mutant: the clean-up ticker has a goroutine of its own)
MutantCleanupTick == trimToTopN /\ UNCHANGED <<filterVars, passVars, conns, scrapeVars>>
CleanupTick ==
    /\ pc = "waiting"
    /\ trimToTopN
    /\ UNCHANGED <<filterVars, passVars, conns, scrapeVars>>

----------------------------------------------------------------------------
\* Collect: GetMetrics, then one getter after the other, each under its own
\* read lock; of each map the largest counts are exported.

\* (mutant: the users are counted last)
MutantCollectOrder == <<"domain", "ip", "outbound", "asn", "country", "city", "users">>
CollectOrder == <<"users", "domain", "ip", "outbound", "asn", "country", "city">>

topN(m, n) == keepTopN(m, n)

\* The getters clone their map, so a scrape goes on with what it was.
GetCounts(f) == counts[f]

\* Connections that have left the window are forgotten.
collectLogMetrics ==
    /\ step < Len(CollectOrder) /\ CollectOrder[step + 1] = "users"
    /\ conns' \in 0..conns /\ shown' = conns'
    /\ step' = step + 1
    /\ UNCHANGED <<filterVars, passVars, mapVars, exported>>

collectFamily(f) ==
    /\ step < Len(CollectOrder) /\ CollectOrder[step + 1] = f
    /\ \E top \in topN(GetCounts(f), MaxTracked[f]) :
           exported' = [exported EXCEPT ![f] = top]
    /\ step' = step + 1
    /\ UNCHANGED <<filterVars, passVars, mapVars, conns, shown>>

EndScrape ==
    /\ step = Len(CollectOrder) /\ step' = 0
    /\ exported' = Empty /\ shown' = 0
    /\ UNCHANGED <<filterVars, passVars, mapVars, conns>>

----------------------------------------------------------------------------
CountersInit ==
    /\ Init
    /\ pc = "waiting" /\ read = 0 /\ line = NoLine
    /\ delta = Empty /\ kept = 0 /\ owed = Empty
    /\ counts = Empty /\ due = Empty /\ cut = {} /\ conns = 0
    /\ step = 0 /\ exported = Empty /\ shown = 0

ProcessLine == (\E l \in Lines : DropLine(l) \/ TakeLine(l)) \/ FilterTarget \/ FilterClient
ParseLoop == BeginPass \/ PassFails \/ ProcessLine \/ EndPass \/ checkEmergencyCleanup
             \/ EmergencyCleanup \/ CleanupTick
Collect == collectLogMetrics \/ (\E f \in Families : collectFamily(f)) \/ EndScrape
OtherCaller == (\E c \in Callers \ {parser}, ip \in Addresses : ShouldFilter(c, ip))
               /\ UNCHANGED counterVars

CountersNext == ParseLoop \/ Collect \/ OtherCaller

CountersSpec == CountersInit /\ [][CountersNext]_allVars

----------------------------------------------------------------------------
AllBags(m) == \A f \in Families : IsABag(m[f])

CountersTypeOK ==
    /\ FilterTypeOK
    /\ pc \in {"waiting", "reading", "target", "client", "checking", "trimming"}
    /\ read \in 0..MaxLines /\ line \in Lines \cup {NoLine}
    /\ {kept, conns, shown} \subseteq 0..MaxLines
    /\ \A m \in {delta, counts, exported, owed, due} : AllBags(m)
    /\ step \in 0..Len(CollectOrder) /\ cut \subseteq Families

\* A name that passes for an address, and an address that passes for a name:
\* the keys under which such a target should be counted, and is.
Misread(to) == to.form \in {"hexhost", "bracketed"}
MisreadKeys(f) ==
    LET targets == {l.to : l \in {k \in Lines : k.parsed /\ Misread(k.to)}}
    IN  IF f = "domain" THEN {getRootDomain(to) : to \in targets}
        ELSE IF f = "ip" THEN {to.key : to \in {t \in targets : IsAddress(t)}}
        ELSE {}
WellRead(f, m) == Only(m, Keys(m) \ MisreadKeys(f))

(* Each count is the number of merged requests for that key since the key  *)
(* was last cut, and of all of them if it never was: through batches,      *)
(* trims, the detours of the filter's cache and the early returns no       *)
(* request is lost, counted twice or under another key, and listed         *)
(* addresses never count.  That is so for the keys that no target is       *)
(* misread for; AllRequestsCounted has the others.                         *)
CountedSinceCut == \A f \in Families : WellRead(f, counts[f]) = WellRead(f, due[f])

(* "Always track domain and IP requests", and of the addresses "exclude    *)
(* system/DNS/private IPs": whatever the target looks like.                *)
AllRequestsCounted == \A f \in {"domain", "ip"} \ cut : counts[f] = due[f]

(* Between two passes no map is larger than its emergency threshold,       *)
(* however large the batch was and whichever map it made grow; and the     *)
(* decision taken under the read lock still holds when the maps are        *)
(* trimmed under the write lock: nothing is cut in an emergency that was   *)
(* over by then.                                                           *)
MapsBounded ==
    /\ pc \in {"waiting", "reading", "target", "client"} => ~TooLarge(counts)
    /\ pc = "trimming" => TooLarge(counts)

(* The getters of one scrape see different moments, but not the wrong way  *)
(* round: the connections it reports are all among the ASN counts it       *)
(* reports, unless an ASN was cut or did not make it into the top.         *)
ConnectionsHaveASN ==
    (\E i \in 1..step : CollectOrder[i] = "asn")
    /\ "asn" \notin cut /\ Cardinality(Keys(exported["asn"])) < MaxTracked["asn"]
        => shown <= SumFunction(exported["asn"])
====
