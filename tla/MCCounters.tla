---- MODULE MCCounters ----
(* Seven lines: two hosts of one domain, a host that passes for an         *)
(* address, an address in brackets, a user's and a DNS server's address as *)
(* targets, and a line that does not parse; from a user or a private       *)
(* address.                                                                *)
EXTENDS Counters

Target(form, key) == [form |-> form, key |-> key]
L(from, to, outbound, old) ==
    [parsed |-> TRUE, from |-> from, to |-> to, outbound |-> outbound, old |-> old]

MCLines == {
    L("user", Target("host", "a.one.example"), "direct", FALSE),
    L("user", Target("host", "b.one.example"), "direct", FALSE),
    L("lan",  Target("bracketed", "dns"), "direct", TRUE),
    L("user", Target("hexhost", "a.cafe.de"), "", TRUE),
    L("user", Target("address", "user"), "direct", TRUE),
    L("lan", Target("address", "dns"), "", FALSE),
    [parsed |-> FALSE]}

\* The address in brackets is an IPv4 one in the clothes of IPv6: cut at a dot.
MCRootOf == [to \in {l.to : l \in {k \in MCLines : k.parsed}} |->
    IF to.form = "hexhost" THEN "cafe.de" ELSE IF to.form = "bracketed" THEN "8.8]"
    ELSE "one.example"]

MCASNOf == [ip \in {"user", "lan", "dns"} |-> "AS1"]
MCCountryOf == [ip \in {"user", "lan", "dns"} |-> "DE"]
MCCityOf == [ip \in {"user", "lan", "dns"} |-> [country |-> "DE", city |-> "Berlin"]]
MCPrivateNets == {{"lan"}}
MCMaxTracked == [f \in Families |-> IF f = "asn" THEN 2 ELSE 1]
MCBeforeCleanup == [f \in Families |-> IF f = "asn" THEN 2 ELSE 1]
====
