---- MODULE MCLifecycle ----
(* Two of the three databases: a first one, and one after which the        *)
(* download is over.                                                       *)
EXTENDS Lifecycle

MCDatabases == <<"asn", "city">>
====
