---- MODULE MCBilling ----
(* Two UUIDs and an email in every combination of two identities and two   *)
(* counters: shared, colliding, missing and differently spelled names.     *)
EXTENDS Billing
====
