---- MODULE MCConnWindow ----
(* One client, whose entries are all the ring ever holds (clients meet     *)
(* nowhere but in it), and three lines on a ring of two entries, over      *)
(* three ticks of the clock, west of Greenwich: the ring wraps, overwrites,*)
(* expires and empties, and the clock is set back once, anywhere.          *)
EXTENDS ConnWindow

West == -1
====
