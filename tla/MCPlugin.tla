------------------------------- MODULE MCPlugin -------------------------------
(* Model-checking instance of Plugin.  One time unit is the housekeeping   *)
(* interval (10 s).  KeepAlive = 2 stands for the smallest configured      *)
(* KeepAlive (60 s) and Timeout = 1 for a Timeout of at most 30 s, which   *)
(* keeps their order (conf range 1:30 against 60:900).  Item timeouts of   *)
(* 1 and 2 intervals are the ones not longer than KeepAlive; the run       *)
(* MCPluginLongItem adds one that is longer.                               *)
EXTENDS Plugin, TLC

CONSTANTS w1, w2, u1, u2

MCWorkers == {w1, w2}
MCURIs == {u1, u2}
MCKeys == {"mongodb.ping", "mongodb.server.status"}
MCItemTimeouts == {1, 2}
MCLongItemTimeouts == {1, 2, 3}

Symmetry == Permutations(MCWorkers) \cup Permutations(MCURIs)

=============================================================================
