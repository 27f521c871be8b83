------------------------------ MODULE MCLifecycle ------------------------------
(* Config's option values (MCConfig) and one request: one Export is enough *)
(* for Stop to arrive between its parameter evaluation and GetConnection.  *)
EXTENDS Lifecycle, MCConfig

CONSTANTS w1

MCWorkers == {w1}

=============================================================================
