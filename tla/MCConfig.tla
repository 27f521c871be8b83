------------------------------ MODULE MCConfig ------------------------------
(* Option values on both sides of each range bound and of the zero          *)
(* Timeout, one TLSConnect value that is not valid, and the extremes of the *)
(* agent's global Timeout.                                                  *)
EXTENDS Config

MCTimeouts == {0, 1, 30, 31}
MCKeepAlives == {59, 60, 900, 901}
MCTLSValues == {"", "required", "verify_full", "verify-full"}
MCGlobalTimeouts == {1, 30}

=============================================================================
