------------------------------ MODULE PoolAbstract ------------------------------
(***************************************************************************)
(* What the connection manager promises its callers (spec.md 4.1, 5): at   *)
(* most one session per endpoint identity, every session a fresh one that  *)
(* was never handed out before, and a closed session gone for good.  A     *)
(* lookup that finds the identity's session changes nothing here.          *)
(***************************************************************************)
EXTENDS FiniteSets, Functions, TLC

CONSTANTS
    URIs,      \* endpoint identities
    Sessions   \* session ids

VARIABLES
    apool,   \* identity -> its session
    alive,   \* sessions open and not yet closed
    used     \* sessions ever opened

avars == <<apool, alive, used>>

ATypeOK ==
    /\ \E D \in SUBSET URIs : apool \in [D -> Sessions]
    /\ alive \subseteq used
    /\ used \subseteq Sessions

AInit ==
    /\ apool = [u \in {} |-> 0]
    /\ alive = {}
    /\ used = {}

(* A new session s, never used before, becomes identity u's session.       *)
Open(u, s) ==
    /\ u \notin DOMAIN apool
    /\ s \notin used
    /\ apool' = apool @@ (u :> s)
    /\ alive' = alive \cup {s}
    /\ used' = used \cup {s}

(* The sessions of the identities U are closed and forgotten; each one    *)
(* is still open, so no session is closed twice (spec.md 5 (c)).          *)
Close(U) ==
    /\ U \subseteq DOMAIN apool
    /\ {apool[u] : u \in U} \subseteq alive
    /\ apool' = Restrict(apool, DOMAIN apool \ U)
    /\ alive' = alive \ {apool[u] : u \in U}
    /\ UNCHANGED used

ANext ==
    \/ \E u \in URIs, s \in Sessions : Open(u, s)
    \/ \E U \in SUBSET DOMAIN apool : Close(U)

ASpec == AInit /\ [][ANext]_avars

=============================================================================
