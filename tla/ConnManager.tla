------------------------------ MODULE ConnManager ------------------------------
(***************************************************************************)
(* The connection lifecycle manager: a pool of MongoDB sessions keyed by   *)
(* the endpoint identity (uri.URI built from URI, user and password), a    *)
(* housekeeper that closes sessions idle longer than KeepAlive, and        *)
(* Destroy.  The manager's source (plugin/conn.go) is not part of the      *)
(* sources given, so its definitions follow spec.md sections 4.1 and 5:    *)
(* every operation holds the manager mutex for its whole duration, so each *)
(* is one atomic step here.                                                *)
(*                                                                         *)
(* Time is counted in housekeeping intervals (hkInterval = 10 s).  An      *)
(* entry keeps its idle time (now - lastTimeAccess), saturated at          *)
(* KeepAlive + 1 since the code only ever compares it with KeepAlive.      *)
(***************************************************************************)
EXTENDS Naturals, FiniteSets, Functions, TLC

CONSTANTS
    URIs,        \* endpoint identities (model values)
    KeepAlive,   \* idle horizon, in housekeeping intervals
    MaxSessions  \* bound on the number of sessions ever established

ASSUME KeepAlive \in Nat \ {0}
ASSUME MaxSessions \in Nat \ {0}

VARIABLES
    pool,      \* identity -> [sess, idle]: the connections map
    live,      \* sessions established and not yet disconnected
    nextSess,  \* id the next established session gets
    hkDue,     \* the housekeeper's ticker has fired and closeUnused is pending
    mgrUp      \* Plugin.connMgr # nil

cmVars == <<pool, live, nextSess, hkDue, mgrUp>>

Sessions == 1..MaxSessions
NoSession == 0
IdleTime == 0..(KeepAlive + 1)
Entry == [sess : Sessions, idle : IdleTime]

CMTypeOK ==
    /\ \E D \in SUBSET URIs : pool \in [D -> Entry]
    /\ live \subseteq Sessions
    /\ nextSess \in 1..(MaxSessions + 1)
    /\ hkDue \in BOOLEAN
    /\ mgrUp \in BOOLEAN

PooledSessions == {pool[u].sess : u \in DOMAIN pool}

EmptyPool == [u \in {} |-> NoSession]

CMInit ==
    /\ pool = EmptyPool
    /\ live = {}
    /\ nextSess = 1
    /\ hkDue = FALSE
    /\ mgrUp = FALSE

(* NewConnManager: an empty map and one housekeeper goroutine started.     *)
NewConnManager ==
    /\ ~mgrUp
    /\ mgrUp' = TRUE
    /\ pool' = EmptyPool
    /\ hkDue' = FALSE
    /\ UNCHANGED <<live, nextSess>>

GetConnectionReuseStale(u) ==
    /\ mgrUp
    /\ u \in DOMAIN pool
    /\ UNCHANGED cmVars

(* GetConnection, hit: get() finds the entry and updateAccessTime() makes  *)
(* it fresh again.                                                         *)
GetConnectionReuse(u) ==
    /\ mgrUp
    /\ u \in DOMAIN pool
    /\ pool' = [pool EXCEPT ![u].idle = 0]
    /\ UNCHANGED <<live, nextSess, hkDue, mgrUp>>

GetConnectionCreateUnguarded(u) ==
    /\ mgrUp
    /\ nextSess <= MaxSessions
    /\ pool' = (u :> [sess |-> nextSess, idle |-> 0]) @@ pool
    /\ live' = live \cup {nextSess}
    /\ nextSess' = nextSess + 1
    /\ UNCHANGED <<hkDue, mgrUp>>

GetConnectionCreateSameId(u) ==
    /\ mgrUp
    /\ u \notin DOMAIN pool
    /\ nextSess <= MaxSessions
    /\ pool' = pool @@ (u :> [sess |-> nextSess, idle |-> 0])
    /\ live' = live \cup {nextSess}
    /\ UNCHANGED <<nextSess, hkDue, mgrUp>>

(* GetConnection, miss: create() establishes and authenticates a session   *)
(* and inserts it.  It is only reached when get() found no entry.          *)
GetConnectionCreate(u) ==
    /\ mgrUp
    /\ u \notin DOMAIN pool
    /\ nextSess <= MaxSessions
    /\ pool' = pool @@ (u :> [sess |-> nextSess, idle |-> 0])
    /\ live' = live \cup {nextSess}
    /\ nextSess' = nextSess + 1
    /\ UNCHANGED <<hkDue, mgrUp>>

(* GetConnection, miss, and establishment fails (refused, auth, TLS): the  *)
(* error is returned and nothing is inserted.                              *)
GetConnectionFail(u) ==
    /\ mgrUp
    /\ u \notin DOMAIN pool
    /\ UNCHANGED cmVars

IsStaleLate(e) == e.idle > KeepAlive + 1

(* The lease test of closeUnused: time.Since(lastTimeAccess) > keepAlive.  *)
IsStale(e) == e.idle > KeepAlive

(* closeUnused, run by the housekeeper on every tick: disconnect and       *)
(* delete every entry idle longer than KeepAlive.                          *)
CloseUnused ==
    /\ mgrUp
    /\ hkDue
    /\ LET stale == {u \in DOMAIN pool : IsStale(pool[u])}
       IN  /\ pool' = Restrict(pool, DOMAIN pool \ stale)
           /\ live' = live \ {pool[u].sess : u \in stale}
    /\ hkDue' = FALSE
    /\ UNCHANGED <<nextSess, mgrUp>>

(* Destroy: stop the housekeeper and close every pooled session.           *)
Destroy ==
    /\ mgrUp
    /\ live' = live \ PooledSessions
    /\ pool' = EmptyPool
    /\ hkDue' = FALSE
    /\ mgrUp' = FALSE
    /\ UNCHANGED nextSess

(* One housekeeping interval passes: every entry ages and the ticker       *)
(* fires.  The previous tick has been served (~hkDue).                     *)
Elapse ==
    /\ ~hkDue
    /\ pool' = [u \in DOMAIN pool |->
                   [pool[u] EXCEPT !.idle = IF @ > KeepAlive THEN @ ELSE @ + 1]]
    /\ hkDue' = mgrUp
    /\ UNCHANGED <<live, nextSess, mgrUp>>

-----------------------------------------------------------------------------
(* The manager seen as the abstract pool: an identity's session is its     *)
(* entry's session, and the sessions ever established are 1..nextSess-1.  *)
Abstract == INSTANCE PoolAbstract WITH
                apool <- [u \in DOMAIN pool |-> pool[u].sess],
                alive <- live,
                used <- 1..(nextSess - 1)

(* The connections map, housekeeper and Destroy together implement the     *)
(* abstract pool: GetConnection only ever pools a session never handed     *)
(* out before under an identity that has none, and closeUnused and Destroy *)
(* only disconnect pooled sessions and forget their entries, so no         *)
(* session is shared by two identities or revived after its close.         *)
PoolRefinement == Abstract!ASpec

=============================================================================
