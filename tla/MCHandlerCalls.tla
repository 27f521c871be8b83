---------------------------- MODULE MCHandlerCalls ----------------------------
(* Two handler calls the agent has in flight at once: OplogStatsHandler    *)
(* (OplogStats) and one call of the command, jumbo-chunks or version       *)
(* handlers (Handlers).  They share nothing but the session, so each step  *)
(* is a step of one call with the other's state unchanged.                 *)
EXTENDS Naturals

VARIABLES
    oplog, coll, step, firstTs, lastTs, oStatus,   \* the oplog call
    writes, oldestSeen,                             \* and the server
    call, srv, status                               \* the other call

oVars == <<oplog, coll, step, firstTs, lastTs, oStatus, writes, oldestSeen>>
hVars == <<call, srv, status>>

MCTimestamps == 1..4
MCOplogCap == 3
MCMaxWrites == 2
MCCommandHandlers == {"ServerStatusHandler", "DatabaseStatsHandler",
                      "CollectionStatsHandler", "ConnPoolStatsHandler",
                      "ReplSetConfigHandler", "CollectionsUsageHandler"}
MCChecked == MCCommandHandlers \cup {"JumboChunksHandler"}
MCCalled == MCChecked \cup {"VersionHandler"}

O == INSTANCE OplogStats WITH Timestamps <- MCTimestamps, OplogCap <- MCOplogCap,
                              MaxWrites <- MCMaxWrites, status <- oStatus
H == INSTANCE Handlers WITH CommandHandlers <- MCCommandHandlers,
                            Called <- MCCalled, Checked <- MCChecked

Init == O!Init /\ H!Init

Next ==
    \/ O!Next /\ UNCHANGED hVars
    \/ H!Next /\ UNCHANGED oVars

Spec == Init /\ [][Next]_<<oVars, hVars>>

(* The oplog call's variables keep their types.                            *)
OTypeOK == O!TypeOK

(* OplogStatsHandler answers from the first non-empty oplog collection, *)
(* with a timediff between 0 and the window that collection held at its   *)
(* first read, while the server writes the oplog (OplogStats).             *)
OTimeDiffWithinWindow == O!TimeDiffWithinWindow

(* Every checked handler answers ok without a cause, and with the error    *)
(* of spec.md 7 that names its cause otherwise (Handlers).                  *)
ErrorsFollowTaxonomy == H!ErrorsFollowTaxonomy

=============================================================================
