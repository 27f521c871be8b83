------------------------------- MODULE Handlers -------------------------------
(***************************************************************************)
(* The handlers of plugin/handlers that run a fixed sequence of session    *)
(* calls and return what they got: the command handlers (serverStatus,     *)
(* dbStats, collStats, connPoolStats, replSetGetConfig, top), which Run    *)
(* one command and json.Marshal the document; JumboChunksHandler (Find,    *)
(* then Count); VersionHandler (Run buildInfo, then read "version").       *)
(* srv fixes what the server answers each session call for this call of   *)
(* the handler: every call can fail, and json.Marshal fails on a document *)
(* holding a NaN or infinite double.  The handlers keep no state between  *)
(* calls, so one behaviour is one call of the handler the agent asked     *)
(* for, and one step.                                                      *)
(***************************************************************************)
EXTENDS Naturals, Sequences

CONSTANTS
    CommandHandlers,  \* the Run + Marshal handlers (a subset of the six below)
    Called,           \* the handlers the agent may call (a subset of AllKeys)
    Checked           \* the handlers whose answers are checked

KeyJumbo == "JumboChunksHandler"
KeyVersion == "VersionHandler"
AllKeys == CommandHandlers \cup {KeyJumbo, KeyVersion}

ASSUME Called \subseteq AllKeys /\ Checked \subseteq Called

CallOutcomes == {"ok", "err"}

(* The server's answers: Run of the command, whether the document it      *)
(* returned holds a non-finite double, Find and Count on config.chunks,    *)
(* and whether buildInfo carries "version".                                *)
Replies == [run : CallOutcomes, doc : {"finite", "nan"}, find : CallOutcomes,
            count : CallOutcomes, version : BOOLEAN]

VARIABLES
    call,    \* the handler the agent invoked
    srv,     \* what the server answers its session calls
    status   \* "pending", "ok" or the error the call returned

vars == <<call, srv, status>>

Init ==
    /\ call \in Called
    /\ srv \in Replies
    /\ status = "pending"

(* The call of handler k returns s.                                        *)
Answer(k, s) ==
    /\ call = k
    /\ status = "pending"
    /\ status' = s
    /\ UNCHANGED <<call, srv>>

CommandHandlerMarshalAsFetch(k) ==
    /\ k \in CommandHandlers \cap Called
    /\ Answer(k, IF srv.run = "err" \/ srv.doc = "nan" THEN "CannotFetchData" ELSE "ok")

(* Run(command) then json.Marshal(document): ErrorCannotFetchData or       *)
(* ErrorCannotMarshalJSON, wrapped around the cause.                       *)
CommandHandler(k) ==
    /\ k \in CommandHandlers \cap Called
    /\ Answer(k, CASE srv.run = "err" -> "CannotFetchData"
                   [] srv.doc = "nan" -> "CannotMarshalJSON"
                   [] OTHER -> "ok")

(* The six command handlers, each CommandHandler with its command.        *)
ServerStatusHandler == CommandHandler("ServerStatusHandler")
DatabaseStatsHandler == CommandHandler("DatabaseStatsHandler")
CollectionStatsHandler == CommandHandler("CollectionStatsHandler")
ConnPoolStatsHandler == CommandHandler("ConnPoolStatsHandler")
ReplSetConfigHandler == CommandHandler("ReplSetConfigHandler")
CollectionsUsageHandler == CommandHandler("CollectionsUsageHandler")

(* JumboChunksHandler: Find on config.chunks, then Count; either failing   *)
(* is ErrorCannotFetchData.  The count is returned as it is.              *)
JumboChunksHandler ==
    /\ KeyJumbo \in Called
    /\ Answer(KeyJumbo, IF srv.find = "err" \/ srv.count = "err"
                        THEN "CannotFetchData" ELSE "ok")

(* VersionHandler: a failed buildInfo and a reply without "version" are    *)
(* errors of their own (zbxerr.New).                                       *)
VersionHandler ==
    /\ KeyVersion \in Called
    /\ Answer(KeyVersion, CASE srv.run = "err" -> "BuildInfoFailed"
                            [] ~srv.version -> "VersionNotFound"
                            [] OTHER -> "ok")

Next ==
    \/ ServerStatusHandler
    \/ DatabaseStatsHandler
    \/ CollectionStatsHandler
    \/ ConnPoolStatsHandler
    \/ ReplSetConfigHandler
    \/ CollectionsUsageHandler
    \/ JumboChunksHandler
    \/ VersionHandler

Spec == Init /\ [][Next]_vars

-----------------------------------------------------------------------------
(* Reference for spec.md 7: the steps each handler takes in order, which   *)
(* of them failed on this server, and the error class of each kind of     *)
(* step: a round trip is FetchError, a reply of the wrong shape            *)
(* ParseError, an encoding MarshalError.                                   *)
Steps(k) ==
    CASE k = KeyJumbo -> <<"find", "count">>
      [] k = KeyVersion -> <<"run", "shape">>
      [] OTHER -> <<"run", "encode">>

Failed(st) ==
    CASE st = "run" -> srv.run = "err"
      [] st = "find" -> srv.find = "err"
      [] st = "count" -> srv.count = "err"
      [] st = "encode" -> srv.doc = "nan"
      [] st = "shape" -> ~srv.version

StepClass == [run |-> "CannotFetchData", find |-> "CannotFetchData",
              count |-> "CannotFetchData", encode |-> "CannotMarshalJSON",
              shape |-> "CannotParseResult"]

Expected(k) ==
    LET failures == SelectSeq(Steps(k), Failed)
    IN IF failures = <<>> THEN "ok" ELSE StepClass[Head(failures)]

(* Every answer of a checked handler is the reference's: it succeeds only  *)
(* when every step did on this server, and otherwise it reports the error *)
(* class of the first step that failed.                                    *)
ErrorsFollowTaxonomy ==
    (call \in Checked /\ status # "pending") => status = Expected(call)

=============================================================================
