-------------------------------- MODULE Plugin --------------------------------
(***************************************************************************)
(* The dispatch layer, Plugin.Export in plugin/mongodb.go, run by several  *)
(* concurrent agent requests against one ConnManager, together with the    *)
(* plugin lifecycle Start/Stop.  A handler is abstracted to its outcome    *)
(* ("ok" or "err"); the ping handler keeps its own result mapping because  *)
(* Export's contract for mongodb.ping depends on it.                       *)
(*                                                                         *)
(* Each Export is three steps: the synchronous part up to the handler call *)
(* (parameter evaluation and GetConnection, done under the manager mutex), *)
(* the handler's return, and Export's error mapping, which reads ctx.Err() *)
(* only after logging the handler's error.  Between them time passes and  *)
(* the housekeeper runs.  remaining[w] is the time left before the request *)
(* context's deadline.                                                     *)
(***************************************************************************)
EXTENDS ConnManager

CONSTANTS
    Workers,       \* concurrent Export calls of the agent (model values)
    Keys,          \* metric keys
    KeyPing,       \* keyPing, "mongodb.ping"
    ConnTimeout,   \* PluginOptions.Timeout, returned by conn.getTimeout()
    ItemTimeouts   \* values of pluginCtx.Timeout() the agent may pass

ASSUME KeyPing \in Keys
ASSUME ConnTimeout \in Nat \ {0}
ASSUME ItemTimeouts \subseteq Nat \ {0}

VARIABLES
    pc,         \* "idle", "handling" (inside handleMetric) or "returned"
    key,        \* key of the worker's current or last request
    sess,       \* session the running handler was given
    remaining,  \* intervals left before ctx's deadline
    outcome,    \* what the handler returned: "ok", "err" or "deadline"
    result      \* what the last Export returned

wVars == <<pc, key, sess, remaining, outcome, result>>
vars == <<cmVars, wVars>>

Results == {"None", "ParamError", "ConnError", "PingOk", "PingFailed",
            "Ok", "FetchError", "Timeout"}

TypeOK ==
    /\ CMTypeOK
    /\ pc \in [Workers -> {"idle", "handling", "returned"}]
    /\ key \in [Workers -> Keys]
    /\ sess \in [Workers -> Sessions \cup {NoSession}]
    /\ remaining \in [Workers -> Nat]
    /\ outcome \in [Workers -> {"none", "ok", "err", "deadline"}]
    /\ result \in [Workers -> Results]

Init ==
    /\ CMInit
    /\ pc = [w \in Workers |-> "idle"]
    /\ key = [w \in Workers |-> KeyPing]
    /\ sess = [w \in Workers |-> NoSession]
    /\ remaining = [w \in Workers |-> 0]
    /\ outcome = [w \in Workers |-> "none"]
    /\ result = [w \in Workers |-> "None"]

(* The timeout Export gives the handler's context: the session's timeout,  *)
(* raised to the agent's item timeout when that is larger.                 *)
EffectiveTimeout(it) == IF ConnTimeout < it THEN it ELSE ConnTimeout

ConnErrorResultNoPing(k) == "ConnError"

(* What Export returns when GetConnection fails: mongodb.ping must answer  *)
(* PingFailed with no error, every other key returns the error.            *)
ConnErrorResult(k) == IF k = KeyPing THEN "PingFailed" ELSE "ConnError"

(* PingHandler: a failing Ping, whatever the cause, is PingFailed, nil.    *)
PingHandler(o) == IF o = "ok" THEN "PingOk" ELSE "PingFailed"

(* Export's mapping of a handler result: an error while ctx's deadline has *)
(* passed (r = 0 when ctx.Err() is read) becomes the timeout error, any    *)
(* other error is wrapped.                                                 *)
ExportResult(k, o, r) ==
    IF k = KeyPing THEN PingHandler(o)
    ELSE IF o = "ok" THEN "Ok"
    ELSE IF r = 0 THEN "Timeout"
    ELSE "FetchError"

(* A command on a disconnected session fails; on a live one it may succeed *)
(* or fail (server error, network).  At the deadline the driver gives up:  *)
(* the handler returns context.DeadlineExceeded.                           *)
HandlerOutcomes(s, r) ==
    IF r = 0 THEN {"deadline"}
    ELSE IF s \in live THEN {"ok", "err"} ELSE {"err"}

(* Export up to the handler call.  EvalParams, SetDefaults and             *)
(* uri.NewWithCreds may reject the parameters before any connection is     *)
(* asked for; otherwise GetConnection either fails or yields a session.    *)
ExportStart(w) ==
    /\ pc[w] = "idle"
    /\ mgrUp
    /\ \E k \in Keys, u \in URIs, it \in ItemTimeouts :
          /\ key' = [key EXCEPT ![w] = k]
          /\ \/ /\ result' = [result EXCEPT ![w] = "ParamError"]
                /\ UNCHANGED <<cmVars, pc, sess, remaining, outcome>>
             \/ /\ GetConnectionFail(u)
                /\ result' = [result EXCEPT ![w] = ConnErrorResult(k)]
                /\ UNCHANGED <<pc, sess, remaining, outcome>>
             \/ /\ GetConnectionReuse(u) \/ GetConnectionCreate(u)
                /\ pc' = [pc EXCEPT ![w] = "handling"]
                /\ sess' = [sess EXCEPT ![w] = pool'[u].sess]
                /\ remaining' = [remaining EXCEPT ![w] = EffectiveTimeout(it)]
                /\ outcome' = [outcome EXCEPT ![w] = "none"]
                /\ result' = [result EXCEPT ![w] = "None"]

(* handleMetric returns (by its deadline at the latest) and no longer uses *)
(* the session.                                                            *)
HandlerReturn(w) ==
    /\ pc[w] = "handling"
    /\ \E o \in HandlerOutcomes(sess[w], remaining[w]) :
          outcome' = [outcome EXCEPT ![w] = o]
    /\ pc' = [pc EXCEPT ![w] = "returned"]
    /\ sess' = [sess EXCEPT ![w] = NoSession]
    /\ UNCHANGED <<cmVars, key, remaining, result>>

(* Export maps the outcome, reading ctx.Err() now; the deferred cancel     *)
(* releases the context.                                                   *)
ExportReturn(w) ==
    /\ pc[w] = "returned"
    /\ result' = [result EXCEPT ![w] = ExportResult(key[w], outcome[w], remaining[w])]
    /\ pc' = [pc EXCEPT ![w] = "idle"]
    /\ remaining' = [remaining EXCEPT ![w] = 0]
    /\ UNCHANGED <<cmVars, key, sess, outcome>>

(* Time left before each request's deadline after one more interval.       *)
Countdown == [w \in Workers |->
                IF pc[w] = "idle" \/ remaining[w] = 0 THEN 0 ELSE remaining[w] - 1]

TickPastDeadline ==
    /\ Elapse
    /\ remaining' = [w \in Workers |->
                       IF pc[w] = "idle" THEN 0 ELSE remaining[w] - 1]
    /\ UNCHANGED <<pc, key, sess, outcome, result>>

(* One housekeeping interval passes.  A handler whose deadline has come    *)
(* returns before time moves past it: context.WithTimeout bounds it.       *)
Tick ==
    /\ \A w \in Workers : pc[w] = "handling" => remaining[w] > 0
    /\ Elapse
    /\ remaining' = Countdown
    /\ UNCHANGED <<pc, key, sess, outcome, result>>

Housekeep ==
    /\ CloseUnused
    /\ UNCHANGED wVars

(* Plugin.Start: a new ConnManager.                                        *)
Start ==
    /\ NewConnManager
    /\ UNCHANGED wVars

(* Plugin.Stop: connMgr.Destroy(); connMgr = nil.  Nothing waits for the  *)
(* running Exports: a handler may still hold a session Destroy closes,     *)
(* and its later commands fail (HandlerOutcomes).                          *)
Stop ==
    /\ Destroy
    /\ UNCHANGED wVars

Next ==
    \/ \E w \in Workers : ExportStart(w) \/ HandlerReturn(w) \/ ExportReturn(w)
    \/ Tick
    \/ Housekeep
    \/ Start
    \/ Stop

(* The housekeeper goroutine and the clock never stop; a handler always    *)
(* returns by its deadline.                                                *)
Fairness ==
    /\ WF_vars(Tick)
    /\ WF_vars(Housekeep)
    /\ \A w \in Workers : WF_vars(HandlerReturn(w)) /\ WF_vars(ExportReturn(w))

Spec == Init /\ [][Next]_vars /\ Fairness

-----------------------------------------------------------------------------
(* Every live session is owned by the pool: Export, housekeeping and       *)
(* Destroy never leave an established session outside the map (leaked),   *)
(* so no identity ever has two live sessions.                              *)
NoLeakedSession == live = PooledSessions

(* The housekeeper never disconnects a session a running handler holds:   *)
(* the access-time refresh in GetConnection must outlast the request's     *)
(* context, which Export sets to max(Timeout, item timeout).  Only Stop's  *)
(* Destroy, which tears the manager down, may close it under the handler.  *)
HeldSessionLive ==
    [][\A w \in Workers :
          (pc[w] = "handling" /\ sess[w] \in live /\ sess[w] \notin live') => ~mgrUp'
      ]_vars

(* mongodb.ping never returns an error once its parameters are accepted:   *)
(* a connection failure in Export and a failing Ping (including one cut    *)
(* by the deadline) both answer PingFailed.                                *)
PingNeverErrors ==
    \A w \in Workers :
        key[w] = KeyPing => result[w] \in {"None", "ParamError", "PingOk", "PingFailed"}

(* Export reports the timeout error only for a request cut by its          *)
(* deadline: a handler's own error (server or network) is wrapped as a     *)
(* fetch error (spec.md 7), even when the deadline passes while Export is  *)
(* still logging it before reading ctx.Err().                              *)
TimeoutOnlyForDeadline ==
    \A w \in Workers : result[w] = "Timeout" => outcome[w] = "deadline"

(* A session idle longer than KeepAlive is eventually closed by the        *)
(* housekeeper unless a request reuses it first.                           *)
IdleSessionEvicted ==
    \A u \in URIs :
        (u \in DOMAIN pool /\ pool[u].idle > KeepAlive)
            ~> (u \notin DOMAIN pool \/ pool[u].idle <= KeepAlive)

=============================================================================
