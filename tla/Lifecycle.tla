------------------------------- MODULE Lifecycle -------------------------------
(***************************************************************************)
(* The plugin's lifecycle (plugin/mongodb.go Start and Stop) composed with *)
(* its configuration (Config) and with the part of Export that reads the   *)
(* plugin's fields: EvalParams and SetDefaults read p.options, then        *)
(* GetConnection dereferences p.connMgr.  Nothing in Plugin synchronises    *)
(* these fields.  The agent starts a configured plugin, dispatches Export  *)
(* only to a started one, and sends Stop (terminate) when it shuts the     *)
(* plugin down; a request it dispatched before may still be running then. *)
(* What GetConnection does with a live manager is the subject of Plugin;   *)
(* here a request that got one is "Served".                                *)
(***************************************************************************)
EXTENDS Config

CONSTANTS
    Workers   \* concurrent Export calls (model values)

VARIABLES
    rpc,      \* worker -> "idle", or "params" (inside lines 48-66 of Export)
    rresult   \* worker -> what its last Export did

lVars == <<rpc, rresult>>
allVars == <<vars, lVars>>

LTypeOK ==
    /\ TypeOK
    /\ rpc \in [Workers -> {"idle", "params"}]
    /\ rresult \in [Workers -> {"None", "ParamError", "Served", "NilManager"}]

LInit ==
    /\ Init
    /\ rpc = [w \in Workers |-> "idle"]
    /\ rresult = [w \in Workers |-> "None"]

(* The agent's Start of a stopped, configured plugin.                      *)
StartPlugin ==
    /\ ~mgr.up
    /\ Start
    /\ UNCHANGED lVars

(* Plugin.Stop: connMgr.Destroy(), then connMgr = nil.  The agent may send *)
(* it while an Export it dispatched earlier is still running.              *)
Stop ==
    /\ mgr.up
    /\ mgr' = NoMgr
    /\ UNCHANGED <<text, verdict, options, configured, lVars>>

(* Export, lines 48-66: EvalParams, SetDefaults, uri.NewWithCreds and the  *)
(* handler lookup.  Parameters may be rejected before connMgr is used.     *)
ExportParams(w) ==
    /\ rpc[w] = "idle"
    /\ mgr.up
    /\ \/ rresult' = [rresult EXCEPT ![w] = "ParamError"] /\ UNCHANGED rpc
       \/ rpc' = [rpc EXCEPT ![w] = "params"] /\ UNCHANGED rresult
    /\ UNCHANGED vars

(* Export, line 68: p.connMgr.GetConnection.  The field is read now; after *)
(* Stop it is nil and the call dereferences a nil *ConnManager.           *)
ExportConnect(w) ==
    /\ rpc[w] = "params"
    /\ rpc' = [rpc EXCEPT ![w] = "idle"]
    /\ rresult' = [rresult EXCEPT ![w] = IF mgr.up THEN "Served" ELSE "NilManager"]
    /\ UNCHANGED vars

LNext ==
    \/ Validate /\ UNCHANGED lVars
    \/ \E g \in GlobalTimeouts : Configure(g) /\ UNCHANGED lVars
    \/ StartPlugin
    \/ Stop
    \/ \E w \in Workers : ExportParams(w) \/ ExportConnect(w)

LSpec == LInit /\ [][LNext]_allVars

-----------------------------------------------------------------------------
(* Export never dereferences a nil connection manager (spec.md 4.1: after  *)
(* Destroy, GetConnection must fail cleanly or recreate a pool, never      *)
(* panic), even when Stop arrives while a request is evaluating its        *)
(* parameters.                                                             *)
NoNilManagerUse == \A w \in Workers : rresult[w] # "NilManager"

=============================================================================
