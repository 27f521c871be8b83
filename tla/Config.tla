-------------------------------- MODULE Config --------------------------------
(***************************************************************************)
(* Plugin configuration (plugin/config.go) and the options Start hands to  *)
(* the connection manager (plugin/mongodb.go).  The agent may call         *)
(* Validate, Configure and Start in any order and more than once; the      *)
(* options text is fixed.  An option value is a number or Absent; a       *)
(* session's TLSConnect is a member of TLSValues.                          *)
(***************************************************************************)
EXTENDS Integers

CONSTANTS
    Timeouts,        \* Timeout values that may be written in the file
    KeepAlives,      \* KeepAlive values that may be written in the file
    TLSValues,       \* TLSConnect values that may be written in the file
    GlobalTimeouts,  \* the agent's global Timeout (1..30)
    Absent           \* the option is not written

(* validTLSOptions: empty, required, verify_ca, verify_full.               *)
validTLSOptions == {"", "required", "verify_ca", "verify_full"}

(* The option text: Timeout, KeepAlive, the TLSConnect of each named       *)
(* session, and of the Default session.                                     *)
OptionTexts == [timeout : Timeouts \cup {Absent}, keepAlive : KeepAlives \cup {Absent},
                sessionsTLS : SUBSET TLSValues, defaultTLS : TLSValues]

(* p.options, reduced to the fields the plugin reads.                      *)
ZeroOptions == [timeout |-> 0, keepAlive |-> 0]

(* Plugin.connMgr nil: no manager has been started.                        *)
NoMgr == [up |-> FALSE, timeout |-> 0, keepAlive |-> 0]

VARIABLES
    text,       \* the options the agent passes
    verdict,    \* what the last Validate returned: "none", "ok" or "err"
    options,    \* p.options
    configured, \* Configure has run
    mgr         \* whether a ConnManager runs, and the options it got

vars == <<text, verdict, options, configured, mgr>>

UnmarshalOkNoRange(t) == TRUE

(* conf.UnmarshalStrict: the range tags (Timeout 1:30, KeepAlive 60:900)   *)
(* reject a written value outside the range; KeepAlive defaults to 60.     *)
UnmarshalOk(t) ==
    /\ t.timeout = Absent \/ t.timeout \in 1..30
    /\ t.keepAlive = Absent \/ t.keepAlive \in 60..900

Unmarshal(t) ==
    [timeout |-> IF t.timeout = Absent THEN 0 ELSE t.timeout,
     keepAlive |-> IF t.keepAlive = Absent THEN 60 ELSE t.keepAlive]

Init ==
    /\ text \in OptionTexts
    /\ verdict = "none"
    /\ options = ZeroOptions
    /\ configured = FALSE
    /\ mgr = NoMgr

(* Validate: unmarshal into a fresh PluginOptions, then every named        *)
(* session's TLSConnect must be one of validTLSOptions.                    *)
Validate ==
    /\ verdict' = IF UnmarshalOk(text) /\ text.sessionsTLS \subseteq validTLSOptions
                  THEN "ok" ELSE "err"
    /\ UNCHANGED <<text, options, configured, mgr>>

ConfigureNoDefault(g) ==
    /\ options' = IF UnmarshalOk(text) THEN Unmarshal(text) ELSE options
    /\ configured' = TRUE
    /\ UNCHANGED <<text, verdict, mgr>>

(* Configure: unmarshal into p.options (a failure is only logged and       *)
(* leaves p.options as it was), then a zero Timeout takes the global one.  *)
Configure(g) ==
    /\ LET o == IF UnmarshalOk(text) THEN Unmarshal(text) ELSE options
       IN  options' = IF o.timeout = 0 THEN [o EXCEPT !.timeout = g] ELSE o
    /\ configured' = TRUE
    /\ UNCHANGED <<text, verdict, mgr>>

(* Start: NewConnManager(KeepAlive, Timeout, hkInterval).  The agent      *)
(* configures a plugin before starting it.                                 *)
Start ==
    /\ configured
    /\ mgr' = [up |-> TRUE, timeout |-> options.timeout, keepAlive |-> options.keepAlive]
    /\ UNCHANGED <<text, verdict, options, configured>>

Next == Validate \/ (\E g \in GlobalTimeouts : Configure(g)) \/ Start

Spec == Init /\ [][Next]_vars

-----------------------------------------------------------------------------
TypeOK ==
    /\ text \in OptionTexts
    /\ verdict \in {"none", "ok", "err"}
    /\ options \in [timeout : 0..30, keepAlive : {0} \cup 60..900]
    /\ configured \in BOOLEAN
    /\ mgr \in [up : BOOLEAN, timeout : 0..30, keepAlive : {0} \cup 60..900]

(* Options that Validate accepted start a manager with a Timeout in 1..30  *)
(* and a KeepAlive in 60..900 once Configure has run, whatever the order   *)
(* of the agent's calls: a zero Timeout must have been replaced by the     *)
(* global one, and an absent KeepAlive by its default.                     *)
ValidatedOptionsUsable ==
    (verdict = "ok" /\ mgr.up)
        => /\ mgr.timeout \in 1..30
           /\ mgr.keepAlive \in 60..900

=============================================================================
