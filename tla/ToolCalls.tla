------------------------------ MODULE ToolCalls ------------------------------
(***************************************************************************)
(* What a trace promises about tool calls: a call is declared once, then   *)
(* answered once, and a restart goes back to what was last saved and       *)
(* nowhere else.                                                           *)
(***************************************************************************)
CONSTANTS Traces, CallIds

VARIABLES
    status,  \* (trace, call) -> "unknown", "open" or "answered"
    kept     \* the statuses last saved

cvars == <<status, kept>>

CInit ==
    /\ status = [k \in Traces \X CallIds |-> "unknown"]
    /\ kept = status

Declare(k) ==
    /\ status[k] = "unknown"
    /\ status' = [status EXCEPT ![k] = "open"]
    /\ UNCHANGED kept

Respond(k) ==
    /\ status[k] = "open"
    /\ status' = [status EXCEPT ![k] = "answered"]
    /\ UNCHANGED kept

Keep == kept' = status /\ UNCHANGED status

Restart == status' = kept /\ UNCHANGED kept

CNext ==
    \/ \E k \in Traces \X CallIds : Declare(k) \/ Respond(k)
    \/ Keep
    \/ Restart

CSpec == CInit /\ [][CNext]_cvars
=============================================================================
