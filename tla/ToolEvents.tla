------------------------------ MODULE ToolEvents ------------------------------
(***************************************************************************)
(* What tools report and what the trace records of it: to_tool_result of   *)
(* integrations/codex/adapter.py for the tool_response of a PostToolUse    *)
(* hook, and of adapters/tool_events.py for the records of other agents.   *)
(* The status and exit code that EvidenceGate judges by come from here.    *)
(***************************************************************************)
EXTENDS EvidenceGate

CONSTANT Odd  \* an exit code that is present and no number

(* The words of a record's status, by what they mean; "1" and 1 are        *)
(* failures, "0" and 0 successes.                                          *)
StatusWords == {"SUCCESS", "ERROR", "TIMEOUT", "CANCELLED", "unknown"}

ASSUME OddAssumption ==
    /\ Odd \notin ExitCodes \cup {None}
    /\ None \notin StatusWords /\ None # 0

(* mapping, text, other: the tool_response of a hook; record: of another   *)
(* agent.  flagged: is_error or an error is given, or the text names one.  *)
(* exit: the exit_code, or the one the text names; code: the status_code;  *)
(* quoted: exit is written as a string; word: the status.  Other keys of a *)
(* hook's mapping that may tell of a failure (isError, status) are not read*)
(* by the adapter and left out.                                            *)
Codes == ExitCodes \cup {None, Odd}
Response ==
    [form : {"mapping"}, flagged : BOOLEAN, exit : Codes, code : Codes,
     quoted : {FALSE}, word : {None}]
    \cup [form : {"text"}, flagged : BOOLEAN, exit : ExitCodes \cup {None}, code : {None},
          quoted : {FALSE}, word : {None}]
    \cup [form : {"other"}, flagged : {FALSE}, exit : {None}, code : {None},
          quoted : {FALSE}, word : {None}]
    \cup [form : {"record"}, flagged : BOOLEAN, exit : Codes, code : {None},
          quoted : BOOLEAN, word : StatusWords \cup {None}]

Outcome(status, exit) == [status |-> status, exit |-> exit]
Refused == Outcome(None, None)

-------------------------------------------------------------------------------

(* A status_code counts only when there is no exit_code at all.            *)
(* Mutant: a status_code is not looked at.                                 *)
BugReadCode(x) == IF x.exit = Odd THEN None ELSE x.exit

ReadCode(x) ==
    LET given == IF x.exit = None THEN x.code ELSE x.exit
    IN  IF given = Odd THEN None ELSE given

(* A hook's response that says nothing of an exit code has ended with 0,   *)
(* unless it names an error, or is neither a mapping nor a text.           *)
HookResult(x) ==
    CASE x.form = "other" -> Outcome("SUCCESS", None)
      [] x.form # "other" /\ (x.flagged \/ ReadCode(x) \notin {0, None}) ->
            Outcome("ERROR", ReadCode(x))
      [] OTHER -> Outcome("SUCCESS", 0)

(* A record's status decides when there is one; without one an error or a  *)
(* code other than the number 0 does.  An unknown status and a code that   *)
(* is no number are refused.                                               *)
RecordResult(x) ==
    LET failed == x.flagged \/ (x.exit # None /\ (x.quoted \/ x.exit # 0))
    IN  CASE x.word = "unknown" \/ x.exit = Odd -> Refused
          [] x.word \notin {"unknown", None} /\ x.exit # Odd -> Outcome(x.word, x.exit)
          [] x.word = None /\ x.exit # Odd ->
                Outcome(IF failed THEN "ERROR" ELSE "SUCCESS", x.exit)

ToToolResult(x) == IF x.form = "record" THEN RecordResult(x) ELSE HookResult(x)

(* The responses that may stand behind a recorded result.                  *)
ReportedAs ==
    [i \in EventIds |->
        {x \in Response : ToToolResult(x) = Outcome(Payload[i].status, Payload[i].exit)}]

-------------------------------------------------------------------------------
(* Properties                                                              *)

(* The code a response reports, if it reports one that can be read.        *)
Reported(x) == {IF x.exit = None THEN x.code ELSE x.exit} \ {None, Odd}

ReportsFailure(x) ==
    IF x.word # None THEN x.word # "SUCCESS" ELSE x.flagged \/ Reported(x) \ {0} # {}

(* No claim about an execution is VERIFIED by a result that was reported   *)
(* as a failure, or with another exit code than the claim is about, by the *)
(* words and keys that the adapters read (Response); and with another      *)
(* agent's record exiting with zero is verified by a reported 0 alone      *)
(* (to_tool_result of both adapters, evaluate).                            *)
VerifiedAsReported ==
    \A v \in Current : v.verdict = "VERIFIED" /\ ~TraceLevel(v.claim) =>
        \A r \in Refs(v) : \A x \in ReportedAs[r.id] :
            /\ ~ReportsFailure(x)
            /\ v.claim.type = "COMMAND_EXITED_ZERO" =>
                  Reported(x) = {0} \/ (Reported(x) = {} /\ x.form \in {"mapping", "text"})
            /\ v.claim.type \in {"TOOL_SUCCEEDED", "TESTS_PASSED"} /\ v.claim.expected # None =>
                  Reported(x) \subseteq {v.claim.expected}
===============================================================================
