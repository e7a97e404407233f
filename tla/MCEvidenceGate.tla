---------------------------- MODULE MCEvidenceGate ----------------------------
(* A small instance of EvidenceGate: two executions of one tool in trace x,  *)
(* the second in another session, with the outcomes that the claim types     *)
(* tell apart; a call with the same id in trace y; observations of a file.   *)
EXTENDS ToolEvents, TLC

CONSTANTS x, y, k1, k2, s1, s2, tool, pytest, make, file

Bare == [session |-> s1, tool |-> None, commands |-> {}, pytest |-> FALSE, status |-> "SUCCESS",
         exit |-> None, observation |-> FALSE, present |-> {}, gone |-> {}]

MCPayload ==
    ("call1" :> [Bare EXCEPT !.tool = tool, !.commands = {make}, !.pytest = TRUE]) @@
    ("call2" :> [Bare EXCEPT !.tool = tool, !.commands = {pytest}, !.session = s2]) @@
    ("other" :> [Bare EXCEPT !.tool = tool]) @@
    ("zero" :> [Bare EXCEPT !.exit = 0, !.present = {file}]) @@
    ("silent" :> Bare) @@
    ("odd" :> [Bare EXCEPT !.exit = 1]) @@
    ("failed" :> [Bare EXCEPT !.status = "ERROR", !.present = {file}]) @@
    ("late" :> [Bare EXCEPT !.status = "TIMEOUT", !.session = s2, !.gone = {file}, !.present = {file}]) @@
    ("answer" :> [Bare EXCEPT !.exit = 0]) @@
    ("seen" :> [Bare EXCEPT !.observation = TRUE, !.present = {file}, !.session = None]) @@
    ("lost" :> [Bare EXCEPT !.observation = TRUE, !.gone = {file}]) @@
    ("said" :> [Bare EXCEPT !.present = {file}])

MCEventIds == DOMAIN MCPayload

New(i, t, kind, call) ==
    [id |-> i, trace |-> t, sequence |-> 0, kind |-> kind, parent |-> None, call |-> call]
MCCandidates ==
    {New("call1", x, "TOOL_CALL", k1), New("call2", x, "TOOL_CALL", k2),
     New("other", y, "TOOL_CALL", k1), New("late", x, "TOOL_RESULT", k2),
     New("answer", y, "TOOL_RESULT", k1),
     New("seen", x, "OTHER", None), New("lost", x, "OTHER", None), New("said", x, "OTHER", None)}
    \cup {New(i, x, "TOOL_RESULT", k1) : i \in {"zero", "silent", "odd", "failed"}}

MCNumbers == 0..MaxEvents

About(q, type) ==
    [id |-> q, type |-> type, trace |-> x, session |-> None, call |-> None, tool |-> None,
     command |-> None, path |-> None, expected |-> None]
MCClaims ==
    {[About("q1", "TOOL_SUCCEEDED") EXCEPT !.call = k1],
     [About("q1", "TOOL_SUCCEEDED") EXCEPT !.call = k1, !.trace = y],
     [About("q1", "TESTS_PASSED") EXCEPT !.command = pytest],
     [About("q1", "FILE_EXISTS") EXCEPT !.path = file, !.call = k2],
     [About("q1", "FILE_EXISTS") EXCEPT !.path = file, !.session = s1],
     [About("q1", "GENERIC") EXCEPT !.call = k1],
     [About("q2", "ACTION_COMPLETED") EXCEPT !.tool = tool],
     [About("q2", "COMMAND_EXITED_ZERO") EXCEPT !.tool = tool, !.session = s1],
     [About("q2", "TESTS_PASSED") EXCEPT !.call = k1, !.command = make, !.expected = 0],
     [About("q2", "TOOL_SUCCEEDED") EXCEPT !.call = k1, !.command = pytest],
     [About("q2", "TOOL_SUCCEEDED") EXCEPT !.tool = tool, !.trace = None],
     About("q2", "TOOL_SUCCEEDED"),
     [About("q2", "FILE_EXISTS") EXCEPT !.path = file]}
===============================================================================
