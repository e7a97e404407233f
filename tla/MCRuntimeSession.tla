--------------------------- MODULE MCRuntimeSession ---------------------------
(* Small instances of RuntimeSession: two runtimes on one trace of a shared  *)
(* store, one of which records all decisions; one action and one rule, which *)
(* forbids the action beforehand and its effect "breach" afterwards, so that *)
(* a violation is found afterwards when the rule came while the action ran.  *)
EXTENDS RuntimeSession

CONSTANTS r1, r2, t1, c1

\* uuid4: no two generators ever yield the same identifier.
UniqueIds == [r \in Runtimes |-> [n \in 1..MaxIds |-> <<r, n>>]]
\* IdGenerator(deterministic=True): every generator counts from 1.
CountedIds == [r \in Runtimes |-> [n \in 1..MaxIds |-> <<"evt", n>>]]

UserIds == {<<"user", n>> : n \in 1..2}
MCEventIds == UserIds \cup UNION {{EventId[r][n] : n \in 1..MaxIds} : r \in Runtimes}
MCCallIds == GivenIds \cup UNION {{NewCallId[r][n] : n \in 1..MaxIds} : r \in Runtimes}
MCTraceOf == [r \in Runtimes |-> t1]
MCNumbers == 0..(2 * MaxIds + 3)

MCForbids == {<<"rule", "act">>}
MCForbidsAfter == {<<"rule", "act", "breach">>}

\* An event that leaves a gap in the numbers; a result that user code records.
MCUserEvents ==
    {[id |-> <<"user", 1>>, trace |-> t1, sequence |-> 3, kind |-> "OTHER",
      parent |-> None, call |-> None],
     [id |-> <<"user", 2>>, trace |-> t1, sequence |-> 1, kind |-> "TOOL_RESULT",
      parent |-> None, call |-> c1]}
MCUserPointers == {[trace |-> t1, id |-> <<"user", 1>>]}
===============================================================================
