---------------------------- MODULE MCHookInstall ----------------------------
(* Small instances of HookInstall: two hooked events and one other.         *)
EXTENDS HookInstall

CONSTANTS linter

NoEvents == [e \in {} |-> <<>>]
Only(e, entries) == [d \in {e} |-> entries]

(* None, broken, {}, other keys alone, handlers of the user in and out of   *)
(* groups, groups that are empty or have other keys, hooks of AgentContract *)
(* by hand, beside a handler of the user, and for an event of another time. *)
MCUserFiles ==
    {Missing, Broken, Content(FALSE, FALSE, NoEvents), Content(TRUE, TRUE, NoEvents),
     Content(FALSE, FALSE, Only("Stop", <<Alone(linter)>>)),
     Content(FALSE, FALSE, Only("Stop", <<Alone(AC), Group(<<linter>>, FALSE)>>)),
     Content(TRUE, FALSE, Only("PreToolUse", <<Group(<<AC, linter>>, FALSE), Group(<<>>, FALSE)>>)),
     Content(TRUE, FALSE, Only("Stop", <<Group(<<AC>>, TRUE), Alone(linter)>>)),
     Content(TRUE, TRUE, Only("Other", <<Group(<<AC>>, FALSE)>>)),
     Content(TRUE, FALSE, Only("Other", <<>>))}
==============================================================================
