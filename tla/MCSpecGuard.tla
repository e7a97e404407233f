----------------------------- MODULE MCSpecGuard -----------------------------
(* Small instances of SpecGuard: two files and three the adapter reads under*)
(* the name of the first, four patterns (each of the two, both, and the     *)
(* three), rules that differ in every dimension of a scope.                 *)
EXTENDS CodexAction

CONSTANTS val, edit, shell, save, load

At(root, steps) == [root |-> root, steps |-> steps]
f == <<At(FALSE, <<"f">>)>>
g == <<At(FALSE, <<"g">>)>>

(* 'f g', /f and a/f.                                                       *)
Odd == {f \o g, <<At(TRUE, <<"f">>)>>, <<At(FALSE, <<"a", "f">>)>>}

Files == {f, g}
MCPaths == Files \cup Odd
MCPatterns == {{f}, {g}, {f, g}, Odd}
MCCovers == {c \in MCPatterns \X MCPaths : c[2] \in c[1]}
MCVerbs == {"apply_patch", "write", "read", "delete", "call", "rm", "reads", "writes"}

NoVal == [k \in {"arg"} |-> None]
Val == [k \in {"arg"} |-> val]

MCAction(k, t, u, P, o, x, c) ==
    [kind |-> k, target |-> t, tool |-> u, paths |-> P, op |-> o, payload |-> x, context |-> c]

MCOwnActions ==
    {MCAction("FILE_WRITE", None, edit, P, None, None, NoVal) : P \in SUBSET Files}
    \cup {MCAction("TOOL_CALL", "filesystem", edit, P, None, None, NoVal) : P \in SUBSET Files}
    \cup {MCAction("COMMAND_EXEC", None, shell, {g}, "rm", x[1], x[2]) :
            x \in {<<Val, NoVal>>, <<Text, Val>>, <<None, NoVal>>}}

MCObservations ==
    {[kind |-> k, target |-> None, tool |-> None, context |-> NoVal,
      changed |-> C, accessed |-> R, output |-> o] :
        k \in {None, "FILE_READ"}, C \in SUBSET Files, R \in {{}, {g}}, o \in {None, Text}}

(* Parts of documents that do everything there is to one file or two.       *)
Part(does, p, q, bare, body) ==
    [does |-> does, from |-> p, path |-> q, bare |-> bare, body |-> body]
Hunk == <<Raw("text", <<>>)>>
Parts(style, p) ==
    {Part(does, p, p, FALSE, Hunk) : does \in {"change", "create", "delete"}}
    \cup {Part(does, p, p, TRUE, <<>>) : does \in IF style = "git" THEN {"create", "delete"} ELSE {}}

Document(style, files, named) ==
    [style |-> style, prefixed |-> style = "git", stamp |-> IF style = "index" THEN g ELSE <<>>,
     tool |-> edit, payload |-> None, files |-> files, named |-> named]

(* About one file, or both, in one style; about one, and that, the other or *)
(* both are named beside the text; a renamed file, and a removed line of a  *)
(* file that looks like a header; about an odd file, named besides or not,  *)
(* and with and without the prefixes a diff usually has or lacks.           *)
MCDocuments ==
    UNION {{Document(style, <<x>>, named) :
               x \in Parts(style, f), named \in {<<>>, <<f>>, <<g>>, <<g, f, g>>}}
           \cup {Document(style, <<x, y>>, <<>>) : x \in Parts(style, f), y \in Parts(style, g)}
           \cup {Document(style, <<Part("change", f, f, FALSE, <<Raw("minus", p)>>)>>, <<>>) :
                    p \in Files \cup {Under("a", g)}}
           \cup {Document(style, <<x>>, named) :
                    x \in UNION {Parts(style, p) : p \in Odd}, named \in {<<>>, <<f \o g>>}} :
               style \in Styles}
    \cup {[Document(style, <<x>>, <<>>) EXCEPT !.prefixed = style = "plain"] :
              style \in {"git", "plain"},
              x \in UNION {Parts("plain", p) : p \in Odd \cup {f}}}
    \cup {Document("git", <<Part("rename", f, g, bare, Hunk)>>, <<>>) : bare \in BOOLEAN}

MCPatchInputs == {InputOf(d) : d \in MCDocuments}
MCPatches == {ToPatch(x) : x \in MCPatchInputs}

MCSays == [t \in {edit, shell, save, load} |->
    CASE t = edit -> {"patch"} [] t = shell -> {"shell", "run"}
      [] t = save -> {"write", "read"} [] OTHER -> {"read", "run"}]

(* Stages that start one program, and what it writes.                       *)
Does(program, marks, P, W) ==
    [program |-> program, marks |-> marks, paths |-> P,
     runs |-> {[program |-> program, marks |-> marks, writes |-> W]}]

Quiet ==
    {Does("reader", {}, {f}, {}), Does("runner", {}, {}, {}), Does("module_runner", {}, {}, {}),
     Does("find", {}, {g}, {}), Does("git_read", {}, {}, {}), Does("echo", {}, {}, {})}
Writing ==
    {Does(s[1], s[2], s[3], {f}) : s \in
        {<<"mutator", {}, {f}>>, <<"mutator", {"wildcard"}, {}>>, <<"reader", {"redirect"}, {f}>>,
         <<"runner", {"redirect"}, {f}>>, <<"runner", {"dynamic"}, {}>>, <<"find", {"option"}, {f}>>,
         <<"git_other", {}, {f}>>, <<"interpreter", {}, {}>>, <<"echo", {"dynamic"}, {}>>,
         <<"reader", {"evaluation"}, {}>>, <<"unknown", {}, {f}>>,
         <<"git_read", {"output"}, {}>>, <<"git_read", {"output", "redirect"}, {}>>}}

(* A newline or a single & starts a second program that writes, one that    *)
(* stays hidden or not; the first is recognised or not.                     *)
Two(first, r) ==
    [program |-> first, marks |-> r[2], paths |-> {},
     runs |-> {[program |-> IF first = "unknown" THEN "reader" ELSE first,
                marks |-> {}, writes |-> {}],
               [program |-> r[1], marks |-> r[2], writes |-> {f}]}]
Twofold ==
    {Two(first, r) : first \in {"reader", "runner", "unknown"},
        r \in {<<"mutator", {}>>, <<"mutator", {"redirect"}>>, <<"runner", {"redirect"}>>}}

Run(commands, op) ==
    [tool |-> shell, payload |-> NoVal, named |-> None, commands |-> commands, op |-> op]

(* A stage alone; before, after or between others; in a chain, a pipeline   *)
(* or both; and output that is fed to an interpreter.                       *)
QuietCommands ==
    {<<<<s>>>> : s \in Quiet} \cup {<<<<s>>, <<t>>>> : s, t \in Quiet}
    \cup {<<<<s, t>>>> : s, t \in Quiet} \cup {<<>>}
WritingCommands ==
    {<<<<s>>>> : s \in Writing \cup Twofold}
    \cup UNION {{<<<<q>>, <<s>>>>, <<<<s>>, <<q>>>>, <<<<q, s>>>>, <<<<s, q>>>>,
                  <<<<q>>, <<q, s>>>>} :
                   s \in Writing, q \in {Does("reader", {}, {g}, {}), Does("runner", {}, {}, {})}}

Tool(t, P) == [tool |-> t, payload |-> NoVal, named |-> P, commands |-> <<>>, op |-> None]

MCToolInputs ==
    {Run(c, "reads") : c \in QuietCommands} \cup {Run(c, "writes") : c \in WritingCommands}
    \cup {Run(<<<<s>>>>, "reads") : s \in Writing \cup Twofold}
    \cup {Tool(load, P) : P \in {None, f}} \cup {Tool(save, P) : P \in {None, f, g}}
    \cup {Tool(edit, None)}

MCActions == MCOwnActions \cup {ToAction(x) : x \in MCToolInputs}

Everything ==
    [target |-> None, paths |-> {}, tools |-> {}, actions |-> {}, selectors |-> NoVal]
OnPaths(P) == [Everything EXCEPT !.paths = P]
WritesIn(P) == [OnPaths(P) EXCEPT !.actions = {"write"}]

Rule(sc, comp, eff, str) ==
    [scope |-> sc, compliance |-> comp, effect |-> eff, strength |-> str, status |-> "ACTIVE"]

MCRules ==
    {Rule(WritesIn({{f}}), None, "DENY", s) : s \in {"HARD", "SOFT", "ASSUMPTION"}}
    \cup {Rule([OnPaths({{g}}) EXCEPT !.actions = {x}], None, "DENY", "HARD") :
            x \in {"read", "delete", "call"}}
    \cup {Rule(WritesIn({}), OnPaths({{f}}), e, "HARD") : e \in {"REQUIRE", "PREFER"}}
    \cup {Rule([Everything EXCEPT !.tools = {shell}], [Everything EXCEPT !.selectors = Val],
               "REQUIRE", s) : s \in {"HARD", "SOFT"}}
    \cup {Rule([OnPaths({{f, g}}) EXCEPT !.target = "file"], None, "DENY", "HARD"),
          [Rule(OnPaths({{f, g}}), None, "DENY", "HARD") EXCEPT !.status = "CONFLICTED"],
          Rule(WritesIn({Odd}), None, "DENY", "HARD")}

MCLedgers == UNION {[1..n -> MCRules] : n \in 0..2}
==============================================================================
