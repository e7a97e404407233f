------------------------------ MODULE CodexPatch ------------------------------
(***************************************************************************)
(* How PreToolUse reads a patch (parse_patch_paths, parse_patch_operations *)
(* and to_action of integrations/codex/adapter.py) before SpecGuard judges *)
(* its operations one by one.                                              *)
(*                                                                         *)
(* A path is the sequence of the words its blanks separate: my file.txt    *)
(* has two.  A patch text is a sequence of lines, and of a line its kind   *)
(* and the words after it count.  What the adapter takes for the path in   *)
(* them is not always the path that is written there.  Quotes, backslashes *)
(* and doubled slashes are left out.                                       *)
(***************************************************************************)
EXTENDS SpecGuard, SequencesExt, FiniteSets

CONSTANTS
    Segments,     \* what stands between the slashes of a path
    PatchInputs,  \* the inputs of apply_patch that may be judged
    Documents     \* patches in known formats whose inputs are among them

(* root: it starts with a slash.                                           *)
Word == [root : BOOLEAN, steps : Seq(Segments) \ {<<>>}]
Name == Seq(Word) \ {<<>>}

ASSUME PathAssumption == {"a", "b", "dev", "null"} \subseteq Segments /\ Paths \subseteq Name

Null == <<[root |-> TRUE, steps |-> <<"dev", "null">>]>>

(* put: *** Add File or *** Update File; delete: *** Delete File; header:  *)
(* any other *** line that names a path, marker: one that does not; gone:  *)
(* deleted file mode; fresh: new file mode; minus and plus: --- and +++.   *)
Stars == {"put", "delete", "header", "marker"}
LineKinds == Stars \cup {"diff", "gone", "fresh", "minus", "plus", "index", "text"}

(* What is read of a line.  Only a diff line has two paths; the path of    *)
(* any other line is new; None: no path or /dev/null.                      *)
Line == [kind : LineKinds, old : Optional(Paths), new : Optional(Paths)]

-------------------------------------------------------------------------------
(* _clean_path: what follows the first blank is dropped, then a leading a/ *)
(* or b/, in every format, then a leading slash.                           *)
Prefixed(w) == ~w.root /\ Len(w.steps) > 1 /\ w.steps[1] \in {"a", "b"}

CleanPath(words) ==
    IF words = <<>> \/ <<words[1]>> = Null THEN None
    ELSE <<[root |-> FALSE,
            steps |-> IF Prefixed(words[1]) THEN Tail(words[1].steps) ELSE words[1].steps]>>

(* The two words after diff --git, or what follows the start of the line.  *)
ReadLine(line) ==
    IF line.kind = "diff"
    THEN [kind |-> "diff", old |-> CleanPath(<<line.words[1]>>), new |-> CleanPath(<<line.words[2]>>)]
    ELSE [kind |-> line.kind, old |-> None, new |-> CleanPath(line.words)]

ReadText(text) == [n \in DOMAIN text |-> ReadLine(text[n])]

(* +++ /dev/null followed by a time stamp is a text line, as it is to the  *)
(* adapter; --- /dev/null with one is left out, and so is a diff line with *)
(* fewer than two words.                                                   *)
TextLine ==
    {line \in [kind : LineKinds, words : Seq(Word)] :
        /\ line.kind = "diff" => Len(line.words) > 1
        /\ line.kind \in {"minus", "plus", "header", "index"} => line.words # <<>>
        /\ line.kind \in {"marker", "gone", "fresh", "text"} => line.words = <<>>
        /\ line.kind \in {"minus", "plus"} /\ <<line.words[1]>> = Null => line.words = Null
        /\ ReadLine(line) \in Line}

(* named: the paths given beside the patch as path, file_path, file and    *)
(* target_path, in this order.                                             *)
PatchInput ==
    {x \in [tool : Tools, payload : Payload, text : Seq(TextLine), named : Seq(Paths)] :
        Len(x.named) <= 4}

-------------------------------------------------------------------------------
Given(p) == IF p = None THEN <<>> ELSE <<p>>

(* Each member where it comes first.                                       *)
Once(s) ==
    FlattenSeq([n \in DOMAIN s |-> IF \E m \in 1..(n - 1) : s[m] = s[n] THEN <<>> ELSE <<s[n]>>])

(* The paths read in the lines, from here on those of ReadText.            *)
ParsePatchPaths(text) ==
    Once(FlattenSeq([n \in DOMAIN text |-> Given(text[n].old) \o Given(text[n].new)]))

ToNull(line) == line.kind = "plus" /\ line.new = None
FromNull(line) == line.kind = "minus" /\ line.new = None

Op(k, p) == IF p = None THEN <<>> ELSE <<[kind |-> k, path |-> p]>>
WriteOrDelete(deleted) == IF deleted THEN "FILE_DELETE" ELSE "FILE_WRITE"

(* Mutant: a file's part of a git diff reaches to the end of the text.     *)
BugGitBlock(text, n) == (n + 1)..Len(text)

(* The lines that belong to the file of the diff line n.                   *)
GitBlock(text, n) ==
    {m \in (n + 1)..Len(text) :
        \A j \in (n + 1)..m : text[j].kind \notin Stars \cup {"diff"}}

(* The last line about creation or deletion says which of its two paths a  *)
(* diff is about.                                                          *)
GitOp(text, n) ==
    LET deletions == {m \in GitBlock(text, n) : text[m].kind = "gone" \/ ToNull(text[m])}
        creations == {m \in GitBlock(text, n) : text[m].kind = "fresh" \/ FromNull(text[m])}
        deletedLast == \E m \in deletions : \A j \in creations : j < m
    IN  Op(WriteOrDelete(deletions # {}),
           IF deletedLast THEN Or(text[n].old, text[n].new) ELSE Or(text[n].new, text[n].old))

(* A file named by Index is deleted if one of the next four lines says so. *)
IndexOp(text, n) ==
    LET after == {m \in (n + 1)..Min({Len(text), n + 4}) :
                     \A j \in (n + 1)..m : text[j].kind # "index"}
    IN  Op(WriteOrDelete(\E m \in after : ToNull(text[m])), text[n].new)

(* A line that is read together with the +++ line after it.                *)
Paired(text, n) ==
    /\ text[n].kind = "minus" /\ n < Len(text) /\ text[n + 1].kind = "plus"
    /\ None \in {text[n].new, text[n + 1].new}

(* What line n adds to the operations found before it.                     *)
LineOps(text, n, ops) ==
    LET line == text[n]
    IN  CASE line.kind = "delete" -> Op("FILE_DELETE", line.new)
          [] line.kind = "put" -> Op("FILE_WRITE", line.new)
          [] line.kind = "diff" -> GitOp(text, n)
          [] line.kind = "index" -> IndexOp(text, n)
          [] Paired(text, n) -> IF FromNull(line) THEN Op("FILE_WRITE", text[n + 1].new)
                                ELSE Op("FILE_DELETE", line.new)
          [] line.kind = "plus" /\ (\A m \in DOMAIN ops : ops[m].path # line.new) ->
                Op("FILE_WRITE", line.new)
          [] OTHER -> <<>>

(* What the loop over the lines has found after line n; second: it has     *)
(* read the next line with this one.                                       *)
ScanLine(acc, text, n) ==
    IF acc.second THEN [acc EXCEPT !.second = FALSE]
    ELSE [ops |-> acc.ops \o LineOps(text, n, acc.ops), second |-> Paired(text, n)]

Scanned(text) ==
    LET scan[n \in 0..Len(text)] ==
          IF n = 0 THEN [ops |-> <<>>, second |-> FALSE] ELSE ScanLine(scan[n - 1], text, n)
    IN  scan[Len(text)].ops

(* Paths the loop missed count as written and deleted.                     *)
ParsePatchOperations(text) ==
    LET ops == Scanned(text)
        paths == ParsePatchPaths(text)
    IN  ops \o FlattenSeq([n \in DOMAIN paths |->
                              IF \E m \in DOMAIN ops : ops[m].path = paths[n] THEN <<>>
                              ELSE Op("FILE_WRITE", paths[n]) \o Op("FILE_DELETE", paths[n])])

(* The paths beside the patch are taken as they are.                       *)
ToPatch(x) ==
    LET text == ReadText(x.text)
        beside == Once(x.named)
    IN  [tool |-> x.tool, payload |-> x.payload,
         ops |-> ParsePatchOperations(text)
                 \o FlattenSeq([n \in DOMAIN beside |->
                                   IF beside[n] \in Range(ParsePatchPaths(text)) THEN <<>>
                                   ELSE Op("FILE_WRITE", beside[n])])]

-------------------------------------------------------------------------------
(* The formats of patches, in one of which a document is written as a      *)
(* whole.  Every file it is about has one part: a header, which says what  *)
(* happens to the file, and a body of the lines that say how; no two parts *)
(* are about the same file.  What stands before the first part is left out *)
(* (for Codex, the line *** Begin Patch).                                  *)
Styles == {"codex", "git", "plain", "index"}

Raw(k, words) == [kind |-> k, words |-> words]

(* A removed line may look like a --- line, of any path; lines that look   *)
(* like another header are left out.                                       *)
BodyLine(style) ==
    {line \in TextLine :
        /\ line.kind \in {"text", "minus"} \/ (line.kind = "marker" /\ style = "codex")
        /\ line.kind = "minus" => line.words # Null}

(* from and path differ if the file is renamed, which only git can say;    *)
(* bare: the part of a git diff has no --- and +++ line.                   *)
FilePatch(style) ==
    {f \in [does : {"change", "create", "delete", "rename"}, from : Paths, path : Paths,
            bare : BOOLEAN, body : Seq(BodyLine(style))] :
        /\ f.does = "rename" <=> f.from # f.path
        /\ f.does = "rename" \/ f.bare => style = "git"}

(* How a diff writes the path p of the side a or b.                        *)
Under(side, p) == <<[root |-> FALSE, steps |-> <<side>> \o p[1].steps]>> \o Tail(p)
Written(d, side, p) == IF d.prefixed THEN Under(side, p) ELSE p

FromToLines(d, f) ==
    <<Raw("minus", IF f.does = "create" THEN Null ELSE Written(d, "a", f.from) \o d.stamp),
      Raw("plus", IF f.does = "delete" THEN Null ELSE Written(d, "b", f.path) \o d.stamp)>>

(* The line after the diff line stands for all that git says there.        *)
GitMark(f) ==
    CASE f.does = "create" -> "fresh" [] f.does = "delete" -> "gone" [] OTHER -> "text"

HeaderLines(d, f) ==
    CASE d.style = "codex" -> <<Raw(IF f.does = "delete" THEN "delete" ELSE "put", f.path)>>
      [] d.style = "git" ->
            <<Raw("diff", Written(d, "a", f.from) \o Written(d, "b", f.path)), Raw(GitMark(f), <<>>)>>
            \o (IF f.bare THEN <<>> ELSE FromToLines(d, f))
      [] d.style = "plain" -> FromToLines(d, f)
      [] d.style = "index" -> <<Raw("index", f.path), Raw("text", <<>>)>> \o FromToLines(d, f)

PartLines(d, f) == HeaderLines(d, f) \o f.body

Own(f) == {f.from, f.path}

(* prefixed: its paths are written with a/ and b/; stamp: what follows     *)
(* them in the --- and +++ lines, a time for instance.                     *)
IsDocument(d) ==
    /\ d.style \in Styles /\ d.tool \in Tools /\ d.payload \in Payload
    /\ d.prefixed \in BOOLEAN /\ (d.prefixed => d.style \in {"git", "plain"})
    /\ d.stamp \in Seq(Word) /\ (d.stamp # <<>> => d.style \in {"plain", "index"})
    /\ d.named \in Seq(Paths)
    /\ d.files \in Seq(FilePatch(d.style))
    /\ \A m, n \in DOMAIN d.files : m # n => Own(d.files[m]) \cap Own(d.files[n]) = {}

(* What PreToolUse is given of a document.                                 *)
InputOf(d) ==
    [tool |-> d.tool, payload |-> d.payload, named |-> d.named,
     text |-> FlattenSeq([n \in DOMAIN d.files |-> PartLines(d, d.files[n])])]

ASSUME PatchAssumption ==
    /\ PatchInputs \subseteq PatchInput
    /\ Patches = {ToPatch(x) : x \in PatchInputs}
    /\ \A d \in Documents : IsDocument(d) /\ InputOf(d) \in PatchInputs

-------------------------------------------------------------------------------
InputsOf == [p \in Patches |-> {x \in PatchInputs : ToPatch(x) = p}]
DocumentsOf == [p \in Patches |-> {d \in Documents : ToPatch(InputOf(d)) = p}]

(* What applying a document does to files.                                 *)
ChangesTo(f) ==
    {[kind |-> WriteOrDelete(f.does = "delete"), path |-> f.path]}
    \cup {[kind |-> "FILE_DELETE", path |-> p] : p \in {f.from} \ {f.path}}

Touched(d) == UNION {Own(d.files[n]) : n \in DOMAIN d.files}

PathChanges(d) == UNION {ChangesTo(d.files[n]) : n \in DOMAIN d.files}

NamedChanges(d) == {[kind |-> "FILE_WRITE", path |-> p] : p \in Range(d.named) \ Touched(d)}

ChangesOf(d) == PathChanges(d) \cup NamedChanges(d)

(* A relative path without blanks, in no directory a or b.                 *)
Simple(p) == Len(p) = 1 /\ ~p[1].root /\ ~Prefixed(p[1])

(* A document about such files; of written prefixes only one is dropped.   *)
Readable(d) ==
    \A p \in Touched(d) : Simple(p) \/ (d.prefixed /\ Len(p) = 1 /\ ~p[1].root)

(* Its lines name no file but with what happens to it.                     *)
Clear(d) ==
    \A n \in DOMAIN d.files :
        /\ d.files[n].does # "rename"
        /\ \A m \in DOMAIN d.files[n].body : d.files[n].body[m].kind # "minus"

(* What is decided about a patch is at least as hard as what the rules say *)
(* of each change it makes, in whichever format it is written and whatever *)
(* is named beside it; and not harder, unless its lines mention a file     *)
(* without telling what happens to it (handle_pre_tool_use over to_action  *)
(* and parse_patch_operations).  The exception are patches of files the    *)
(* adapter reads under another name than the rules do: names with blanks,  *)
(* absolute paths and, where no prefix is written, the directories a and b.*)
PatchJudged ==
    Done /\ call.kind = "patch" =>
        \A d \in DocumentsOf[call.patch] : Readable(d) =>
            LET made == {SubAction([call.patch EXCEPT !.ops = <<c>>], 1) : c \in ChangesOf(d)}
            IN  /\ AtLeast(result.kind, Verdict(ledger, made))
                /\ Clear(d) => AtLeast(Verdict(ledger, made), result.kind)
===============================================================================
