---------------------------- MODULE MCCodexSession ----------------------------
(* Instances of CodexSession for TLC.                                        *)
EXTENDS CodexSession, TLC

CONSTANTS b1, b2, p1, p2, a1, a2, s1, s2, d1

(* p1 protects something a1 touches; p2 expresses a preference and protects *)
(* something else.                                                          *)
MCExtract == [x \in Prompts |->
    IF x = p1 THEN <<[body |-> b1, strength |-> "HARD"]>>
    ELSE <<[body |-> b2, strength |-> "SOFT"]>>]

(* p2 prefers what p1 forbids: same description and scope, other strength.  *)
MCExtractSoft == [x \in Prompts |->
    <<[body |-> b1, strength |-> IF x = p1 THEN "HARD" ELSE "SOFT"]>>]

MCProhibits == [b \in Bodies |-> IF b = b1 THEN {a1} ELSE Actions]

(* Every session id has the directory d1, as "x/y" and "x_y" do.            *)
MCDirOf == [s \in Sids |-> d1]

(* Kills that do not interrupt a save.                                      *)
BetweenSaves == {"waiting", "loading", "body", "save_meta", "release"}

NoPoints == {}

(* A write that fails before anything of the save is on disk.               *)
FirstWrite == {"save_meta"}

\* Hook processes are only compared for equality.
HookSymmetry == Permutations(Procs)
=============================================================================
