---------------------------- MODULE MCExtraction ----------------------------
(* An instance of Extraction for TLC.                                        *)
EXTENDS Extraction, SequencesExt

CONSTANTS t1, t2, blank, b1, b2, trace

MCTexts == {t1, t2, blank}

(* t1 names two files, the second one twice; t2 matches nothing.             *)
MCPatterns == [k \in Tasks |-> [t \in MCTexts |-> IF t = t1 THEN <<b1, b2, b2>> ELSE <<>>]]

Draft(body, strength, effect, compliance, authority, says) ==
    [form |-> "draft", body |-> body, strength |-> strength, effect |-> effect,
     compliance |-> compliance, authority |-> authority, says |-> says]
Refused(form) == [Draft(b1, "HARD", "DENY", FALSE, None, {}) EXCEPT !.form = form]

Good == Draft(b1, "HARD", "DENY", FALSE, None, {})
Soft == Draft(b1, "SOFT", "DENY", FALSE, "AGENT_INFERENCE", {"id"})
Other == Draft(b2, "SOFT", "REQUIRE", TRUE, "USER", {})
Incomplete == Draft(b2, "HARD", "REQUIRE", FALSE, None, {"author", "source_text"})

MCCandidates == {Good, Soft, Other, Incomplete, Refused("not_mapping"), Refused("unparsable")}

ListOf(s) == [kind |-> "list", list |-> s]
NoList(k) == [kind |-> k, list |-> <<>>]

(* No candidate, each one alone, and pairs: one valid of two in either order *)
(* and for either reason, none, and the same body twice.                     *)
MCLists ==
    BoundedSeq(MCCandidates, 1)
    \cup {<<Refused("unparsable"), Good>>, <<Other, Incomplete>>, <<Incomplete, Soft>>,
          <<Incomplete, Refused("not_mapping")>>, <<Soft, Good>>}

(* Lists under the first key; under the others, empty ones, values of        *)
(* another kind; and a lone candidate.                                       *)
MCResponses ==
    {[keys |-> <<ListOf(s), NoList("missing"), NoList("missing")>>, self |-> None] : s \in MCLists}
    \cup {[keys |-> <<NoList(k), ListOf(<<Other>>), NoList("missing")>>, self |-> None] :
        k \in {"missing", "blank"}}
    \cup {[keys |-> <<NoList(k), NoList("missing"), ListOf(s)>>, self |-> None] :
        k \in {"missing", "blank", "other"}, s \in {<<>>, <<Good, Soft, Other>>}}
    \cup {[keys |-> <<NoList("missing"), NoList("missing"), NoList(k)>>, self |-> c] :
        k \in {"missing", "blank"}, c \in {None, Good, Incomplete}}
=============================================================================
