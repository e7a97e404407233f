------------------------------ MODULE Extraction ------------------------------
(***************************************************************************)
(* Extraction of requirements and claims from text: the provider client    *)
(* (adapters/openai.py), RequirementExtractor and ClaimExtractor           *)
(* (extraction/), and the callers that act on the result: the              *)
(* UserPromptSubmit and Stop hooks of the Codex integration, which fall    *)
(* back on patterns, and library code, which gets the result or an error.  *)
(*                                                                         *)
(* One call runs at a time (hooks hold the session's lock).  A hook may be *)
(* killed at any step; what it did is then not saved.  The provider is     *)
(* untrusted: it may answer anything, and its drafts may declare an        *)
(* authority (the source of a constraint, the trace of a claim) or other   *)
(* fields that only the caller may set.  Of a constraint or a claim the    *)
(* model keeps its body (description and scope), a constraint's strength   *)
(* and effect, and who decided its provenance.  Ids are told apart by who  *)
(* made them; those the program makes (uuid4, a hash of the target) are    *)
(* taken to be fresh.                                                      *)
(***************************************************************************)
EXTENDS Naturals, Sequences, FiniteSets

CONSTANTS
    Texts,       \* prompts and messages
    Blank,       \* the blank text
    Bodies,      \* bodies of constraints and claims
    Patterns,    \* task -> text -> bodies the deterministic patterns find, in order
    Candidates,  \* what a list in a provider's answer may contain
    Responses,   \* the mappings a provider may answer with
    Traces,      \* trace ids, the authority of claims
    MaxDeaths,   \* bound on the prompt hooks that are killed
    None         \* no value

Tasks == {"requirements", "claims"}
Sources == {"USER", "AGENT_INFERENCE"}
Authorities == Sources \cup Traces
(* Fields other than the authority that the caller owns, which a draft of  *)
(* the task may nevertheless have.                                         *)
OwnedBy(task) == IF task = "requirements" THEN {"id", "author", "source_location", "source_text"}
                 ELSE {"id", "session_id"}
Owned == UNION {OwnedBy(k) : k \in Tasks}

(* says: the owned fields to which a draft gives a value of its own.  The  *)
(* form "draft" is a mapping whose other fields are those of a draft.      *)
Candidate == [form : {"not_mapping", "unparsable", "draft"}, body : Bodies,
              strength : {"HARD", "SOFT"}, effect : {"DENY", "REQUIRE"},
              compliance : BOOLEAN, authority : Authorities \cup {None}, says : SUBSET Owned]

(* The value under a key: "missing" is absent or null, "blank" any other   *)
(* false value that is no list, "other" a true value that is no list.      *)
Value == [kind : {"list", "missing", "blank", "other"}, list : Seq(Candidates)]

(* keys: the values under the keys a task looks at, in order of            *)
(* preference; self: the mapping itself as a candidate, when it has the    *)
(* required fields of one.                                                 *)
Response == [keys : Seq(Value), self : Candidates \cup {None}]

ASSUME ExtractionAssumption ==
    /\ Blank \in Texts
    /\ Patterns \in [Tasks -> [Texts -> Seq(Bodies)]]
    /\ Patterns["requirements"][Blank] = <<>>
    /\ Candidates \subseteq Candidate
    /\ Responses \subseteq Response
    /\ \A r \in Responses : r.keys # <<>>
    /\ Traces \cap Sources = {}
    /\ MaxDeaths \in Nat
    /\ None \notin Candidates

Jobs ==
    [by : {"prompt_hook"}, task : {"requirements"}, text : Texts, authority : {"USER"},
     strict : {FALSE}, client : BOOLEAN]
    \cup [by : {"stop_hook"}, task : {"claims"}, text : Texts \ {Blank}, authority : Traces,
          strict : {FALSE}, client : BOOLEAN]
    \cup [by : {"library"}, task : {"requirements"}, text : Texts, authority : Sources,
          strict : BOOLEAN, client : {TRUE}]
    \cup [by : {"library"}, task : {"claims"}, text : Texts, authority : Traces,
          strict : BOOLEAN, client : {TRUE}]

VARIABLES
    pc,        \* where the running call is
    job,       \* the call
    cands,     \* the candidates of the provider's answer
    next,      \* index of the candidate, or of the item, whose turn it is
    items,     \* constraints or claims made so far
    diags,     \* diagnostics recorded so far
    ledger,    \* rules in the memory of a prompt hook
    saved,     \* the session on disk: its rules and processed prompts
    \* history, read by no action:
    requests,  \* prompt -> requests its hooks made to the provider
    deaths     \* prompt -> hooks that were killed on it

vars == <<pc, job, cands, next, items, diags, ledger, saved, requests, deaths>>

-----------------------------------------------------------------------------
(* Drafts and what becomes of them.                                        *)

(* An item: the body and the kind of rule are the provider's; authority,   *)
(* text and id are the caller's.  at is the position it was found at.      *)
Item(at, body, strength, effect, authority, text, id) ==
    [at |-> at, body |-> body, strength |-> strength, effect |-> effect,
     authority |-> authority, text |-> text, id |-> id]

(* Mutant: the authority a draft declares is taken over.                   *)
BugToItem(j, c, at) ==
    Item(at, c.body, c.strength, c.effect,
         IF c.authority # None THEN c.authority ELSE j.authority, j.text, "caller")

(* ConstraintDraft.to_constraint and ClaimDraft.to_claim.                  *)
ToItem(j, c, at) == Item(at, c.body, c.strength, c.effect, j.authority, j.text, "caller")

(* The checks of to_constraint; a parsed claim always converts.            *)
Converts(j, c) ==
    j.task = "requirements" =>
        /\ ~(j.authority = "AGENT_INFERENCE" /\ c.strength = "HARD")
        /\ c.effect = "REQUIRE" => c.compliance

(* model_validate: a draft forbids the fields it does not know.            *)
Parses(j, c) == c.form = "draft" /\ c.says \subseteq OwnedBy(j.task)

Valid(j, c) == Parses(j, c) /\ Converts(j, c)

Error(at) == [at |-> at, severity |-> "ERROR", field |-> "candidate"]
Warning(at, field) == [at |-> at, severity |-> "WARNING", field |-> field]

(* Mutant: a draft that does not convert is dropped without a word.        *)
BugDiagnostics(j, c, at) ==
    (IF ~Parses(j, c) THEN {Error(at)} ELSE {})
    \cup (IF Parses(j, c) THEN {Warning(at, f) : f \in c.says} ELSE {})
    \cup (IF Parses(j, c) /\ c.authority \notin {None, j.authority}
          THEN {Warning(at, "authority")} ELSE {})

(* What is recorded about one candidate, in a call that is not strict: an  *)
(* error when it is dropped, and a warning for each field of the caller's  *)
(* that a parsed draft declares otherwise.                                 *)
Diagnostics(j, c, at) ==
    (IF ~Valid(j, c) THEN {Error(at)} ELSE {})
    \cup (IF Parses(j, c) THEN {Warning(at, f) : f \in c.says} ELSE {})
    \cup (IF Parses(j, c) /\ c.authority \notin {None, j.authority}
          THEN {Warning(at, "authority")} ELSE {})

(* The rules and claims of the patterns, used when the provider gave none. *)
PatternItems(j) ==
    [i \in DOMAIN Patterns[j.task][j.text] |->
        Item(i, Patterns[j.task][j.text][i], "HARD", "DENY", j.authority, j.text, "caller")]

-----------------------------------------------------------------------------
(* The list of candidates in an answer: the first key with a true value,   *)
(* else whatever is under the last key.                                    *)

IsTrue(v) == v.kind = "other" \/ v.list # <<>>

Found(r) ==
    LET last == Len(r.keys)
        first == {i \in 1..last : IsTrue(r.keys[i]) /\ \A k \in 1..(i - 1) : ~IsTrue(r.keys[k])}
    IN  IF first = {} THEN r.keys[last] ELSE r.keys[CHOOSE i \in first : TRUE]

(* Without a list the answer itself may be the one candidate.              *)
HasCandidates(r) == Found(r).kind = "list" \/ (Found(r).kind = "missing" /\ r.self # None)

CandidatesIn(r) == IF Found(r).kind = "list" THEN Found(r).list ELSE <<r.self>>

-----------------------------------------------------------------------------
(* The calls.                                                              *)

NoJob == [by |-> "prompt_hook", task |-> "requirements", text |-> Blank, authority |-> "USER",
          strict |-> FALSE, client |-> FALSE]
NoRules == [rules |-> {}, processed |-> {}]

Init ==
    /\ pc = "idle"
    /\ job = NoJob
    /\ cands = <<>>
    /\ next = 1
    /\ items = <<>>
    /\ diags = {}
    /\ ledger = {}
    /\ saved = NoRules
    /\ requests = [t \in Texts |-> 0]
    /\ deaths = [t \in Texts |-> 0]

Goto(l) == pc' = l

(* A call is over: its local variables are gone.                           *)
Leave ==
    /\ pc' = "idle" /\ job' = NoJob /\ cands' = <<>> /\ next' = 1
    /\ items' = <<>> /\ diags' = {} /\ ledger' = {}

(* A prompt that was processed before is not extracted again.              *)
Known(j) == j.by = "prompt_hook" /\ j.text \in saved.processed

(* A call begins: a blank text is refused or has nothing to extract, and   *)
(* without a client only the patterns are used.                            *)
Begin(j) ==
    /\ pc = "idle"
    /\ job' = j
    /\ Goto(IF Known(j) THEN "registering"
            ELSE IF j.text = Blank THEN (IF j.by = "library" THEN "invalid" ELSE "registering")
            ELSE IF j.client THEN "asking" ELSE "falling_back")
    /\ ledger' = IF j.by = "prompt_hook" THEN saved.rules ELSE {}
    /\ UNCHANGED <<cands, next, items, diags, saved, requests, deaths>>

Counted == IF job.by = "prompt_hook" THEN [requests EXCEPT ![job.text] = @ + 1] ELSE requests

(* The one request of a call: the provider cannot be reached, answers too  *)
(* late, with an error status, or with something that is not a chat        *)
(* completion whose content is a JSON object.                              *)
AskFails ==
    /\ pc = "asking"
    /\ requests' = Counted
    /\ Goto("failed")
    /\ UNCHANGED <<job, cands, next, items, diags, ledger, saved, deaths>>

Answered(r) ==
    /\ pc = "asking"
    /\ requests' = Counted
    /\ IF HasCandidates(r)
       THEN /\ cands' = CandidatesIn(r)
            /\ Goto("scanning")
            /\ UNCHANGED diags
       ELSE /\ Goto(IF job.strict THEN "invalid" ELSE "extracted")
            /\ diags' = IF job.strict THEN diags ELSE {Error(0)}
            /\ UNCHANGED cands
    /\ UNCHANGED <<job, next, items, ledger, saved, deaths>>

(* The next candidate becomes an item or, when it is not valid, ends a     *)
(* strict call and is skipped by one that is not.                          *)
Scan ==
    /\ pc = "scanning"
    /\ next <= Len(cands)
    /\ LET c == cands[next] IN
       IF job.strict /\ ~Valid(job, c)
       THEN Goto("invalid") /\ UNCHANGED <<next, items, diags>>
       ELSE /\ next' = next + 1
            /\ items' = IF Valid(job, c) THEN Append(items, ToItem(job, c, next)) ELSE items
            /\ diags' = diags \cup Diagnostics(job, c, next)
            /\ UNCHANGED pc
    /\ UNCHANGED <<job, cands, ledger, saved, requests, deaths>>

Scanned ==
    /\ pc = "scanning"
    /\ next > Len(cands)
    /\ Goto("extracted")
    /\ UNCHANGED <<job, cands, next, items, diags, ledger, saved, requests, deaths>>

(* A hook uses what was extracted, if anything was.                        *)
Use ==
    /\ pc = "extracted"
    /\ job.by # "library"
    /\ IF items = <<>> THEN Goto("falling_back") ELSE Goto("registering")
    /\ next' = 1
    /\ UNCHANGED <<job, cands, items, diags, ledger, saved, requests, deaths>>

(* A hook swallows the error of the extractor.                             *)
Swallow ==
    /\ pc = "failed"
    /\ job.by # "library"
    /\ Goto("falling_back")
    /\ UNCHANGED <<job, cands, next, items, diags, ledger, saved, requests, deaths>>

FallBack ==
    /\ pc = "falling_back"
    /\ items' = PatternItems(job)
    /\ next' = 1
    /\ Goto("registering")
    /\ UNCHANGED <<job, cands, diags, ledger, saved, requests, deaths>>

(* Library code is given the result or the exception; a Stop hook has its  *)
(* claims evaluated (EvidenceGate) and saves no rules.                     *)
Return ==
    /\ \/ job.by = "library" /\ pc \in {"extracted", "failed", "invalid"}
       \/ job.by = "stop_hook" /\ pc = "registering"
    /\ Leave
    /\ UNCHANGED <<saved, requests, deaths>>

(* Mutant: the first duplicate ends the loop.                              *)
BugRegister ==
    /\ pc = "registering" /\ job.by = "prompt_hook"
    /\ next <= Len(items)
    /\ IF \E r \in ledger : r.body = items[next].body
       THEN next' = Len(items) + 1 /\ UNCHANGED ledger
       ELSE next' = next + 1 /\ ledger' = ledger \cup {items[next]}
    /\ UNCHANGED <<pc, job, cands, items, diags, saved, requests, deaths>>

(* The next constraint is added unless an active one has its description   *)
(* and scope.                                                              *)
Register ==
    /\ pc = "registering" /\ job.by = "prompt_hook"
    /\ next <= Len(items)
    /\ next' = next + 1
    /\ ledger' = IF \E r \in ledger : r.body = items[next].body
                 THEN ledger ELSE ledger \cup {items[next]}
    /\ UNCHANGED <<pc, job, cands, items, diags, saved, requests, deaths>>

(* Mutant: a prompt that gave no rules is left to be processed again.      *)
BugSave ==
    /\ pc = "registering" /\ job.by = "prompt_hook"
    /\ next > Len(items)
    /\ saved' = [rules |-> ledger,
                 processed |-> saved.processed \cup (IF items = <<>> THEN {} ELSE {job.text})]
    /\ Leave
    /\ UNCHANGED <<requests, deaths>>

(* The prompt is processed, whatever came of it, and the session saved.    *)
Save ==
    /\ pc = "registering" /\ job.by = "prompt_hook"
    /\ next > Len(items)
    /\ saved' = [rules |-> ledger, processed |-> saved.processed \cup {job.text}]
    /\ Leave
    /\ UNCHANGED <<requests, deaths>>

(* The host kills a prompt hook before it has saved.                       *)
Kill ==
    /\ pc # "idle" /\ job.by = "prompt_hook"
    /\ deaths[job.text] < MaxDeaths
    /\ deaths' = [deaths EXCEPT ![job.text] = @ + 1]
    /\ Leave
    /\ UNCHANGED <<saved, requests>>

Step ==
    \/ AskFails \/ (\E r \in Responses : Answered(r))
    \/ Scan \/ Scanned \/ Use \/ Swallow \/ FallBack \/ Return \/ Register \/ Save

Next == (\E j \in Jobs : Begin(j)) \/ Step \/ Kill

Spec == Init /\ [][Next]_vars

-----------------------------------------------------------------------------
(* Properties.                                                             *)

ValidAt == {i \in DOMAIN cands : Valid(job, cands[i])}

ErrorsAt == {d.at : d \in {e \in diags : e.severity = "ERROR"}}

(* The items are the valid candidates, in encounter order.                 *)
ItemsAreValid ==
    /\ \A k \in DOMAIN items : items[k].at \in ValidAt
                               /\ items[k] = ToItem(job, cands[items[k].at], items[k].at)
    /\ \A i \in ValidAt : \E k \in DOMAIN items : items[k].at = i
    /\ \A k, l \in DOMAIN items : k < l => items[k].at < items[l].at

(* Every candidate of the provider's answer is accounted for, in either    *)
(* mode: when extract returns, each is an item, in order, or has an error  *)
(* diagnostic, and in strict mode each is an item; when it raises over the *)
(* candidates, the mode is strict and one is not valid.                    *)
CandidatesAccounted ==
    /\ pc = "extracted" =>
        /\ ItemsAreValid
        /\ ErrorsAt \ {0} = DOMAIN cands \ ValidAt
        /\ job.strict => ValidAt = DOMAIN cands /\ \A d \in diags : d.severity = "WARNING"
    /\ pc = "invalid" /\ cands # <<>> => job.strict /\ ValidAt # DOMAIN cands

(* Nothing a provider answers changes who is recorded as the author of a   *)
(* rule or claim: its authority, text and id are the caller's in every     *)
(* item and in every rule on disk, whose text is a prompt that was         *)
(* processed; and no rule is HARD that the agent inferred.                 *)
AuthorityKept ==
    /\ \A k \in DOMAIN items :
          /\ items[k].authority = job.authority
          /\ items[k].text = job.text
          /\ items[k].id = "caller"
          /\ ~(job.authority = "AGENT_INFERENCE" /\ items[k].strength = "HARD")
    /\ \A r \in saved.rules :
          r.authority = "USER" /\ r.id = "caller" /\ r.text \in saved.processed

(* Over all its hooks a prompt costs at most one request to the provider,  *)
(* but for those killed before they could save: a request that failed is   *)
(* not repeated by a later submission of the same prompt.                  *)
AskedOncePerPrompt == \A t \in Texts : requests[t] <= 1 + deaths[t]

(* The hook as SessionTx has it.                                           *)
Tx == INSTANCE SessionTx WITH
    Sids <- {Blank}, Prompts <- Texts, Actions <- {}, Calls <- {},
    Extract <- [t \in Texts |-> <<>>], Prohibits <- [b \in Bodies |-> {}],
    FsBodies <- {}, OpaqueActions <- {}, NoArg <- None

Rule(r) == [body |-> r.body, strength |-> r.strength]

(* What a saved prompt hook did to its session is what SessionTx says of   *)
(* it: the valid candidates of the answer, or what the patterns find if    *)
(* there are none, registered in order on top of the rules on disk.        *)
RegistersStep ==
    saved' # saved =>
        /\ job.by = "prompt_hook" /\ job.text \notin saved.processed
        /\ saved'.processed = saved.processed \cup {job.text}
        /\ IF ValidAt # {} THEN ItemsAreValid ELSE items = PatternItems(job)
        /\ {Rule(r) : r \in saved'.rules} =
               Tx!Register({Rule(r) : r \in saved.rules},
                           [i \in DOMAIN items |-> Rule(items[i])])
RegistersExtract == [][RegistersStep]_vars

Items == [at : Nat \ {0}, body : Bodies, strength : {"HARD", "SOFT"}, effect : {"DENY", "REQUIRE"},
          authority : Authorities, text : Texts, id : {"caller"}]
Diagnostic ==
    [at : Nat, severity : {"ERROR", "WARNING"}, field : Owned \cup {"candidate", "authority"}]

(* The types of the variables.                                             *)
TypeOK ==
    /\ pc \in {"idle", "asking", "scanning", "extracted", "failed", "invalid",
               "falling_back", "registering"}
    /\ job \in Jobs
    /\ cands \in Seq(Candidates)
    /\ next \in Nat \ {0}
    /\ items \in Seq(Items)
    /\ diags \subseteq Diagnostic
    /\ ledger \subseteq Items
    /\ saved.rules \subseteq Items /\ saved.processed \subseteq Texts
    /\ saved = [rules |-> saved.rules, processed |-> saved.processed]
    /\ requests \in [Texts -> Nat]
    /\ deaths \in [Texts -> Nat]

-----------------------------------------------------------------------------
(* What makes the properties inductive.                                    *)

(* Where a call may be, and what it has not touched yet.                   *)
PhaseInv ==
    /\ pc = "idle" => job = NoJob
    /\ pc \in {"idle", "asking", "failed"} => cands = <<>>
    /\ pc \in {"idle", "asking", "failed", "falling_back"} => items = <<>>
    /\ pc \in {"idle", "asking", "failed"} => next = 1 /\ diags = {}
    /\ pc = "falling_back" => job.by # "library" /\ ValidAt = {}
    /\ pc \notin {"idle", "registering"} => ~Known(job)
    /\ pc # "idle" /\ job.by = "prompt_hook" /\ pc # "registering" => ledger = saved.rules
    /\ job.by # "prompt_hook" \/ pc = "idle" => ledger = {}

(* The rules in the memory of a hook are those on disk or its own.         *)
LedgerInv ==
    \A r \in ledger :
        r.authority = "USER" /\ r.id = "caller" /\ r.text \in saved.processed \cup {job.text}

(* A request that was made for a prompt is one its hooks died over, or the *)
(* one of the hook that is running or has saved.                           *)
Spent(t) ==
    \/ t \in saved.processed
    \/ pc \notin {"idle", "asking"} /\ job.by = "prompt_hook" /\ job.text = t
RequestsInv == \A t \in Texts : requests[t] <= deaths[t] + (IF Spent(t) THEN 1 ELSE 0)

(* The candidates before the next one are accounted for.                   *)
ScanInv ==
    pc = "scanning" =>
        /\ next <= Len(cands) + 1
        /\ \A k \in DOMAIN items : /\ items[k].at \in ValidAt /\ items[k].at < next
                                   /\ items[k] = ToItem(job, cands[items[k].at], items[k].at)
        /\ \A i \in ValidAt : i < next => \E k \in DOMAIN items : items[k].at = i
        /\ \A k, l \in DOMAIN items : k < l => items[k].at < items[l].at
        /\ ErrorsAt = (1..(next - 1)) \ ValidAt
        /\ job.strict => 1..(next - 1) \subseteq ValidAt

(* The items before the next one are registered as SessionTx registers     *)
(* them, and their bodies are in the ledger.                               *)
RegisterInv ==
    pc = "registering" /\ job.by = "prompt_hook" =>
        /\ IF Known(job) THEN items = <<>> /\ ledger = saved.rules
           ELSE IF ValidAt # {} THEN ItemsAreValid ELSE items = PatternItems(job)
        /\ next <= Len(items) + 1
        /\ {Rule(r) : r \in ledger} =
               Tx!Register({Rule(r) : r \in saved.rules},
                           [i \in 1..(next - 1) |-> Rule(items[i])])
        /\ \A i \in 1..(next - 1) : \E r \in ledger : r.body = items[i].body
=============================================================================
