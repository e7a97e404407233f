----------------------------- MODULE CodexSession -----------------------------
(***************************************************************************)
(* Codex lifecycle hooks as concurrent operating-system processes over     *)
(* session files (integrations/codex/state.py and hooks.py).               *)
(*                                                                         *)
(* Each process runs one hook: it takes the session's file lock, loads the *)
(* session (creating its files when there is no meta.json), runs the       *)
(* handler's body in memory, writes meta.json, ledger.json, trace.json and *)
(* possibly evidence.json one after the other, releases the lock and       *)
(* answers on stdout.  A process may be killed or a write may fail at the  *)
(* points given by KillPoints and FailPoints; the operating system drops   *)
(* the lock of a killed process.  Each file is replaced atomically         *)
(* (_atomic_write_text), so a file is never seen half written.             *)
(***************************************************************************)
EXTENDS SessionTx

CONSTANTS
    Procs,       \* hook processes, one invocation each
    Dirs,        \* session directories
    DirOf,       \* session id -> its directory (_sanitize_session_id)
    KillPoints,  \* control points at which the process may be killed
    FailPoints,  \* writes that may raise an OSError
    NoProc,      \* no holder of a lock
    Missing      \* no such file

Saving == {"save_meta", "save_ledger", "save_trace", "save_report"}
Locked == {"loading", "body", "release"} \cup Saving
Running == {"waiting"} \cup Locked
Over == {"done", "dead"}

ASSUME SessionFilesAssumption ==
    /\ DirOf \in [Sids -> Dirs]
    /\ KillPoints \subseteq Running
    /\ FailPoints \subseteq Saving
    /\ NoProc \notin Procs
    /\ \A file \in (SUBSET Prompts) \cup (SUBSET Constraint) : file # Missing
    /\ Missing \notin Seq(Event)
    /\ Missing \notin Report \cup {NoArg}
    /\ Sids # {}

VARIABLES
    disk,      \* directory -> its four files
    lock,      \* directory -> process holding <dir>.lock
    pc,        \* process -> control point
    hook,      \* process -> the hook it runs
    tx,        \* process -> the session in its memory (SessionTransaction)
    creating,  \* process -> its current save is the one that creates the session
    answer,    \* process -> what it answers, valid once pc = "done"
    \* history, read by no action:
    base,      \* process -> the session its directory held when it loaded
    before,    \* process -> processes that had answered when it started
    stop       \* process -> where it was killed or failed

vars == <<disk, lock, pc, hook, tx, creating, answer, base, before, stop>>

Dir(p) == DirOf[hook[p].sid]
Files == [meta : (SUBSET Prompts) \cup {Missing}, ledger : (SUBSET Constraint) \cup {Missing},
          trace : Seq(Event) \cup {Missing}, report : Report \cup {Missing}]
NoFiles == [meta |-> Missing, ledger |-> Missing, trace |-> Missing, report |-> Missing]

Contents(file, default) == IF file = Missing THEN default ELSE file
SessionOn(f) == [meta |-> Contents(f.meta, {}), ledger |-> Contents(f.ledger, {}),
                 trace |-> Contents(f.trace, <<>>), report |-> Contents(f.report, NoArg)]

NoHook == Invocation("SessionStart", CHOOSE s \in Sids : TRUE, NoArg, TRUE)

Init ==
    /\ disk = [d \in Dirs |-> NoFiles]
    /\ lock = [d \in Dirs |-> NoProc]
    /\ pc = [p \in Procs |-> "idle"]
    /\ hook = [p \in Procs |-> NoHook]
    /\ tx = [p \in Procs |-> EmptySession]
    /\ creating = [p \in Procs |-> FALSE]
    /\ answer = [p \in Procs |-> "none"]
    /\ base = [p \in Procs |-> EmptySession]
    /\ before = [p \in Procs |-> {}]
    /\ stop = [p \in Procs |-> "none"]

Goto(p, l) == pc' = [pc EXCEPT ![p] = l]

-----------------------------------------------------------------------------
(* The host starts a hook process.                                         *)

Start(p, h) ==
    /\ pc[p] = "idle"
    /\ Goto(p, "waiting")
    /\ hook' = [hook EXCEPT ![p] = h]
    /\ before' = [before EXCEPT ![p] = {q \in Procs : pc[q] = "done"}]
    /\ UNCHANGED <<disk, lock, tx, creating, answer, base, stop>>

Arrive(p) == \E h \in Hook : Start(p, h)

(* Mutant: the lock is taken although another process holds it.            *)
BugAcquire(p) ==
    /\ pc[p] = "waiting"
    /\ lock' = [lock EXCEPT ![Dir(p)] = p]
    /\ Goto(p, "loading")
    /\ UNCHANGED <<disk, hook, tx, creating, answer, base, before, stop>>

(* SessionLock.acquire: a non-blocking flock, retried until the timeout.   *)
Acquire(p) ==
    /\ pc[p] = "waiting"
    /\ lock[Dir(p)] = NoProc
    /\ lock' = [lock EXCEPT ![Dir(p)] = p]
    /\ Goto(p, "loading")
    /\ UNCHANGED <<disk, hook, tx, creating, answer, base, before, stop>>

(* Mutant: after the timeout the hook goes on without the lock.            *)
BugTimeOut(p) ==
    /\ pc[p] = "waiting"
    /\ lock[Dir(p)] # NoProc
    /\ Goto(p, "loading")
    /\ UNCHANGED <<disk, lock, hook, tx, creating, answer, base, before, stop>>

TimeOut(p) ==
    /\ pc[p] = "waiting"
    /\ lock[Dir(p)] # NoProc
    /\ Goto(p, "done")
    /\ answer' = [answer EXCEPT ![p] = FailAnswer(hook[p])]
    /\ stop' = [stop EXCEPT ![p] = "waiting"]
    /\ UNCHANGED <<disk, lock, hook, tx, creating, base, before>>

(* Mutant: an exception leaves the lock held.                              *)
BugRaise(p) ==
    /\ Goto(p, "done")
    /\ answer' = [answer EXCEPT ![p] = FailAnswer(hook[p])]
    /\ stop' = [stop EXCEPT ![p] = pc[p]]
    /\ UNCHANGED <<disk, lock, hook, tx, creating, base, before>>

(* An exception leaves the with block: nothing more is saved, the lock is  *)
(* released, and the exception handlers of run_hook and                    *)
(* handle_pre_tool_use answer.                                             *)
Raise(p) ==
    /\ lock' = [lock EXCEPT ![Dir(p)] = NoProc]
    /\ Goto(p, "done")
    /\ answer' = [answer EXCEPT ![p] = FailAnswer(hook[p])]
    /\ stop' = [stop EXCEPT ![p] = pc[p]]
    /\ UNCHANGED <<disk, hook, tx, creating, base, before>>

-----------------------------------------------------------------------------
(* get_or_create_session.  The session exists when its meta.json does; an  *)
(* existing session without ledger.json or trace.json is corrupted.        *)

Exists(d) == disk[d].meta # Missing

Corrupted(d) == Exists(d) /\ (disk[d].ledger = Missing \/ disk[d].trace = Missing)

LoadCorrupted(p) ==
    /\ pc[p] = "loading"
    /\ Corrupted(Dir(p))
    /\ Raise(p)

(* Mutant: a missing file of an existing session counts as an empty one.   *)
BugLoadSession(p) ==
    /\ pc[p] = "loading"
    /\ tx' = [tx EXCEPT ![p] = [SessionOn(disk[Dir(p)]) EXCEPT !.report = NoArg]]
    /\ base' = [base EXCEPT ![p] = SessionOn(disk[Dir(p)])]
    /\ creating' = [creating EXCEPT ![p] = ~Exists(Dir(p))]
    /\ Goto(p, IF Exists(Dir(p)) THEN "body" ELSE "save_meta")
    /\ UNCHANGED <<disk, lock, hook, answer, before, stop>>

LoadSession(p) ==
    /\ pc[p] = "loading"
    /\ ~Corrupted(Dir(p))
    /\ tx' = [tx EXCEPT ![p] = [SessionOn(disk[Dir(p)]) EXCEPT !.report = NoArg]]
    /\ base' = [base EXCEPT ![p] = SessionOn(disk[Dir(p)])]
    /\ creating' = [creating EXCEPT ![p] = ~Exists(Dir(p))]
    /\ Goto(p, IF Exists(Dir(p)) THEN "body" ELSE "save_meta")
    /\ UNCHANGED <<disk, lock, hook, answer, before, stop>>

(* The body of the handler, in memory.                                     *)
RunBody(p) ==
    /\ pc[p] = "body"
    /\ ~Raises(tx[p], hook[p])
    /\ tx' = [tx EXCEPT ![p] = After(@, hook[p])]
    /\ answer' = [answer EXCEPT ![p] = AnswerOf(tx[p], hook[p])]
    /\ Goto(p, "save_meta")
    /\ UNCHANGED <<disk, lock, hook, creating, base, before, stop>>

(* Mutant: an event the trace refuses is tried again.                      *)
BugBodyRaises(p) ==
    /\ pc[p] = "body"
    /\ Raises(tx[p], hook[p])
    /\ Goto(p, "loading")
    /\ UNCHANGED <<disk, lock, hook, tx, creating, answer, base, before, stop>>

BodyRaises(p) ==
    /\ pc[p] = "body"
    /\ Raises(tx[p], hook[p])
    /\ Raise(p)

-----------------------------------------------------------------------------
(* save_session: one file after the other.                                 *)

WriteMeta(p) ==
    /\ pc[p] = "save_meta"
    /\ disk' = [disk EXCEPT ![Dir(p)].meta = tx[p].meta]
    /\ Goto(p, "save_ledger")
    /\ UNCHANGED <<lock, hook, tx, creating, answer, base, before, stop>>

(* Mutant: the ledger is only written when the session is created.         *)
BugWriteLedger(p) ==
    /\ pc[p] = "save_ledger"
    /\ disk' = [disk EXCEPT ![Dir(p)].ledger = IF creating[p] THEN tx[p].ledger ELSE @]
    /\ Goto(p, "save_trace")
    /\ UNCHANGED <<lock, hook, tx, creating, answer, base, before, stop>>

WriteLedger(p) ==
    /\ pc[p] = "save_ledger"
    /\ disk' = [disk EXCEPT ![Dir(p)].ledger = tx[p].ledger]
    /\ Goto(p, "save_trace")
    /\ UNCHANGED <<lock, hook, tx, creating, answer, base, before, stop>>

(* The last file, unless a Stop hook has a report to write.                *)
WriteTrace(p) ==
    /\ pc[p] = "save_trace"
    /\ disk' = [disk EXCEPT ![Dir(p)].trace = tx[p].trace]
    /\ creating' = [creating EXCEPT ![p] = FALSE]
    /\ Goto(p, IF creating[p] THEN "body"
               ELSE IF tx[p].report # NoArg THEN "save_report" ELSE "release")
    /\ UNCHANGED <<lock, hook, tx, answer, base, before, stop>>

WriteReport(p) ==
    /\ pc[p] = "save_report"
    /\ disk' = [disk EXCEPT ![Dir(p)].report = tx[p].report]
    /\ Goto(p, "release")
    /\ UNCHANGED <<lock, hook, tx, creating, answer, base, before, stop>>

WriteFails(p) == pc[p] \in FailPoints /\ Raise(p)

(* SessionLock.release, then the answer is printed.                        *)
Release(p) ==
    /\ pc[p] = "release"
    /\ lock' = [lock EXCEPT ![Dir(p)] = NoProc]
    /\ Goto(p, "done")
    /\ UNCHANGED <<disk, hook, tx, creating, answer, base, before, stop>>

(* The process dies without an answer; a lock it holds goes with it.       *)
Kill(p) ==
    /\ pc[p] \in KillPoints
    /\ lock' = [lock EXCEPT ![Dir(p)] = IF @ = p THEN NoProc ELSE @]
    /\ Goto(p, "dead")
    /\ stop' = [stop EXCEPT ![p] = pc[p]]
    /\ answer' = [answer EXCEPT ![p] = "none"]
    /\ UNCHANGED <<disk, hook, tx, creating, base, before>>

Step(p) ==
    \/ Acquire(p) \/ TimeOut(p) \/ LoadCorrupted(p) \/ LoadSession(p)
    \/ RunBody(p) \/ BodyRaises(p)
    \/ WriteMeta(p) \/ WriteLedger(p) \/ WriteTrace(p) \/ WriteReport(p)
    \/ Release(p)

AllOver == \A p \in Procs : pc[p] \in Over

Next ==
    \/ \E p \in Procs : Arrive(p) \/ Step(p) \/ WriteFails(p) \/ Kill(p)
    \/ AllOver /\ UNCHANGED vars

Spec == Init /\ [][Next]_vars

(* A hook that was started keeps running: its steps are those of a single  *)
(* sequential process whose retries are bounded by the lock timeout.       *)
FairSpec == Spec /\ \A p \in Procs : WF_vars(Step(p))

-----------------------------------------------------------------------------

(* The types of the variables; evidence.json is only written with a report *)
(* (save_session).                                                         *)
TypeOK ==
    /\ disk \in [Dirs -> Files]
    /\ lock \in [Dirs -> Procs \cup {NoProc}]
    /\ pc \in [Procs -> {"idle"} \cup Running \cup Over]
    /\ hook \in [Procs -> Hook]
    /\ tx \in [Procs -> Session]
    /\ creating \in [Procs -> BOOLEAN]
    /\ answer \in [Procs -> Answer]
    /\ base \in [Procs -> Session]
    /\ before \in [Procs -> SUBSET Procs]
    /\ stop \in [Procs -> Running \cup {"none"}]
    /\ \A p \in Procs : pc[p] = "save_report" => tx[p].report # NoArg

(* The lock of a directory is held exactly by the one process that is      *)
(* inside a transaction on it, through every exception, timeout and kill   *)
(* (session_transaction, SessionLock).                                     *)
LockExclusive ==
    \A p \in Procs, d \in Dirs : lock[d] = p <=> pc[p] \in Locked /\ Dir(p) = d

(* Nothing a session has on disk is ever lost to another process's save:   *)
(* prompts and constraints stay, the trace is only extended.               *)
NothingLost == [][\A d \in Dirs : Grown(SessionOn(disk[d]), SessionOn(disk'[d]))]_vars

OwnEvents(p) ==
    CASE hook[p].kind = "UserPromptSubmit" -> {"USER_MESSAGE"}
      [] hook[p].kind = "PreToolUse" -> {"GUARD_DECISION"}
      [] hook[p].kind = "PostToolUse" -> {"TOOL_CALL", "TOOL_RESULT"}
      [] OTHER -> {}
Acknowledged(p) == pc[p] = "done" /\ stop[p] = "none"

(* Every hook that was answered normally has its events in the session's   *)
(* trace on disk, as many of each as there were such hooks, whatever other *)
(* processes did, failed to do or died doing since.                        *)
AnswerDurable ==
    \A p \in Procs : Acknowledged(p) => \A k \in OwnEvents(p) :
        Cardinality({i \in 1..Len(disk[Dir(p)].trace) :
                        disk[Dir(p)].trace[i].kind = k /\ disk[Dir(p)].trace[i].arg = hook[p].arg})
        >= Cardinality({q \in Procs : Acknowledged(q) /\ Dir(q) = Dir(p)
                                      /\ hook[q].kind = hook[p].kind /\ hook[q].arg = hook[p].arg})

(* The prompts whose save stopped after meta.json and before ledger.json.  *)
Torn(d) == {hook[p].arg : p \in {q \in Procs : /\ stop[q] = "save_ledger"
                                               /\ hook[q].kind = "UserPromptSubmit"
                                               /\ Dir(q) = d}}

(* A PreToolUse hook that allowed an action started before every answered  *)
(* prompt whose HARD rules block it.  The one exception: a prompt that an  *)
(* earlier save marked processed without storing its rules.                *)
AllowRespectsPrompts ==
    \A p \in Procs : Acknowledged(p) /\ hook[p].kind = "PreToolUse" /\ answer[p] = "allow" =>
        \A q \in before[p] :
            /\ Acknowledged(q) /\ hook[q].kind = "UserPromptSubmit" /\ Dir(q) = Dir(p)
            /\ hook[q].arg \notin Torn(Dir(q))
            => ~Blocks(Members(Extract[hook[q].arg]), hook[p].arg)

(* In the trace on disk a tool call is recorded once, directly followed by *)
(* its only result: duplicated PostToolUse hooks and kills never leave a   *)
(* call without a result or with two.                                      *)
CallsPaired == \A d \in Dirs : Paired(SessionOn(disk[d]).trace)

(* A session whose files were left incomplete by an interrupted creation   *)
(* never lets an action through and stays that way: PreToolUse on it is    *)
(* denied for good.                                                        *)
Incomplete(d) == Corrupted(d) /\ (lock[d] # NoProc => ~creating[lock[d]])
IncompleteDenies ==
    [][\A d \in Dirs : Incomplete(d) =>
         /\ Incomplete(d)'
         /\ \A p \in Procs : pc[p] # "idle" /\ Dir(p) = d /\ answer'[p] = "allow"
                             => answer[p] = "allow"]_vars

(* A report on disk that says a tool call succeeded is backed by a         *)
(* successful result in the trace on disk.                                 *)
ReportBacked == \A d \in Dirs : Backed(SessionOn(disk[d]))

(* Every hook process that was started ends: it answers or is killed.      *)
EveryHookEnds == \A p \in Procs : pc[p] = "waiting" ~> pc[p] \in Over

-----------------------------------------------------------------------------
(* The inductive invariant behind LockExclusive, NothingLost, CallsPaired, *)
(* ReportBacked and IncompleteDenies.                                      *)

InTransaction == {"body", "release"} \cup Saving
Complete(d) == Missing \notin {disk[d].meta, disk[d].ledger, disk[d].trace}

(* How far a save has come: a process that is not creating its session has *)
(* a complete one, and what it has written is what it holds in memory.     *)
SaveInv(p) ==
    LET f == disk[Dir(p)] IN
    /\ pc[p] \in {"idle", "waiting", "loading"} => ~creating[p]
    /\ creating[p] => pc[p] \in (Saving \ {"save_report"}) \cup Over
    /\ pc[p] \in InTransaction /\ ~creating[p] => Complete(Dir(p))
    /\ pc[p] \in InTransaction \ {"body", "save_meta"} => f.meta = tx[p].meta
    /\ pc[p] \in {"save_trace", "save_report", "release"} => f.ledger = tx[p].ledger
    /\ pc[p] \in {"save_report", "release"} => f.trace = tx[p].trace

(* What a process holds in memory is never behind its files, and is itself *)
(* a good session; no report is pending before the body has run.           *)
MemoryInv(p) ==
    pc[p] \in InTransaction =>
        /\ Grown(SessionOn(disk[Dir(p)]), tx[p])
        /\ Paired(tx[p].trace)
        /\ Backed(tx[p])
        /\ pc[p] = "body" \/ creating[p] => tx[p].report = NoArg

TransactionInv == \A p \in Procs : SaveInv(p) /\ MemoryInv(p)

(* How memory and files relate to the session that was loaded: this is     *)
(* what makes a transaction that is not interrupted atomic.                *)
LoadedInv(p) ==
    LET s == SessionOn(disk[Dir(p)])
        loaded == [base[p] EXCEPT !.report = NoArg]
        unsaved == pc[p] = "body" \/ (pc[p] \in Saving /\ creating[p])
        saving == pc[p] \in Saving /\ ~creating[p]
    IN  /\ unsaved => tx[p] = loaded
        /\ unsaved \/ pc[p] = "save_meta" => s = base[p]
        /\ saving => /\ ~Raises(base[p], hook[p])
                     /\ tx[p] = After(loaded, hook[p])
                     /\ answer[p] = AnswerOf(base[p], hook[p])
                     /\ s.report = base[p].report

AtomicInv == \A p \in Procs : LoadedInv(p)

(* Saves are not interrupted: a process is only killed, and a write only   *)
(* fails, before the first file of a save is replaced.                     *)
SavesComplete ==
    /\ KillPoints \cap Saving \subseteq {"save_meta"}
    /\ FailPoints \subseteq {"save_meta"}

-----------------------------------------------------------------------------
(* The files implement the promise of AtomicSession.  A transaction takes  *)
(* effect when its last file is written; until then its directory stands   *)
(* for the session that was loaded.                                        *)

SavedSession(d) ==
    LET p == lock[d] IN
    IF p # NoProc /\ pc[p] \in Saving /\ ~creating[p] THEN base[p] ELSE SessionOn(disk[d])

StageOf(p) ==
    CASE pc[p] = "idle" -> "idle"
      [] pc[p] = "release" -> "applied"
      [] pc[p] = "done" -> "answered"
      [] pc[p] = "dead" -> "dead"
      [] OTHER -> "called"

ResultOf(p) == IF pc[p] \in {"release", "done"} THEN answer[p] ELSE "none"

Atomic == INSTANCE AtomicSession WITH
    sess <- [d \in Dirs |-> SavedSession(d)],
    call <- hook,
    stage <- [p \in Procs |-> StageOf(p)],
    result <- [p \in Procs |-> ResultOf(p)]

(* "Read-modify-write session transaction": the concurrent processes over  *)
(* four files behave as atomic transactions (session_transaction).         *)
ImplementsAtomic == Atomic!ASpec

(* "Persist session state atomically to disk" (save_session): a prompt is  *)
(* marked processed only together with the constraints extracted from it.  *)
SaveAtomic ==
    \A d \in Dirs : lock[d] = NoProc =>
        \A x \in SessionOn(disk[d]).meta : \A c \in Members(Extract[x]) :
            \E a \in SessionOn(disk[d]).ledger : a.body = c.body

(* "Check if an identical constraint already exists in ledger": a          *)
(* constraint of an answered prompt is left out of the ledger only if the  *)
(* ledger holds an identical one.                                          *)
OnlyIdenticalSkipped ==
    \A p \in Procs : Acknowledged(p) /\ hook[p].kind = "UserPromptSubmit" =>
        Members(Extract[hook[p].arg]) \subseteq disk[Dir(p)].ledger
===============================================================================
