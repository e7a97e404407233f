---------------------------- MODULE AtomicSession ----------------------------
(***************************************************************************)
(* What a session store promises the host: every hook invocation that is   *)
(* answered normally took effect on its session in one indivisible step    *)
(* between its arrival and its answer, and the answer was computed from    *)
(* the session at that step.  An invocation may also fail, without any     *)
(* effect, or die, with or without its effect.                             *)
(***************************************************************************)
EXTENDS SessionTx

CONSTANTS Procs, Dirs, DirOf

VARIABLES
    sess,    \* directory -> session
    call,    \* process -> the hook it runs
    stage,   \* process -> "idle", "called", "applied", "answered", "dead"
    result   \* process -> answer

avars == <<sess, call, stage, result>>

NoHook == Invocation("SessionStart", CHOOSE s \in Sids : TRUE, NoArg, TRUE)

AInit ==
    /\ sess = [d \in Dirs |-> EmptySession]
    /\ call = [p \in Procs |-> NoHook]
    /\ stage = [p \in Procs |-> "idle"]
    /\ result = [p \in Procs |-> "none"]

Call(p, h) ==
    /\ stage[p] = "idle"
    /\ stage' = [stage EXCEPT ![p] = "called"]
    /\ call' = [call EXCEPT ![p] = h]
    /\ UNCHANGED <<sess, result>>

TakeEffect(p) ==
    LET d == DirOf[call[p].sid] IN
    /\ stage[p] = "called"
    /\ ~Raises(sess[d], call[p])
    /\ sess' = [sess EXCEPT ![d] = After(@, call[p])]
    /\ stage' = [stage EXCEPT ![p] = "applied"]
    /\ result' = [result EXCEPT ![p] = AnswerOf(sess[d], call[p])]
    /\ UNCHANGED call

Return(p) ==
    /\ stage[p] = "applied"
    /\ stage' = [stage EXCEPT ![p] = "answered"]
    /\ UNCHANGED <<sess, call, result>>

Fail(p) ==
    /\ stage[p] = "called"
    /\ stage' = [stage EXCEPT ![p] = "answered"]
    /\ result' = [result EXCEPT ![p] = FailAnswer(call[p])]
    /\ UNCHANGED <<sess, call>>

Die(p) ==
    /\ stage[p] \in {"called", "applied"}
    /\ stage' = [stage EXCEPT ![p] = "dead"]
    /\ result' = [result EXCEPT ![p] = "none"]
    /\ UNCHANGED <<sess, call>>

ANext ==
    \E p \in Procs :
        \/ \E h \in Hook : Call(p, h)
        \/ TakeEffect(p) \/ Return(p) \/ Fail(p) \/ Die(p)

ASpec == AInit /\ [][ANext]_avars
=============================================================================
