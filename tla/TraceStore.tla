------------------------------ MODULE TraceStore ------------------------------
(***************************************************************************)
(* The append-only trace store of agentcontract (trace/store.py): every    *)
(* append checks and extends the event list and its indexes (TraceLog);    *)
(* the store is saved as the plain list (to_dict) and rebuilt by appending *)
(* the saved events one after the other to an empty store (from_dict).     *)
(* An append that raises leaves the store as it was and is the absence of  *)
(* a step.                                                                 *)
(***************************************************************************)
EXTENDS TraceLog

VARIABLES
    store,    \* the TraceStore in memory
    saved,    \* the events last written by to_dict
    loading   \* from_dict is replaying saved into store

storeVars == <<store, saved, loading>>

-----------------------------------------------------------------------------

StoreInit ==
    /\ store = EmptyStore
    /\ saved = <<>>
    /\ loading = FALSE

AppendEvent(e) ==
    /\ ~loading
    /\ Accepts(store, e)
    /\ store' = Appended(store, e)
    /\ UNCHANGED <<saved, loading>>

(* Mutant: only tool events are saved.                                     *)
BugToDict ==
    /\ ~loading
    /\ saved' = SelectSeq(store.events, LAMBDA e : e.kind # "OTHER")
    /\ UNCHANGED <<store, loading>>

ToDict ==
    /\ ~loading
    /\ saved' = store.events
    /\ UNCHANGED <<store, loading>>

(* Mutant: the new store shares an index with the old one.                 *)
BugFromDict ==
    /\ ~loading
    /\ store' = [EmptyStore EXCEPT !.byTrace = store.byTrace]
    /\ loading' = TRUE
    /\ UNCHANGED saved

(* from_dict, usually in a new process: an empty store, then the loop.     *)
FromDict ==
    /\ ~loading
    /\ store' = EmptyStore
    /\ loading' = TRUE
    /\ UNCHANGED saved

ReplayNext ==
    LET n == Len(store.events) + 1 IN
    /\ loading
    /\ n <= Len(saved)
    /\ Accepts(store, saved[n])
    /\ store' = Appended(store, saved[n])
    /\ UNCHANGED <<saved, loading>>

ReplayDone ==
    /\ loading
    /\ Len(store.events) = Len(saved)
    /\ loading' = FALSE
    /\ UNCHANGED <<store, saved>>

StoreNext ==
    \/ \E e \in Event : AppendEvent(e)
    \/ ToDict
    \/ FromDict
    \/ ReplayNext
    \/ ReplayDone

StoreSpec == StoreInit /\ [][StoreNext]_storeVars

-----------------------------------------------------------------------------

(* The types of the variables. *)
StoreTypeOK ==
    /\ store \in Store
    /\ saved \in Seq(Event)
    /\ loading \in BOOLEAN

(* The store's docstring: unique event ids, monotonic sequences per trace, *)
(* parents in the same trace, correlated calls and results.  The checks of *)
(* append work on indexes, this is about the events themselves, those in   *)
(* memory and those saved.                                                 *)
LogsOK == LogOK(store.events) /\ LogOK(saved)

(* The indexes say what the event list says, see Agrees: lookups find the  *)
(* events of the list and no others.                                       *)
IndexesAgree == Agrees(store)

(* Whatever to_dict wrote, from_dict reads back: no saved event is refused *)
(* on replay, and the replayed part is always a prefix of what was saved.  *)
(* A refusal would make the session of a hook process unreadable for good. *)
ReplayAccepted ==
    loading =>
        /\ Len(store.events) <= Len(saved)
        /\ \A i \in 1..Len(store.events) : store.events[i] = saved[i]
        /\ Len(store.events) < Len(saved) => Accepts(store, saved[Len(store.events) + 1])

StatusIn(log) ==
    [k \in Slot |-> IF Happened(log, "TOOL_RESULT", k) THEN "answered"
                    ELSE IF Happened(log, "TOOL_CALL", k) THEN "open"
                    ELSE "unknown"]

Calls == INSTANCE ToolCalls WITH
    status <- StatusIn(IF loading THEN saved ELSE store.events),
    kept <- StatusIn(saved)

(* A tool call is declared once and answered at most once, in that order,  *)
(* through saves and restarts (ToolCalls).                                 *)
ImplementsToolCalls == Calls!CSpec
=============================================================================
