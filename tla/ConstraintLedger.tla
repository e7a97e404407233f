-------------------------- MODULE ConstraintLedger --------------------------
(***************************************************************************)
(* The constraint ledger of agentcontract (constraints/ledger.py and the   *)
(* lifecycle rules of constraints/models.py): a dictionary of constraint   *)
(* records with a lifecycle status, supersession links in both directions  *)
(* and conflict links.                                                     *)
(*                                                                         *)
(* A constraint's content (description, strength, scope, provenance) never *)
(* changes once it is registered, so it is left out; so are timestamps,    *)
(* reasons and relation metadata, which no decision of the ledger reads.   *)
(* A caller hands in new constraints without links of their own: add and   *)
(* supersede would keep links a caller had set by hand, and nothing in the *)
(* package sets them.                                                      *)
(* A call that raises changes nothing and is the absence of a step.        *)
(***************************************************************************)
EXTENDS Naturals, Sequences

CONSTANTS
    Ids,     \* constraint identifiers a caller may use
    NoId     \* Python's None in a supersession link

ASSUME NoIdAssumption == NoId \notin Ids

VARIABLES
    record,  \* id -> what the dictionary holds under it
    order,   \* the dictionary's keys, in insertion order
    snap     \* the last LedgerSnapshot taken

vars == <<record, order, snap>>

-----------------------------------------------------------------------------

Status == {"ACTIVE", "REVOKED", "SUPERSEDED", "CONFLICTED"}

(* A record of the dictionary; "ABSENT" stands for a missing key.  A list  *)
(* of conflicts is kept without duplicates by the code, hence a set.       *)
Record == [status : Status \cup {"ABSENT"},
           supersedes : Ids \cup {NoId},
           supersededBy : Ids \cup {NoId},
           conflictsWith : SUBSET Ids]

Unlinked(s) == [status |-> s, supersedes |-> NoId,
                supersededBy |-> NoId, conflictsWith |-> {}]
AbsentRecord == Unlinked("ABSENT")

(* Mutant of AllowedTransitions: a superseded record may be revoked.       *)
BugSupersededRevocable(s) ==
    CASE s = "ACTIVE" -> {"REVOKED", "SUPERSEDED", "CONFLICTED"}
      [] s = "CONFLICTED" -> {"ACTIVE", "REVOKED", "SUPERSEDED"}
      [] s = "SUPERSEDED" -> {"REVOKED"}
      [] OTHER -> {}

AllowedTransitions(s) ==
    CASE s = "ACTIVE" -> {"REVOKED", "SUPERSEDED", "CONFLICTED"}
      [] s = "CONFLICTED" -> {"ACTIVE", "REVOKED", "SUPERSEDED"}
      [] OTHER -> {}

Present(c) == record[c].status # "ABSENT"
Active(c) == record[c].status = "ACTIVE"
Terminal(c) == record[c].status \in {"REVOKED", "SUPERSEDED"}
CanTransition(c, s) == s \in AllowedTransitions(record[c].status)

(* What the guard enforces: list_active() *)
ListActive == {c \in Ids : Active(c)}

(* The two records supersede() builds: the retired one and its successor.  *)
Superseded(c, r) == [record[c] EXCEPT !.status = "SUPERSEDED", !.supersededBy = r]
Replacement(c) == [Unlinked("ACTIVE") EXCEPT !.supersedes = c]

-----------------------------------------------------------------------------

Init ==
    /\ record = [c \in Ids |-> AbsentRecord]
    /\ order = <<>>
    /\ snap = [record |-> record, order |-> order]

(* Mutants: supersede without the duplicate check on the replacement, and  *)
(* without the link back; mark_conflicted that accepts any registered      *)
(* peer; resolve_conflict that keeps the peers, and one that invents a     *)
(* status outside the lifecycle.                                           *)
BugSupersedeOverwrites(c, r) ==
    /\ CanTransition(c, "SUPERSEDED")
    /\ r # c
    /\ record' = [record EXCEPT ![c] = Superseded(c, r), ![r] = Replacement(c)]
    /\ order' = Append(order, r)
    /\ UNCHANGED snap

BugSupersedeOneWay(c, r) ==
    /\ CanTransition(c, "SUPERSEDED")
    /\ ~Present(r)
    /\ record' = [record EXCEPT ![c] = Superseded(c, r), ![r] = Unlinked("ACTIVE")]
    /\ order' = Append(order, r)
    /\ UNCHANGED snap

BugConflictAnyPeer(c, d) ==
    /\ CanTransition(c, "CONFLICTED")
    /\ Present(d)
    /\ record' = [record EXCEPT ![c].status = "CONFLICTED",
                                ![c].conflictsWith = @ \cup {d}]
    /\ UNCHANGED <<order, snap>>

Add(c) ==
    /\ ~Present(c)
    /\ record' = [record EXCEPT ![c] = Unlinked("ACTIVE")]
    /\ order' = Append(order, c)
    /\ UNCHANGED snap

Revoke(c) ==
    /\ CanTransition(c, "REVOKED")
    /\ record' = [record EXCEPT ![c].status = "REVOKED"]
    /\ UNCHANGED <<order, snap>>

(* The replacement is a constraint object of the caller, registered by the *)
(* same call that retires the existing one.                                *)
Supersede(c, r) ==
    /\ CanTransition(c, "SUPERSEDED")
    /\ r # c
    /\ ~Present(r)
    /\ record' = [record EXCEPT ![c] = Superseded(c, r), ![r] = Replacement(c)]
    /\ order' = Append(order, r)
    /\ UNCHANGED snap

(* Only the source changes: the peer named d keeps its status.             *)
MarkConflicted(c, d) ==
    /\ CanTransition(c, "CONFLICTED")
    /\ Active(d)
    /\ record' = [record EXCEPT ![c].status = "CONFLICTED",
                                ![c].conflictsWith = @ \cup {d}]
    /\ UNCHANGED <<order, snap>>

ResolveConflict(c) ==
    /\ CanTransition(c, "ACTIVE")
    /\ record' = [record EXCEPT ![c].status = "ACTIVE",
                                ![c].conflictsWith = {}]
    /\ UNCHANGED <<order, snap>>

TakeSnapshot ==
    /\ snap' = [record |-> record, order |-> order]
    /\ UNCHANGED <<record, order>>

(* from_snapshot: the records are taken as they are, whatever their status *)
FromSnapshot ==
    /\ record' = snap.record
    /\ order' = snap.order
    /\ UNCHANGED snap

Next ==
    \/ \E c \in Ids : Add(c) \/ Revoke(c) \/ ResolveConflict(c)
    \/ \E c, d \in Ids : Supersede(c, d) \/ MarkConflicted(c, d)
    \/ TakeSnapshot
    \/ FromSnapshot

Spec == Init /\ [][Next]_vars

-----------------------------------------------------------------------------
(* get_history: backward along supersedes to the root, then forward along  *)
(* superseded_by, each walk stopping at an id it has already seen; only    *)
(* registered records are walked, so Len(order) steps are enough.          *)

InPath(path, c) == \E i \in 1..Len(path) : path[i] = c

Extend(path, link) ==
    LET next == link[path[Len(path)]]
    IN  IF next = NoId \/ InPath(path, next) THEN path ELSE Append(path, next)

Walk(c, link) ==
    LET path[n \in 0..Len(order)] ==
          IF n = 0 THEN <<c>> ELSE Extend(path[n-1], link)
    IN  path[Len(order)]

LineageRoot(c) ==
    LET back == Walk(c, [x \in Ids |-> record[x].supersedes])
    IN  back[Len(back)]

GetHistory(c) == Walk(LineageRoot(c), [x \in Ids |-> record[x].supersededBy])

-----------------------------------------------------------------------------

(* The types of the variables. *)
TypeOK ==
    /\ record \in [Ids -> Record]
    /\ order \in Seq(Ids)
    /\ snap \in [record : [Ids -> Record], order : Seq(Ids)]

Before(o, c, d) == \E i, j \in 1..Len(o) : i < j /\ o[i] = c /\ o[j] = d

(* The supersession links of a ledger (records rec, key order o) are a set *)
(* of disjoint chains: the two directions are inverse to each other, both  *)
(* ends are registered, a record has a successor exactly when it is        *)
(* SUPERSEDED, and a successor was always registered after its             *)
(* predecessor, so no chain is a cycle.                                    *)
RegisteredOnce(rec, o) ==
    /\ \A c \in Ids : rec[c].status # "ABSENT" <=> \E i \in 1..Len(o) : o[i] = c
    /\ \A i, j \in 1..Len(o) : o[i] = o[j] => i = j
    /\ \A c \in Ids : rec[c].status = "ABSENT" => rec[c] = AbsentRecord
SuccessorIffSuperseded(rec) ==
    \A c \in Ids : rec[c].status = "SUPERSEDED" <=> rec[c].supersededBy # NoId
LinksInverse(rec) ==
    \A c, d \in Ids : rec[c].supersededBy = d <=> rec[d].supersedes = c
LinksForward(rec, o) ==
    \A c, d \in Ids : rec[c].supersededBy = d => Before(o, c, d)
LineageOf(rec, o) ==
    /\ RegisteredOnce(rec, o)
    /\ SuccessorIffSuperseded(rec)
    /\ LinksInverse(rec)
    /\ LinksForward(rec, o)

(* Supersession by any sequence of add / revoke / supersede / conflict /   *)
(* restore calls keeps the lineage of every requirement a finite chain     *)
(* with consistent links, in the live ledger and in the snapshot it may be *)
(* rebuilt from (supersede, from_snapshot).                                *)
LineageInv == LineageOf(record, order) /\ LineageOf(snap.record, snap.order)

(* get_history answers the same chain from every member of a lineage: it   *)
(* contains the id asked for, consecutive members are linked, it starts at *)
(* a record that supersedes nothing, and all but its last member are       *)
(* SUPERSEDED, so that a requirement that was replaced any number of times *)
(* always has exactly one current representative.                          *)
HistoryComplete ==
    \A c \in Ids : Present(c) =>
        LET h == GetHistory(c)
            last == h[Len(h)]
        IN  /\ InPath(h, c)
            /\ \A i \in 1..Len(h) : GetHistory(h[i]) = h
            /\ \A i \in 1..Len(h) - 1 : record[h[i]].supersededBy = h[i+1]
            /\ record[h[1]].supersedes = NoId
            /\ \A i \in 1..Len(h) : record[h[i]].status = "SUPERSEDED" <=> i < Len(h)

(* Suspensions never go round in a circle: in every group of CONFLICTED    *)
(* constraints, none of which names itself, some member was suspended in   *)
(* favour of peers outside the group.  So two requirements can never       *)
(* switch each other off, through any history of mark_conflicted,          *)
(* resolve_conflict and re-marking (the precondition on the peer).         *)
NoConflictCycleOf(rec) ==
    \A S \in SUBSET Ids :
        /\ S # {}
        /\ \A c \in S : rec[c].status = "CONFLICTED" /\ c \notin rec[c].conflictsWith
        => \E c \in S : rec[c].conflictsWith \cap S = {}
NoConflictCycle == NoConflictCycleOf(record) /\ NoConflictCycleOf(snap.record)

(* A record is CONFLICTED exactly as long as it names the peer that made   *)
(* it so: an enforced record carries no conflict left over from an earlier *)
(* mark that was resolved, and a suspended one says why.                   *)
ConflictRecordedOf(rec) ==
    \A c \in Ids :
        /\ rec[c].status = "ACTIVE" => rec[c].conflictsWith = {}
        /\ rec[c].status = "CONFLICTED" => \E d \in Ids : rec[c].conflictsWith = {d}
ConflictRecorded == ConflictRecordedOf(record) /\ ConflictRecordedOf(snap.record)

(* History is not overwritten: short of loading another snapshot, a record *)
(* is never removed, a terminal record never changes again (it is neither  *)
(* reactivated nor re-linked), and a link to a predecessor, once made,     *)
(* stays (the lifecycle table and the duplicate checks of add/supersede).  *)
HistoryKept ==
    [][\/ <<record', order'>> = <<snap.record, snap.order>>
       \/ \A c \in Ids :
            /\ Present(c) => record'[c].status # "ABSENT"
            /\ Terminal(c) => record'[c] = record[c]
            /\ record[c].supersedes # NoId => record'[c].supersedes = record[c].supersedes]_vars
=============================================================================
