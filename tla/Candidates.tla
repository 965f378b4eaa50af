----------------------------- MODULE Candidates -----------------------------
(***************************************************************************)
(* What the repository offers contributors whose work was overtaken:       *)
(* dependents to reconcile, held Versions to rebase, dependents ready for  *)
(* promotion, conflicts to resolve.  Each list is derived anew from the    *)
(* history, under both mutexes, by code of its own; what may then be       *)
(* recorded is decided by the handlers of Repository.                      *)
(***************************************************************************)
EXTENDS Repository

(* Versions and Intents are numbered in the order recorded, so the walk from *)
(* the current Intent back, and from an accepted Version back through its    *)
(* amendments, meets the greatest first.                                     *)

ReportedNow(v, replaced, accepted) ==
    \E n \in DOMAIN conflicts :
        /\ conflicts[n].version = v
        /\ conflicts[n].from = replaced
        /\ conflicts[n].to = accepted
        /\ conflicts[n].base = current

(* Mutant: only the Version the accepted one amended directly is looked up. *)
LastAmendment(accepted) == {versions[accepted].from} \cap AmendedFrom(accepted)

(* The amendments the walk goes through.                                     *)
Amendments(accepted) == AmendedFrom(accepted)

(* What appendDependentReconciliations lets through for v.                   *)
Replacements(v) ==
    {r \in versions[v].deps \X DOMAIN promotions :   \* <<replaced, accepted>>
        /\ promotions[r[2]].to \in Spine(current)
        /\ r[1] \in Amendments(r[2])
        /\ ~ReportedNow(v, r[1], r[2])}

(* One candidate per Change: the first the walk meets; and none at all if    *)
(* the dependent turns out to be promoted.                                   *)
DependentReconciliations ==
    {c \in UNION {{v} \X Replacements(v) : v \in {w \in Versions : Latest(w)}} :
        /\ ~Promoted(c[1])
        /\ \A q \in Replacements(c[1]) :
               \/ promotions[q[2]].to < promotions[c[2][2]].to
               \/ q[2] = c[2][2] /\ q[1] <= c[2][1]}

(* Mutant: the fact that decides is not looked up. *)
Whatever(v) == TRUE

Undecided(v) == ~Promoted(v)

(* The Changes that entered reconciliation and came out of it.               *)
Reconciled ==
    {versions[v].change : v \in {w \in Versions : versions[w].op = "reconcile"}}
        \cup {versions[conflicts[n].version].change : n \in {m \in DOMAIN conflicts : Resolved(m)}}

HeldVersionRebases ==
    {v \in Versions :
        /\ versions[v].change \in Reconciled
        /\ Latest(v)
        /\ versions[v].base # current
        /\ Undecided(v)
        /\ versions[v].base \in Spine(current)}

(* Dependents of the Version whose promotion produced the current Intent.    *)
ReadyDependents ==
    {v \in Versions :
        /\ \E d \in versions[v].deps : Promoted(d) /\ promotions[d].to = current
        /\ Latest(v)
        /\ ~Promoted(v)
        /\ \A d \in versions[v].deps : Promoted(d)}

(* How a conflict nobody has resolved is shown.                              *)
Superseded(n) == conflicts[n].base # current

-----------------------------------------------------------------------------
(* Properties.                                                               *)

(* What the ledger would be asked to record about the candidates.            *)
ReconciliationOf(v, r) ==
    [Successor("reconcile", "key", InitialContent, v)
        EXCEPT !.replaced = r[1], !.accepted = r[2]]
RebaseOf(v) == Successor("rebase", "key", InitialContent, v)

(* Nothing is offered that would then be refused: every reconciliation and    *)
(* rebase listed is recordable as long as no promotion is pending, and every  *)
(* dependent listed as ready is promotable unless its Evaluation forbids it.  *)
OfferedIsAccepted ==
    prepared = {} =>
        /\ \A c \in DependentReconciliations :
               ReconciliationRecordable(ReconciliationOf(c[1], c[2]))
        /\ \A v \in HeldVersionRebases : RebaseRecordable(RebaseOf(v))
        /\ \A v \in ReadyDependents : Allows(v, current) => Promotable(v)

(* Resolving the conflict gives v a successor without the old dependency.    *)
Resolvable(v) ==
    \E n \in DOMAIN conflicts :
        /\ conflicts[n].version = v
        /\ ~Superseded(n)
        /\ ResolutionRecordable([from |-> v, conflict |-> n, base |-> current])

Carried(v) ==
    \/ \E c \in DependentReconciliations : c[1] = v
    \/ Resolvable(v)

Held(v) == Latest(v) /\ ~Promoted(v)

(* Reconciliation "returns repository-side evolution to continuing work"      *)
(* (vision.md): work that depends on a Version which was amended, where the   *)
(* amendment was accepted, always has a way on: it is offered for             *)
(* reconciliation, or what was reported about it can be resolved.             *)
AmendedWorkCarried ==
    \A v \in Versions :
        /\ prepared = {}
        /\ Held(v)
        /\ \E accepted \in DOMAIN promotions : versions[v].deps \cap AmendedFrom(accepted) # {}
        => Carried(v)
=============================================================================
