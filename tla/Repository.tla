----------------------------- MODULE Repository -----------------------------
(***************************************************************************)
(* The decision core of GRD: intent.Repository over its ledger, the        *)
(* content engine it pins Versions in, the trunk ref it projects accepted  *)
(* Intent to, and the host process that opens it, crashes and reopens it.  *)
(*                                                                         *)
(* Two mutexes order the callers.  changeMu serializes whoever records a   *)
(* new Version, promotionMu whoever promotes; an operation that needs both *)
(* keeps promotions out while it works.  Evaluations take neither.  Every  *)
(* ledger call is one atomic durable step that validates again what the    *)
(* caller read before; between those steps other callers, faults, a crash, *)
(* or another writer of the trunk ref may come in.                         *)
(***************************************************************************)
EXTENDS Naturals, Sequences, FiniteSets

CONSTANTS
    Content,          \* content references of the engine
    InitialContent,   \* the trunk content the repository is opened on first
    Keys,             \* idempotency keys clients choose from
    Policies,         \* policy names an Evaluation reports on
    Principals,       \* principals a policy may assign its Requirement to
    Operations,       \* the operations clients of this instance issue
    MaxVersions,      \* bound: Version ids minted
    MaxIntents,       \* bound: Intents accepted, the initial one included
    MaxFaults         \* bound: failed calls, crashes and foreign trunk moves

RecordingOps == {"propose", "amend", "rebase", "reconcile", "resolve"}

(* The operations that hold promotionMu as well as changeMu.                *)
ExclusiveOps == {"rebase", "reconcile", "resolve"}

ASSUME ContentAssumption == InitialContent \in Content
ASSUME BoundsAssumption ==
    /\ MaxVersions \in Nat
    /\ MaxIntents \in Nat
    /\ MaxFaults \in Nat
ASSUME OperationsAssumption ==
    Operations \subseteq RecordingOps \cup {"evaluate", "respond", "promote", "conflict"}

VARIABLES
    \* The ledger: durable, each change of it one appended record.
    revisions,    \* accepted Intents in the order accepted: [prev, content]
    current,      \* the id (index in revisions) of the newest accepted Intent
    versions,     \* recorded Versions by id: see Draft
    queue,        \* pendingEvaluations: the Versions still to decide on
    evaluations,  \* by Version: [governing, required (policy -> assignee)]
    satisfied,    \* <<Version, policy>> whose latest Response is satisfied
    prepared,     \* prepared promotions not yet completed
    promotions,   \* completed promotions by Version: [from, to]
    claimed,      \* idempotency keys with a recorded effect
    conflicts,    \* recorded reconciliation conflicts, in order
    \* The content engine and the trunk ref: durable, not GRD's alone.
    pins,         \* content pinned per minted Version id
    trunk,        \* the content the trunk ref names
    foreign,      \* how often anyone but GRD has moved trunk
    \* The host process: lost in a crash.
    mode,         \* "down", "opening" or "serving"
    memCurrent,   \* Repository.current, what CurrentIntent answers (0: none)
    memConflict,  \* whether Repository.conflict holds a ProjectionConflict
    promoter,     \* where the holder of promotionMu is in Promote
    plan,         \* the promotion it works on
    inFlight,     \* the Version admitted, to be recorded by changeMu's holder
    faults        \* faults injected so far

chronicle == <<revisions, current, promotions>>
changes   == <<versions, claimed, conflicts>>
judgement == <<evaluations, satisfied>>
ledger    == <<chronicle, changes, judgement, queue, prepared>>
engine    == <<trunk, foreign>>
memory    == <<mode, memCurrent, memConflict>>
promoting == <<promoter, plan>>
vars      == <<ledger, pins, engine, memory, promoting, inFlight, faults>>

-----------------------------------------------------------------------------
(* Facts derived from the ledger.                                            *)

Intents == DOMAIN revisions
Versions == DOMAIN versions

Promotion == [version : Nat, from : Nat, to : Nat, content : Content]
NoPlan == [version |-> 0, from |-> 0, to |-> 0, content |-> InitialContent]

Put(f, x, y) == [z \in DOMAIN f \cup {x} |-> IF z = x THEN y ELSE f[z]]

(* Version ids are minted in recording order and a Change is named by its    *)
(* first Version, so the last element of versionIDs[change] is the greatest. *)
Latest(v) ==
    /\ v \in Versions
    /\ \A w \in Versions : versions[w].change = versions[v].change => w <= v

Promoted(v) == v \in DOMAIN promotions

(* Intents from r back to the initial one, by their PreviousID links.        *)
Spine(r) ==
    LET back[i \in 0 .. Len(revisions)] ==
            IF i = 0 THEN {} ELSE {i} \cup back[revisions[i].prev]
    IN  back[r]

(* v and what it amends, by Amendment facts only: a rebase or reconciliation *)
(* of a Version ends the walk.                                               *)
AmendedFrom(v) ==
    LET back[w \in 0 .. Len(pins)] ==
            IF w \in Versions /\ versions[w].op = "amend"
            THEN {versions[w].from} \cup back[versions[w].from]
            ELSE {}
    IN  back[v]

Resolved(n) == \E v \in Versions : versions[v].op = "resolve" /\ versions[v].conflict = n

(* The Requirements of v whose latest Response is not "satisfied".           *)
Unresolved(v) ==
    {p \in DOMAIN evaluations[v].required : <<v, p>> \notin satisfied}

(* An Evaluation, where there is one, allows promotion out of Intent i.      *)
Allows(v, i) ==
    v \in DOMAIN evaluations =>
        /\ evaluations[v].governing = i
        /\ Unresolved(v) = {}

-----------------------------------------------------------------------------
(* Locks.                                                                    *)

ChangeMuFree == inFlight = {}
PromotionMuFree ==
    /\ promoter = "idle"
    /\ \A d \in inFlight : d.op \notin ExclusiveOps

Client(op) == mode = "serving" /\ op \in Operations

-----------------------------------------------------------------------------
(* Recording Versions.  A Draft is the request with everything the handler   *)
(* derives from it; its id is the last one pinned.  Recorded, it is the      *)
(* Version together with its lineage fact (amendment, rebase, ...).          *)

Draft == [op : RecordingOps, key : Keys, change : Nat, base : Nat,
          content : Content, deps : SUBSET Nat, from : Nat,
          replaced : Nat, accepted : Nat, conflict : Nat]

Blank(op, k, c) ==
    [op |-> op, key |-> k, change |-> Len(pins) + 1, base |-> current,
     content |-> c, deps |-> {}, from |-> 0,
     replaced |-> 0, accepted |-> 0, conflict |-> 0]

(* The next Version of v's Change, keeping v's dependencies.                 *)
Successor(op, k, c, v) ==
    [Blank(op, k, c) EXCEPT !.change = versions[v].change,
                            !.deps = versions[v].deps,
                            !.from = v]

(* Mutant: no lookup of the key. *)
KeyNotLookedUp(k) == k \in Keys

(* Every recording handler first looks its key up: a key with an effect is   *)
(* answered from the ledger (or refused) and changes nothing.                *)
Unclaimed(k) == k \notin claimed

(* ContentAdmission.Admit: pin the content under the fresh Version id.  The  *)
(* caller keeps the lock and records next.                                   *)
Admit(d) ==
    /\ Len(pins) < MaxVersions
    /\ pins' = Append(pins, d.content)
    /\ inFlight' = {d}
    /\ UNCHANGED <<ledger, engine, memory, promoting, faults>>

Propose(k, base, c, deps) ==
    /\ Client("propose") /\ ChangeMuFree /\ Unclaimed(k)
    /\ base \in Intents
    /\ deps \subseteq Versions
    /\ Admit([Blank("propose", k, c) EXCEPT !.base = base, !.deps = deps])

(* Amend holds changeMu only: a promotion may begin while it works.          *)
Amend(k, v, c) ==
    /\ Client("amend") /\ ChangeMuFree /\ Unclaimed(k)
    /\ Latest(v)
    /\ ~Promoted(v)
    /\ \A p \in prepared : p.version # v
    /\ Admit([Successor("amend", k, c, v) EXCEPT !.base = versions[v].base])

RebaseHeldVersion(k, v, c) ==
    /\ Client("rebase") /\ ChangeMuFree /\ PromotionMuFree /\ Unclaimed(k)
    /\ prepared = {}
    /\ Latest(v)
    /\ versions[v].base # current
    /\ versions[v].base \in Spine(current)
    /\ ~Promoted(v)
    /\ Admit(Successor("rebase", k, c, v))

(* `accepted' amended the dependency `replaced' of v and was promoted.       *)
ReconcileDependent(k, v, replaced, accepted, c) ==
    /\ Client("reconcile") /\ ChangeMuFree /\ PromotionMuFree /\ Unclaimed(k)
    /\ prepared = {}
    /\ Promoted(accepted)
    /\ promotions[accepted].to \in Spine(current)
    /\ replaced \in AmendedFrom(accepted)
    /\ Latest(v)
    /\ replaced \in versions[v].deps
    /\ ~Promoted(v)
    /\ versions[replaced].change # versions[v].change
    /\ Admit([Successor("reconcile", k, c, v) EXCEPT
                 !.deps = @ \ {replaced, accepted},
                 !.replaced = replaced, !.accepted = accepted])

(* Unlike the other successors, nothing here asks whether the conflicting    *)
(* Version was itself promoted.                                              *)
ResolveReconciliationConflict(k, n, c) ==
    LET x == conflicts[n] IN
    /\ Client("resolve") /\ ChangeMuFree /\ PromotionMuFree /\ Unclaimed(k)
    /\ ~Resolved(n)
    /\ Latest(x.version)
    /\ prepared = {}
    /\ x.base = current
    /\ Promoted(x.to)
    /\ promotions[x.to].to \in Spine(current)
    /\ Admit([Successor("resolve", k, c, x.version) EXCEPT
                 !.deps = @ \ {x.from, x.to}, !.conflict = n])

(* The ledger validates each record again before it appends it.              *)

ProposalRecordable(d) ==
    /\ d.base \in Intents
    /\ d.deps \subseteq Versions

(* Mutant: the ledger trusts the check Amend made before Admit. *)
AmendmentTrusted(d) == d.from \in Versions

AmendmentRecordable(d) ==
    /\ Latest(d.from)
    /\ ~Promoted(d.from)
    /\ \A p \in prepared : p.version # d.from

RebaseRecordable(d) ==
    /\ Latest(d.from)
    /\ ~Promoted(d.from)
    /\ prepared = {}
    /\ d.base = current
    /\ versions[d.from].base \in Spine(current) \ {current}

ReconciliationRecordable(d) ==
    /\ Latest(d.from)
    /\ ~Promoted(d.from)
    /\ prepared = {}
    /\ d.base = current
    /\ Promoted(d.accepted) /\ promotions[d.accepted].to \in Spine(current)
    /\ d.replaced \in AmendedFrom(d.accepted)
    /\ d.replaced \in versions[d.from].deps
    /\ versions[d.replaced].change # versions[d.from].change

ResolutionRecordable(d) ==
    LET x == conflicts[d.conflict] IN
    /\ ~Resolved(d.conflict)
    /\ Latest(d.from)
    /\ prepared = {}
    /\ x.base = current /\ d.base = current
    /\ Promoted(x.to) /\ promotions[x.to].to \in Spine(current)

Recordable(d) ==
    /\ Unclaimed(d.key)
    /\ d.op = "propose"   => ProposalRecordable(d)
    /\ d.op = "amend"     => AmendmentRecordable(d)
    /\ d.op = "rebase"    => RebaseRecordable(d)
    /\ d.op = "reconcile" => ReconciliationRecordable(d)
    /\ d.op = "resolve"   => ResolutionRecordable(d)

(* Mutant: the superseded Version stays in the queue. *)
SupersededStaysPending(v, superseded) == queue \cup {v}

(* beginPendingEvaluation: the new Version takes the superseded one's place. *)
BeginPendingEvaluation(v, superseded) == (queue \ {superseded}) \cup {v}

(* One durable append, then changeMu is released.                            *)
RecordVersion ==
    \E d \in inFlight :
        LET v == Len(pins) IN
        /\ Recordable(d)
        /\ versions' = Put(versions, v, d)
        /\ claimed' = claimed \cup {d.key}
        /\ queue' = BeginPendingEvaluation(v, d.from)
        /\ inFlight' = {}
        /\ UNCHANGED <<chronicle, conflicts, judgement, prepared,
                       pins, engine, memory, promoting, faults>>

(* The ledger refuses what another caller overtook: the handler returns its  *)
(* error, and the pinned content stays behind unreferenced.                  *)
RefuseVersion ==
    /\ \E d \in inFlight : ~Recordable(d)
    /\ inFlight' = {}
    /\ UNCHANGED <<ledger, pins, engine, memory, promoting, faults>>

-----------------------------------------------------------------------------
(* Facts about Versions.                                                     *)

(* No mutex: the ledger alone decides.  The first Evaluation of a Version    *)
(* stands; its governing Intent is the Version's base.                       *)
RecordEvaluation(v, governing, required) ==
    /\ Client("evaluate")
    /\ v \notin DOMAIN evaluations
    /\ Latest(v)
    /\ v \in queue
    /\ governing = versions[v].base
    /\ evaluations' = Put(evaluations, v,
                          [governing |-> governing, required |-> required])
    /\ UNCHANGED <<chronicle, changes, satisfied, queue, prepared,
                   pins, engine, memory, promoting, inFlight, faults>>

(* Whether a Response of principal a to policy p of v is accepted.           *)
Answerable(v, p, a) ==
    /\ Latest(v)
    /\ v \in queue
    /\ v \in DOMAIN evaluations
    /\ evaluations[v].governing = current
    /\ p \in DOMAIN evaluations[v].required
    /\ evaluations[v].required[p] = a

(* The latest Response of a policy replaces the effect of earlier ones.      *)
RecordRequirementResponse(k, v, p, a, decision) ==
    /\ Client("respond") /\ ChangeMuFree /\ Unclaimed(k)
    /\ Answerable(v, p, a)
    /\ claimed' = claimed \cup {k}
    /\ satisfied' = IF decision = "satisfied"
                    THEN satisfied \cup {<<v, p>>}
                    ELSE satisfied \ {<<v, p>>}
    /\ UNCHANGED <<chronicle, versions, conflicts, evaluations, queue, prepared,
                   pins, engine, memory, promoting, inFlight, faults>>

(* A contributor's tool could not carry `version' over the promoted          *)
(* amendment from -> to of the work it shares a base with.                   *)
RecordReconciliationConflict(k, from, to, version) ==
    /\ Client("conflict") /\ ChangeMuFree /\ PromotionMuFree /\ Unclaimed(k)
    /\ Latest(to)
    /\ from \in AmendedFrom(to)
    /\ Promoted(to)
    /\ promotions[to].to \in Spine(current)
    /\ Latest(version)
    /\ versions[version].change # versions[from].change
    /\ versions[version].base = versions[from].base
    /\ claimed' = claimed \cup {k}
    /\ conflicts' = Append(conflicts, [key |-> k, version |-> version,
                                       from |-> from, to |-> to, base |-> current])
    /\ UNCHANGED <<chronicle, versions, judgement, queue, prepared,
                   pins, engine, memory, promoting, inFlight, faults>>

-----------------------------------------------------------------------------
(* Promotion.                                                                *)

Release ==
    /\ promoter' = "idle"
    /\ plan' = NoPlan

Down ==
    /\ mode' = "down"
    /\ memCurrent' = 0
    /\ memConflict' = FALSE
    /\ inFlight' = {}
    /\ Release

(* Mutant: an error does not stop the repository from being opened. *)
OpenAnyway == Release /\ UNCHANGED <<memory, inFlight>>

(* Promote returns an error.  While the repository is being opened the error *)
(* makes OpenRepository fail, and the host exits.                            *)
GiveUp ==
    IF mode = "opening"
    THEN Down
    ELSE Release /\ UNCHANGED <<memory, inFlight>>

(* A promotion already completed is answered from the ledger; the answer     *)
(* also overwrites what CurrentIntent reports.                               *)
PromoteCompleted(v) ==
    /\ Client("promote") /\ PromotionMuFree
    /\ Promoted(v)
    /\ memCurrent' = promotions[v].to
    /\ memConflict' = FALSE
    /\ UNCHANGED <<ledger, pins, engine, mode, promoting, inFlight, faults>>

(* A request for the promotion that is pending takes it up again.            *)
PromotePending(p) ==
    /\ Client("promote") /\ PromotionMuFree
    /\ p \in prepared
    /\ promoter' = "read"
    /\ plan' = p
    /\ UNCHANGED <<ledger, pins, engine, memory, inFlight, faults>>

(* Mutant: nobody asks whether the dependencies were promoted. *)
PromotableAlone(v) ==
    /\ ~Promoted(v)
    /\ prepared = {}
    /\ Allows(v, current)
    /\ versions[v].base = current

(* What Promote reads of v before it plans a promotion out of the current    *)
(* Intent.  Its reads are separate ledger calls; only evaluations and        *)
(* responses can change between them, and those the ledger checks again.     *)
Promotable(v) ==
    /\ ~Promoted(v)
    /\ prepared = {}
    /\ Allows(v, current)
    /\ \A d \in versions[v].deps : Promoted(d)
    /\ \/ versions[v].base = current
       \/ \E d \in versions[v].deps : promotions[d].to = current

Promote(v) ==
    /\ Client("promote") /\ PromotionMuFree
    /\ Len(revisions) < MaxIntents
    /\ v \in Versions
    /\ Promotable(v)
    /\ promoter' = "prepare"
    /\ plan' = [version |-> v, from |-> current, to |-> Len(revisions) + 1,
                content |-> versions[v].content]
    /\ UNCHANGED <<ledger, pins, engine, memory, inFlight, faults>>

Preparable(p) ==
    /\ prepared = {}
    /\ Allows(p.version, current)
    /\ Latest(p.version)
    /\ ~Promoted(p.version)
    /\ p.from = current
    /\ p.to \notin Intents

(* Mutant: the queue is left alone. *)
StaysPending(v) == queue

(* The prepared promotion leaves the queue: no Evaluation or Response is     *)
(* accepted for its Version any more.                                        *)
Dequeue(v) == queue \ {v}

PreparePromotion ==
    /\ promoter = "prepare"
    /\ Preparable(plan)
    /\ prepared' = prepared \cup {plan}
    /\ queue' = Dequeue(plan.version)
    /\ promoter' = "read"
    /\ UNCHANGED <<chronicle, changes, judgement, pins, engine, memory, plan,
                   inFlight, faults>>

RefusePromotion ==
    /\ promoter = "prepare"
    /\ ~Preparable(plan)
    /\ Release
    /\ UNCHANGED <<ledger, pins, engine, memory, inFlight, faults>>

FromContent == revisions[plan.from].content

(* Where reconcilePrepared goes on, once it knows what trunk names.          *)
Continue(actual) ==
    \/ /\ actual = plan.content
       /\ promoter' = "complete"
       /\ UNCHANGED <<memory, plan, inFlight>>
    \/ /\ actual # plan.content           \* ProjectionConflict
       /\ memConflict' = TRUE
       /\ Release
       /\ UNCHANGED <<mode, memCurrent, inFlight>>

(* Mutant: the promotion is completed before trunk is advanced. *)
CompleteUnprojected ==
    /\ promoter = "read"
    /\ trunk = FromContent
    /\ promoter' = "complete"
    /\ UNCHANGED <<ledger, pins, engine, memory, plan, inFlight, faults>>

ReadTrunk ==
    /\ promoter = "read"
    /\ \/ /\ trunk = FromContent
          /\ promoter' = "advance"
          /\ UNCHANGED <<memory, plan, inFlight>>
       \/ /\ trunk # FromContent
          /\ Continue(trunk)
    /\ UNCHANGED <<ledger, pins, engine, faults>>

(* Mutant: the ref is updated whatever it names. *)
TrunkForced == trunk \in Content

(* The compare-and-swap of the trunk ref.                                    *)
TrunkUnmoved == trunk = FromContent

AdvanceTrunk ==
    /\ promoter = "advance"
    /\ TrunkUnmoved
    /\ trunk' = plan.content
    /\ promoter' = "complete"
    /\ UNCHANGED <<ledger, pins, foreign, memory, plan, inFlight, faults>>

AdvanceOvertaken ==
    /\ promoter = "advance"
    /\ ~TrunkUnmoved
    /\ promoter' = "reread"
    /\ UNCHANGED <<ledger, pins, engine, memory, plan, inFlight, faults>>

(* Mutant: a lost race is always put down to somebody else. *)
BlameAnother ==
    /\ promoter = "reread"
    /\ memConflict' = TRUE
    /\ Release
    /\ UNCHANGED <<ledger, pins, engine, mode, memCurrent, inFlight, faults>>

RereadTrunk ==
    /\ promoter = "reread"
    /\ \/ /\ trunk = FromContent
          /\ GiveUp
       \/ /\ trunk # FromContent
          /\ Continue(trunk)
    /\ UNCHANGED <<ledger, pins, engine, faults>>

(* Mutant: the promotion stays prepared. *)
CompleteStaysPrepared ==
    /\ revisions' = Append(revisions, [prev |-> plan.from, content |-> plan.content])
    /\ current' = plan.to
    /\ promotions' = Put(promotions, plan.version, [from |-> plan.from, to |-> plan.to])
    /\ queue' = Dequeue(plan.version)
    /\ UNCHANGED <<changes, judgement, prepared>>

(* Mutant: the accepted revision is not recorded. *)
CompleteForgetsRevision ==
    /\ current' = plan.to
    /\ promotions' = Put(promotions, plan.version, [from |-> plan.from, to |-> plan.to])
    /\ queue' = Dequeue(plan.version)
    /\ prepared' = prepared \ {plan}
    /\ UNCHANGED <<changes, judgement, revisions>>

(* The ledger's CompletePromotion: the prepared Intent becomes current.      *)
Complete ==
    /\ revisions' = Append(revisions, [prev |-> plan.from, content |-> plan.content])
    /\ current' = plan.to
    /\ promotions' = Put(promotions, plan.version, [from |-> plan.from, to |-> plan.to])
    /\ queue' = Dequeue(plan.version)
    /\ prepared' = prepared \ {plan}
    /\ UNCHANGED <<changes, judgement>>

CompletePromotion ==
    /\ promoter = "complete"
    /\ Complete
    /\ promoter' = "remember"
    /\ UNCHANGED <<pins, engine, memory, plan, inFlight, faults>>

(* Only now does CurrentIntent answer with the new Intent.                   *)
Remember ==
    /\ promoter = "remember"
    /\ memCurrent' = plan.to
    /\ memConflict' = FALSE
    /\ Release
    /\ UNCHANGED <<ledger, pins, engine, mode, inFlight, faults>>

-----------------------------------------------------------------------------
(* The host opens the repository.                                            *)

(* Mutant: a promotion left pending is not taken up. *)
OpenOnly ==
    /\ mode = "down"
    /\ mode' = "opening"
    /\ memCurrent' = current
    /\ UNCHANGED <<ledger, pins, engine, memConflict, promoting, inFlight, faults>>

(* OpenRepository reads the current Intent and reconciles a pending          *)
(* promotion, if the last process left one.                                  *)
Open ==
    /\ mode = "down"
    /\ mode' = "opening"
    /\ memCurrent' = current
    /\ IF prepared = {}
       THEN UNCHANGED promoting
       ELSE /\ promoter' = "read"
            /\ plan' \in prepared
    /\ UNCHANGED <<ledger, pins, engine, memConflict, inFlight, faults>>

(* grds serves only if trunk names the accepted content.                     *)
Ready == ~memConflict /\ trunk = revisions[memCurrent].content

Serve ==
    /\ mode = "opening"
    /\ promoter = "idle"
    /\ IF Ready
       THEN /\ mode' = "serving"
            /\ UNCHANGED <<memCurrent, memConflict, promoting, inFlight>>
       ELSE Down
    /\ UNCHANGED <<ledger, pins, engine, faults>>

-----------------------------------------------------------------------------
(* What goes wrong.                                                          *)

Fault ==
    /\ faults < MaxFaults
    /\ faults' = faults + 1

Crash ==
    /\ mode # "down"
    /\ Fault
    /\ Down
    /\ UNCHANGED <<ledger, pins, engine>>

(* A ledger or Git call of the promotion fails without effect.               *)
PromotionCallFails ==
    /\ promoter \in {"prepare", "read", "advance", "reread", "complete"}
    /\ Fault
    /\ GiveUp
    /\ UNCHANGED <<ledger, pins, engine>>

(* git moved the ref, but the call reports an error (it was killed).  The    *)
(* adapter looks at the ref again: it reports the lost race, or fails.       *)
AdvanceOutcomeLost ==
    /\ promoter = "advance"
    /\ TrunkUnmoved
    /\ Fault
    /\ trunk' = plan.content
    /\ \/ promoter' = "reread" /\ UNCHANGED <<memory, plan, inFlight>>
       \/ GiveUp
    /\ UNCHANGED <<ledger, pins, foreign>>

(* The ledger completed the promotion, but the call reports an error.        *)
CompletionOutcomeLost ==
    /\ promoter = "complete"
    /\ Fault
    /\ Complete
    /\ GiveUp
    /\ UNCHANGED <<pins, engine>>

(* The content is pinned, but recording the Version fails.                   *)
RecordingFails ==
    /\ inFlight # {}
    /\ Fault
    /\ inFlight' = {}
    /\ UNCHANGED <<ledger, pins, engine, memory, promoting>>

(* Someone pushes to the trunk branch with Git.                              *)
TrunkMoved(c) ==
    /\ c # trunk
    /\ Fault
    /\ trunk' = c
    /\ foreign' = foreign + 1
    /\ UNCHANGED <<ledger, pins, memory, promoting, inFlight>>

-----------------------------------------------------------------------------
Init ==
    /\ revisions = <<[prev |-> 0, content |-> InitialContent]>>
    /\ current = 1
    /\ versions = <<>>
    /\ queue = {}
    /\ evaluations = <<>>
    /\ satisfied = {}
    /\ prepared = {}
    /\ promotions = <<>>
    /\ claimed = {}
    /\ conflicts = <<>>
    /\ pins = <<>>
    /\ trunk = InitialContent
    /\ foreign = 0
    /\ mode = "serving"
    /\ memCurrent = 1
    /\ memConflict = FALSE
    /\ promoter = "idle"
    /\ plan = NoPlan
    /\ inFlight = {}
    /\ faults = 0

ClientStep ==
    \/ \E k \in Keys, c \in Content :
        \/ \E base \in Intents, deps \in SUBSET Versions : Propose(k, base, c, deps)
        \/ \E v \in Versions : Amend(k, v, c)
        \/ \E v \in Versions : RebaseHeldVersion(k, v, c)
        \/ \E v, replaced, accepted \in Versions :
               ReconcileDependent(k, v, replaced, accepted, c)
        \/ \E n \in DOMAIN conflicts : ResolveReconciliationConflict(k, n, c)
    \/ \E v \in Versions, i \in Intents, need \in SUBSET Policies :
        \E required \in [need -> Principals] : RecordEvaluation(v, i, required)
    \/ \E k \in Keys, v \in Versions, p \in Policies, a \in Principals :
        \E decision \in {"satisfied", "revision_requested"} :
            RecordRequirementResponse(k, v, p, a, decision)
    \/ \E k \in Keys, from, to, version \in Versions :
        RecordReconciliationConflict(k, from, to, version)
    \/ \E v \in Versions : Promote(v) \/ PromoteCompleted(v)
    \/ \E p \in prepared : PromotePending(p)

RecordingStep == RecordVersion \/ RefuseVersion

PromotionStep ==
    \/ PreparePromotion \/ RefusePromotion
    \/ ReadTrunk \/ AdvanceTrunk \/ AdvanceOvertaken \/ RereadTrunk
    \/ CompletePromotion \/ Remember

HostStep == Open \/ Serve

FaultStep ==
    \/ Crash
    \/ PromotionCallFails \/ AdvanceOutcomeLost \/ CompletionOutcomeLost
    \/ RecordingFails
    \/ \E c \in Content : TrunkMoved(c)

Next == ClientStep \/ RecordingStep \/ PromotionStep \/ HostStep \/ FaultStep

Spec == Init /\ [][Next]_vars

(* The goroutine in Promote or OpenRepository keeps being scheduled; and, a   *)
(* premise about whoever runs grds, a host that went down is started again.  *)
LiveSpec ==
    /\ Spec
    /\ WF_vars(PromotionStep)
    /\ WF_vars(Serve)
    /\ WF_vars(Open)

-----------------------------------------------------------------------------
(* Properties.                                                               *)

TypeOK ==
    /\ revisions \in Seq([prev : Nat, content : Content])
    /\ current \in Intents
    /\ pins \in Seq(Content)
    /\ Versions \subseteq 1 .. Len(pins)
    /\ versions \in [Versions -> Draft]
    /\ queue \subseteq Versions
    /\ DOMAIN evaluations \subseteq Versions
    /\ \A v \in DOMAIN evaluations :
           /\ evaluations[v].governing \in Intents
           /\ DOMAIN evaluations[v].required \subseteq Policies
    /\ satisfied \subseteq (DOMAIN evaluations) \X Policies
    /\ prepared \subseteq Promotion
    /\ DOMAIN promotions \subseteq Versions
    /\ promotions \in [DOMAIN promotions -> [from : Nat, to : Nat]]
    /\ claimed \subseteq Keys
    /\ conflicts \in Seq([key : Keys, version : Nat, from : Nat, to : Nat, base : Nat])
    /\ trunk \in Content
    /\ foreign \in Nat
    /\ mode \in {"down", "opening", "serving"}
    /\ memCurrent \in {0} \cup Intents
    /\ memConflict \in BOOLEAN
    /\ promoter \in {"idle", "prepare", "read", "advance", "reread", "complete", "remember"}
    /\ plan \in Promotion
    /\ inFlight \subseteq Draft
    /\ faults \in 0 .. MaxFaults

(* "Intent ... forms one ordered spine": every accepted Intent but the first  *)
(* follows the one accepted just before it and is the outcome of exactly one  *)
(* completed promotion, whose content it has.  Lost outcomes, retries and     *)
(* restarts neither fork the spine nor accept a promotion twice.              *)
SpineIntact ==
    /\ current = Len(revisions)
    /\ \A v, w \in DOMAIN promotions : promotions[v].to = promotions[w].to => v = w
    /\ \A i \in 2 .. Len(revisions) :
           /\ revisions[i].prev = i - 1
           /\ \E v \in DOMAIN promotions :
                  /\ promotions[v] = [from |-> i - 1, to |-> i]
                  /\ revisions[i].content = versions[v].content

(* The write-ahead order of a promotion: as long as nobody else moves the     *)
(* trunk ref, trunk names the newest accepted content or that of a promotion  *)
(* the ledger holds as prepared, whatever call failed and wherever the host   *)
(* crashed.  A restart can therefore always tell what trunk shows.            *)
TrunkFollowsDecisions ==
    foreign = 0 =>
        \/ trunk = revisions[current].content
        \/ \E p \in prepared : trunk = p.content

(* The promotions decided so far, completed or not: <<Version, from Intent>>. *)
Decided ==
    {<<v, promotions[v].from>> : v \in DOMAIN promotions}
        \cup {<<p.version, p.from>> : p \in prepared}

(* "Promotion rechecks authority at its durable boundary": the Evaluation of  *)
(* a Version once decided on, if it has one, interprets it under the very     *)
(* Intent it was promoted from, and every Requirement in it stays answered    *)
(* "satisfied": no Evaluation and no contrary Response gets in afterwards,    *)
(* between the check and the durable decision included.                       *)
PromotionGoverned ==
    \A e \in Decided :
        e[1] \in DOMAIN evaluations =>
            /\ evaluations[e[1]].governing = e[2]
            /\ \A p \in DOMAIN evaluations[e[1]].required : <<e[1], p>> \in satisfied

(* A Version is accepted on top of what it was made from: its dependencies    *)
(* were all accepted before it, and the Intent it replaces is its base or the *)
(* outcome of one of those dependencies.                                      *)
DependenciesAcceptedFirst ==
    \A e \in Decided :
        /\ \A d \in versions[e[1]].deps : Promoted(d) /\ promotions[d].to <= e[2]
        /\ \/ versions[e[1]].base = e[2]
           \/ \E d \in versions[e[1]].deps : promotions[d].to = e[2]

(* The durable queue is exactly the work left: the latest Version of every    *)
(* Change unless its promotion was decided.  Nothing recorded is forgotten    *)
(* and nothing superseded or decided is offered to the evaluators.            *)
WorkQueueExact ==
    queue = {v \in Versions : Latest(v) /\ \A e \in Decided : e[1] # v}

(* A decided Version stays the latest of its Change, however an amendment     *)
(* races its promotion.  Only the resolution of a conflict recorded about a   *)
(* Version can follow it although it was promoted.                            *)
PromotedStaysLatest ==
    \A e \in Decided : \A w \in Versions :
        versions[w].from = e[1] => versions[w].op = "resolve"

(* A key has one effect: two recorded Versions or conflicts never carry the   *)
(* same one, and what is recorded under a key stays claimed by it.            *)
OneEffectPerKey ==
    /\ \A v, w \in Versions : versions[v].key = versions[w].key => v = w
    /\ \A m, n \in DOMAIN conflicts : conflicts[m].key = conflicts[n].key => m = n
    /\ \A v \in Versions, n \in DOMAIN conflicts : versions[v].key # conflicts[n].key
    /\ {versions[v].key : v \in Versions} \subseteq claimed

(* A projection conflict is never a false alarm raised by GRD's own writes.   *)
ConflictIsForeign == memConflict => foreign > 0

(* host-ready.md: a host reports ready with the durable accepted Intent whose *)
(* content trunk names; no promotion is left undecided from before.           *)
ServesSettledState ==
    [][mode = "opening" /\ mode' = "serving" =>
           /\ memCurrent = current
           /\ trunk = revisions[current].content
           /\ prepared = {}]_vars

(* control-http.md: the Intent served is the durable accepted one, whenever   *)
(* no promotion is at work.  (Answering a completed promotion breaks this.)   *)
ServedIntentIsDurable ==
    mode = "serving" /\ promoter = "idle" => memCurrent = current

(* README: "Promotion ... recovers safely across restarts": a promotion a     *)
(* crashed host left prepared is completed by a later start, unless a foreign *)
(* write stands in the way.                                                   *)
RestartCompletes ==
    (mode = "down" /\ prepared # {}) ~> (prepared = {} \/ foreign > 0)

(* The detailed protocol implements the promise about accepted Intent.        *)
Accepted == INSTANCE AcceptedIntent WITH
    spine <- [i \in Intents |-> revisions[i].content],
    decided <- {p.content : p \in prepared}

AcceptedSpec == Accepted!Spec
=============================================================================
