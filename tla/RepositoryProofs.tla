-------------------------- MODULE RepositoryProofs --------------------------
(* What holds of Repository for every choice of its constants.              *)
EXTENDS Repository, TLAPS

-----------------------------------------------------------------------------
(* The inductive invariant.                                                  *)

(* At most one promotion is prepared, and it extends the newest Intent.      *)
PreparedFollows ==
    /\ \A p, q \in prepared : p = q
    /\ \A p \in prepared :
           /\ p.version \in Versions
           /\ ~Promoted(p.version)
           /\ p.from = current
           /\ p.to = Len(revisions) + 1
           /\ p.content = versions[p.version].content

(* What the holder of promotionMu knows of the promotion it works on.        *)
PlanMatches ==
    /\ promoter = "prepare" =>
           /\ plan.version \in Versions
           /\ plan.from = current
           /\ plan.to = Len(revisions) + 1
           /\ plan.content = versions[plan.version].content
    /\ promoter \in {"read", "advance", "reread", "complete"} => plan \in prepared
    /\ promoter = "complete" /\ foreign = 0 => trunk = plan.content
    /\ promoter = "remember" => plan.to = current

(* The id a Draft will be recorded under is pinned and not yet used.         *)
DraftFresh == inFlight # {} => Len(pins) \in (1 .. Len(pins)) \ Versions

(* Completed promotions led to Intents of the spine.                         *)
OutcomesAccepted == \A v \in DOMAIN promotions : promotions[v].to \in Intents

(* What was decided is no longer pending.                                    *)
DecidedSettled ==
    \A e \in Decided : e[1] \in Versions /\ e[1] \notin queue

(* What the process knows while it opens the repository: it gets to serving  *)
(* without a conflict only when no promotion is left pending.                *)
HostKnows ==
    /\ memConflict => foreign > 0
    /\ mode # "serving" => promoter # "prepare"
    /\ mode = "opening" =>
           /\ promoter # "remember" => memCurrent = current
           /\ promoter = "remember" => prepared = {}
           /\ promoter = "idle" /\ ~memConflict => prepared = {}

IInv ==
    /\ TypeOK
    /\ PreparedFollows
    /\ PlanMatches
    /\ DraftFresh
    /\ OutcomesAccepted
    /\ SpineIntact
    /\ TrunkFollowsDecisions
    /\ DecidedSettled
    /\ PromotionGoverned
    /\ HostKnows

-----------------------------------------------------------------------------
(* Facts about the operators.                                                *)

(* The Versions and Intents are numbered.                                    *)
LEMMA Numbered ==
    ASSUME TypeOK
    PROVE  /\ Versions \subseteq Nat
           /\ Intents = 1 .. Len(revisions)
           /\ Len(revisions) \in Nat
           /\ Len(pins) \in Nat
           /\ current \in Nat
    BY DEF TypeOK, Intents, Versions

(* What a request that passed its checks will admit is a proper Draft.       *)
LEMMA BlankDraft ==
    ASSUME TypeOK, NEW op \in RecordingOps, NEW k \in Keys, NEW c \in Content
    PROVE  Blank(op, k, c) \in Draft
    BY Numbered DEF Blank, Draft

LEMMA SuccessorDraft ==
    ASSUME TypeOK, NEW op \in RecordingOps, NEW k \in Keys, NEW c \in Content,
           NEW v \in Versions
    PROVE  Successor(op, k, c, v) \in Draft
<1>1. Blank(op, k, c) \in Draft
    BY BlankDraft
<1>2. versions[v] \in Draft /\ v \in Nat
    BY Numbered DEF TypeOK
<1>. QED
    BY <1>1, <1>2 DEF Successor, Draft

(* How the Version a Draft becomes under `id' hangs together with what was   *)
(* recorded before: it begins a Change of its own, or follows a Version of   *)
(* its Change and takes no new dependencies on; its base was accepted.       *)
Related(d, id) ==
    \/ /\ d.op = "propose" /\ d.from = 0 /\ d.change = id
       /\ d.deps \subseteq Versions /\ d.base \in Intents
    \/ /\ d.op # "propose" /\ d.from \in Versions
       /\ d.change = versions[d.from].change
       /\ d.base \in Intents \cup {versions[d.from].base}
       /\ d.deps \subseteq versions[d.from].deps
       /\ d.op = "resolve" =>
              d.conflict \in DOMAIN conflicts /\ conflicts[d.conflict].version = d.from

(* Whatever the operation, recording begins with the admission of a Draft    *)
(* by whoever gets changeMu.                                                 *)
Admission == ChangeMuFree /\ \E d \in Draft : Admit(d) /\ Related(d, Len(pins) + 1)

LEMMA ProposeAdmits ==
    ASSUME TypeOK, NEW k \in Keys, NEW c \in Content, NEW base \in Intents,
           NEW deps \in SUBSET Versions, Propose(k, base, c, deps)
    PROVE  Admission
<1> DEFINE s == Blank("propose", k, c)
           d == [s EXCEPT !.base = base, !.deps = deps]
<1>1. s \in Draft
    BY BlankDraft DEF RecordingOps
<1>2. base \in Nat /\ deps \subseteq Nat
    BY Numbered
<1>3. d \in Draft
    <2>. HIDE DEF s
    <2>. QED  BY <1>1, <1>2 DEF Draft
<1>4. Related(d, Len(pins) + 1)
    BY DEF Related, Blank, TypeOK
<1>. QED
    BY <1>3, <1>4 DEF Propose, Admission

LEMMA AmendAdmits ==
    ASSUME TypeOK, NEW k \in Keys, NEW c \in Content, NEW v \in Versions, Amend(k, v, c)
    PROVE  Admission
<1> DEFINE d == [Successor("amend", k, c, v) EXCEPT !.base = versions[v].base]
<1>1. Successor("amend", k, c, v) \in Draft
    BY SuccessorDraft DEF RecordingOps
<1>2. versions[v] \in Draft
    BY DEF TypeOK
<1>3. d \in Draft
    BY <1>1, <1>2 DEF Draft
<1>4. Related(d, Len(pins) + 1)
    BY DEF Related, Successor, Blank, TypeOK
<1>. QED
    BY <1>3, <1>4 DEF Amend, Admission

LEMMA RebaseAdmits ==
    ASSUME TypeOK, NEW k \in Keys, NEW c \in Content, NEW v \in Versions,
           RebaseHeldVersion(k, v, c)
    PROVE  Admission
<1>1. Successor("rebase", k, c, v) \in Draft
    BY SuccessorDraft DEF RecordingOps
<1>2. Related(Successor("rebase", k, c, v), Len(pins) + 1)
    BY DEF Related, Successor, Blank, TypeOK
<1>. QED
    BY <1>1, <1>2 DEF RebaseHeldVersion, Admission

LEMMA ReconcileAdmits ==
    ASSUME TypeOK, NEW k \in Keys, NEW c \in Content, NEW v \in Versions,
           NEW replaced \in Versions, NEW accepted \in Versions,
           ReconcileDependent(k, v, replaced, accepted, c)
    PROVE  Admission
<1> DEFINE s == Successor("reconcile", k, c, v)
           d == [s EXCEPT !.deps = @ \ {replaced, accepted},
                          !.replaced = replaced, !.accepted = accepted]
<1>1. s \in Draft
    BY SuccessorDraft DEF RecordingOps
<1>2. d \in Draft
    <2>. HIDE DEF s
    <2>. QED  BY <1>1, Numbered DEF Draft
<1>3. Related(d, Len(pins) + 1)
    BY DEF Related, Successor, Blank, TypeOK
<1>. QED
    BY <1>2, <1>3 DEF ReconcileDependent, Admission

LEMMA ResolveAdmits ==
    ASSUME TypeOK, NEW k \in Keys, NEW c \in Content, NEW n \in DOMAIN conflicts,
           ResolveReconciliationConflict(k, n, c)
    PROVE  Admission
<1> DEFINE x == conflicts[n]
           s == Successor("resolve", k, c, x.version)
           d == [s EXCEPT !.deps = @ \ {x.from, x.to}, !.conflict = n]
<1>1. x.version \in Versions
    BY DEF ResolveReconciliationConflict, Latest
<1>2. s \in Draft
    BY <1>1, SuccessorDraft DEF RecordingOps
<1>3. n \in Nat
    <2>1. conflicts \in Seq([key : Keys, version : Nat, from : Nat, to : Nat, base : Nat])
        BY DEF TypeOK
    <2>. QED  BY <2>1
<1>4. d \in Draft
    <2>. HIDE DEF s
    <2>. QED  BY <1>2, <1>3 DEF Draft
<1>5. Related(d, Len(pins) + 1)
    BY <1>1 DEF Related, Successor, Blank, TypeOK
<1>. QED
    BY <1>4, <1>5 DEF ResolveReconciliationConflict, Admission

(* The steps of clients, with the recording requests put together.           *)
LEMMA ClientCases ==
    ASSUME TypeOK, ClientStep
    PROVE  \/ Admission
           \/ \E v \in Versions, i \in Intents, need \in SUBSET Policies :
                 \E required \in [need -> Principals] : RecordEvaluation(v, i, required)
           \/ \E k \in Keys, v \in Versions, p \in Policies, a \in Principals :
                 \E decision \in {"satisfied", "revision_requested"} :
                     RecordRequirementResponse(k, v, p, a, decision)
           \/ \E k \in Keys, from, to, version \in Versions :
                 RecordReconciliationConflict(k, from, to, version)
           \/ \E v \in Versions : Promote(v)
           \/ \E v \in Versions : PromoteCompleted(v)
           \/ \E p \in prepared : PromotePending(p)
    BY ProposeAdmits, AmendAdmits, RebaseAdmits, ReconcileAdmits, ResolveAdmits
    DEF ClientStep

(* Every step of the system, the recording requests put together.            *)
LEMMA StepCases ==
    ASSUME TypeOK, [Next]_vars
    PROVE  \/ Admission \/ RecordVersion \/ RefuseVersion
           \/ \E v \in Versions, i \in Intents, need \in SUBSET Policies :
                 \E required \in [need -> Principals] : RecordEvaluation(v, i, required)
           \/ \E k \in Keys, v \in Versions, p \in Policies, a \in Principals :
                 \E decision \in {"satisfied", "revision_requested"} :
                     RecordRequirementResponse(k, v, p, a, decision)
           \/ \E k \in Keys, from, to, version \in Versions :
                 RecordReconciliationConflict(k, from, to, version)
           \/ \E v \in Versions : Promote(v)
           \/ \E v \in Versions : PromoteCompleted(v)
           \/ \E p \in prepared : PromotePending(p)
           \/ PreparePromotion \/ RefusePromotion
           \/ ReadTrunk \/ AdvanceTrunk \/ AdvanceOvertaken \/ RereadTrunk
           \/ CompletePromotion \/ Remember
           \/ Open \/ Serve
           \/ Crash \/ PromotionCallFails \/ AdvanceOutcomeLost
           \/ CompletionOutcomeLost \/ RecordingFails
           \/ \E c \in Content : TrunkMoved(c)
           \/ UNCHANGED vars
    BY ClientCases DEF Next, RecordingStep, PromotionStep, HostStep, FaultStep

(* A fact recorded about Versions leaves everything else alone.              *)
LEMMA FactSteps ==
    ASSUME \/ \E v \in Versions, i \in Intents, need \in SUBSET Policies :
                 \E required \in [need -> Principals] : RecordEvaluation(v, i, required)
           \/ \E k \in Keys, v \in Versions, p \in Policies, a \in Principals :
                 \E decision \in {"satisfied", "revision_requested"} :
                     RecordRequirementResponse(k, v, p, a, decision)
           \/ \E k \in Keys, from, to, version \in Versions :
                 RecordReconciliationConflict(k, from, to, version)
    PROVE  UNCHANGED <<chronicle, versions, prepared, pins, engine, memory, promoting,
                       inFlight>>
<1>1. ASSUME NEW v, NEW i, NEW required, RecordEvaluation(v, i, required)
      PROVE  UNCHANGED <<chronicle, versions, prepared, pins, engine, memory, promoting,
                         inFlight>>
    BY <1>1 DEF RecordEvaluation, changes
<1>2. ASSUME NEW k, NEW v, NEW p, NEW a, NEW decision,
             RecordRequirementResponse(k, v, p, a, decision)
      PROVE  UNCHANGED <<chronicle, versions, prepared, pins, engine, memory, promoting,
                         inFlight>>
    BY <1>2 DEF RecordRequirementResponse
<1>3. ASSUME NEW k, NEW from, NEW to, NEW version,
             RecordReconciliationConflict(k, from, to, version)
      PROVE  UNCHANGED <<chronicle, versions, prepared, pins, engine, memory, promoting,
                         inFlight>>
    BY <1>3 DEF RecordReconciliationConflict
<1>. QED
    BY <1>1, <1>2, <1>3

-----------------------------------------------------------------------------
(* Type correctness.                                                         *)

LEMMA TypeInit ==
    ASSUME Init
    PROVE  TypeOK
<1>1. revisions = <<[prev |-> 0, content |-> InitialContent]>> /\ Intents = {1}
    BY DEF Init, Intents
<1>2. revisions \in Seq([prev : Nat, content : Content])
    BY <1>1, ContentAssumption
<1>3. pins \in Seq(Content) /\ conflicts \in
        Seq([key : Keys, version : Nat, from : Nat, to : Nat, base : Nat])
    BY DEF Init
<1>4. Versions = {} /\ DOMAIN evaluations = {} /\ DOMAIN promotions = {}
    BY DEF Init, Versions
<1>5. plan \in Promotion
    BY ContentAssumption DEF Init, NoPlan, Promotion
<1>6. /\ versions \in [Versions -> Draft]
      /\ promotions \in [DOMAIN promotions -> [from : Nat, to : Nat]]
    BY <1>4 DEF Init
<1>7. /\ current \in Intents /\ memCurrent \in {0} \cup Intents
      /\ queue \subseteq Versions /\ satisfied \subseteq (DOMAIN evaluations) \X Policies
      /\ prepared \subseteq Promotion /\ claimed \subseteq Keys /\ inFlight \subseteq Draft
      /\ trunk \in Content /\ foreign \in Nat
      /\ mode = "serving" /\ promoter = "idle"
    BY <1>1, ContentAssumption DEF Init
<1>8. faults \in 0 .. MaxFaults
    BY BoundsAssumption DEF Init
<1>9. memConflict \in BOOLEAN
    BY DEF Init
<1>10. Versions \subseteq 1 .. Len(pins)
    BY <1>4
<1>. QED
    BY <1>2, <1>3, <1>4, <1>5, <1>6, <1>7, <1>8, <1>9, <1>10 DEF TypeOK

LEMMA TypeStep ==
    ASSUME TypeOK, PreparedFollows, PlanMatches, DraftFresh, OutcomesAccepted,
           [Next]_vars
    PROVE  TypeOK'
<1>. USE DEF chronicle, changes, judgement, ledger, engine, memory, promoting
<1>0. NoPlan \in Promotion
    BY ContentAssumption DEF NoPlan, Promotion
<1>f. Fault => faults' \in 0 .. MaxFaults
    BY BoundsAssumption DEF Fault, TypeOK
<1>1. CASE Admission
    <2>1. PICK d \in Draft : Admit(d)
        BY <1>1 DEF Admission
    <2>2. d.content \in Content
        BY DEF Draft
    <2>3. pins' \in Seq(Content) /\ Len(pins') = Len(pins) + 1
        BY <2>1, <2>2 DEF TypeOK, Admit
    <2>4. Versions \subseteq 1 .. Len(pins')
        BY <2>3, Numbered DEF TypeOK
    <2>. QED
        BY <2>1, <2>3, <2>4 DEF TypeOK, Admit, Versions, Intents
<1>2. CASE RecordVersion
    <2>1. PICK d \in inFlight :
              /\ versions' = Put(versions, Len(pins), d)
              /\ claimed' = claimed \cup {d.key}
              /\ queue' = BeginPendingEvaluation(Len(pins), d.from)
              /\ inFlight' = {}
              /\ UNCHANGED <<chronicle, conflicts, judgement, prepared,
                             pins, engine, memory, promoting, faults>>
        BY <1>2 DEF RecordVersion
    <2>2. d \in Draft /\ d.key \in Keys
        BY DEF TypeOK, Draft
    <2>3. versions' \in [Versions' -> Draft] /\ Versions' = Versions \cup {Len(pins)}
        BY <2>1, <2>2 DEF TypeOK, Put, Versions
    <2>4. Len(pins) \in 1 .. Len(pins)
        BY <2>1 DEF DraftFresh
    <2>. QED
        BY <2>1, <2>2, <2>3, <2>4 DEF TypeOK, BeginPendingEvaluation, Intents
<1>3. CASE RefuseVersion
    BY <1>3 DEF RefuseVersion, TypeOK, Versions, Intents
<1>4. CASE \E v \in Versions, i \in Intents, need \in SUBSET Policies :
               \E required \in [need -> Principals] : RecordEvaluation(v, i, required)
    <2>1. PICK v \in Versions, i \in Intents, need \in SUBSET Policies :
              \E required \in [need -> Principals] : RecordEvaluation(v, i, required)
        BY <1>4
    <2>2. PICK required \in [need -> Principals] : RecordEvaluation(v, i, required)
        BY <2>1
    <2>3. /\ DOMAIN evaluations' = DOMAIN evaluations \cup {v}
          /\ evaluations'[v] = [governing |-> i, required |-> required]
          /\ \A w \in DOMAIN evaluations : evaluations'[w] = evaluations[w]
        BY <2>2 DEF RecordEvaluation, Put
    <2>4. \A w \in DOMAIN evaluations' :
              /\ evaluations'[w].governing \in Intents
              /\ DOMAIN evaluations'[w].required \subseteq Policies
        BY <2>2, <2>3 DEF TypeOK
    <2>. QED
        BY <2>2, <2>3, <2>4 DEF RecordEvaluation, TypeOK, Versions, Intents
<1>5. CASE \E k \in Keys, v \in Versions, p \in Policies, a \in Principals :
               \E decision \in {"satisfied", "revision_requested"} :
                   RecordRequirementResponse(k, v, p, a, decision)
    <2>1. PICK k \in Keys, v \in Versions, p \in Policies, a \in Principals,
               decision \in {"satisfied", "revision_requested"} :
               RecordRequirementResponse(k, v, p, a, decision)
        BY <1>5
    <2>2. v \in DOMAIN evaluations /\ claimed' \subseteq Keys
        BY <2>1 DEF RecordRequirementResponse, Answerable, TypeOK
    <2>3. satisfied' \subseteq (DOMAIN evaluations) \X Policies
        BY <2>1, <2>2 DEF RecordRequirementResponse, TypeOK
    <2>. QED
        BY <2>1, <2>2, <2>3 DEF RecordRequirementResponse, TypeOK, Versions, Intents
<1>6. CASE \E k \in Keys, from, to, version \in Versions :
               RecordReconciliationConflict(k, from, to, version)
    <2>1. PICK k \in Keys, from \in Versions, to \in Versions, version \in Versions :
              RecordReconciliationConflict(k, from, to, version)
        BY <1>6
    <2>2. [key |-> k, version |-> version, from |-> from, to |-> to, base |-> current]
              \in [key : Keys, version : Nat, from : Nat, to : Nat, base : Nat]
        BY Numbered
    <2>3. conflicts' \in Seq([key : Keys, version : Nat, from : Nat, to : Nat, base : Nat])
        BY <2>1, <2>2 DEF RecordReconciliationConflict, TypeOK
    <2>4. claimed' \subseteq Keys
        BY <2>1 DEF RecordReconciliationConflict, TypeOK
    <2>. QED
        BY <2>1, <2>3, <2>4 DEF RecordReconciliationConflict, TypeOK, Versions, Intents
<1>7. CASE \E v \in Versions : Promote(v)
    <2>1. PICK v \in Versions : Promote(v)
        BY <1>7
    <2>2. versions[v].content \in Content
        BY DEF TypeOK, Draft
    <2>3. plan' \in Promotion
        BY <2>1, <2>2, Numbered DEF Promote, Promotion
    <2>. QED
        BY <2>1, <2>3 DEF Promote, TypeOK, Versions, Intents
<1>8. CASE \E v \in Versions : PromoteCompleted(v)
    BY <1>8 DEF PromoteCompleted, Promoted, OutcomesAccepted, TypeOK, Versions, Intents
<1>9. CASE \E p \in prepared : PromotePending(p)
    BY <1>9 DEF PromotePending, TypeOK, Versions, Intents
<1>10. CASE PreparePromotion
    BY <1>10 DEF PreparePromotion, Dequeue, TypeOK, Versions, Intents
<1>11. CASE RefusePromotion
    BY <1>0, <1>11 DEF RefusePromotion, Release, TypeOK, Versions, Intents
<1>12. CASE ReadTrunk
    BY <1>0, <1>12 DEF ReadTrunk, Continue, Release, TypeOK, Versions, Intents
<1>13. CASE AdvanceTrunk
    BY <1>13 DEF AdvanceTrunk, TypeOK, Promotion, Versions, Intents
<1>14. CASE AdvanceOvertaken
    BY <1>14 DEF AdvanceOvertaken, TypeOK, Versions, Intents
<1>15. CASE RereadTrunk
    BY <1>0, <1>15
    DEF RereadTrunk, Continue, GiveUp, Down, Release, TypeOK, Versions, Intents
<1>16. ASSUME Complete, plan \in prepared
       PROVE  /\ revisions' \in Seq([prev : Nat, content : Content])
              /\ current' \in Intents'
              /\ Intents \subseteq Intents'
              /\ plan.to \in Intents'
              /\ promotions' \in [DOMAIN promotions' -> [from : Nat, to : Nat]]
              /\ DOMAIN promotions' \subseteq Versions
              /\ prepared' \subseteq Promotion
              /\ queue' \subseteq Versions
    <2>1. plan.from \in Nat /\ plan.to \in Nat /\ plan.content \in Content
        BY DEF TypeOK, Promotion
    <2>2. [prev |-> plan.from, content |-> plan.content] \in [prev : Nat, content : Content]
        BY <2>1
    <2>3. plan.to = Len(revisions) + 1 /\ plan.version \in Versions
        BY <1>16 DEF PreparedFollows
    <2>4. /\ revisions' \in Seq([prev : Nat, content : Content])
          /\ Intents' = 1 .. (Len(revisions) + 1)
        BY <1>16, <2>2 DEF Complete, TypeOK, Intents
    <2>5. promotions' \in [DOMAIN promotions' -> [from : Nat, to : Nat]]
        BY <1>16, <2>1 DEF Complete, Put, TypeOK
    <2>6. DOMAIN promotions' \subseteq Versions
        BY <1>16, <2>3 DEF Complete, Put, TypeOK
    <2>7. /\ current' \in Intents'
          /\ Intents \subseteq Intents'
          /\ plan.to \in Intents'
        BY <1>16, <2>3, <2>4, Numbered DEF Complete
    <2>8. prepared' \subseteq Promotion /\ queue' \subseteq Versions
        BY <1>16 DEF Complete, Dequeue, TypeOK
    <2>. QED
        BY <2>4, <2>5, <2>6, <2>7, <2>8
<1>17. CASE CompletePromotion
    <2>1. Complete /\ plan \in prepared
        BY <1>17 DEF CompletePromotion, PlanMatches
    <2>. QED
        BY <1>16, <1>17, <2>1 DEF CompletePromotion, Complete, TypeOK, Versions
<1>18. CASE Remember
    BY <1>0, <1>18 DEF Remember, Release, PlanMatches, TypeOK, Versions, Intents
<1>19. CASE Open
    BY <1>19 DEF Open, TypeOK, Versions, Intents
<1>20. CASE Serve
    BY <1>0, <1>20 DEF Serve, Down, Release, TypeOK, Versions, Intents
<1>21. CASE Crash
    BY <1>0, <1>f, <1>21
    DEF Crash, Down, Release, TypeOK, Versions, Intents
<1>22. CASE PromotionCallFails
    BY <1>0, <1>f, <1>22
    DEF PromotionCallFails, GiveUp, Down, Release, TypeOK, Versions, Intents
<1>23. CASE AdvanceOutcomeLost
    BY <1>0, <1>f, <1>23
    DEF AdvanceOutcomeLost, GiveUp, Down, Release, TypeOK, Promotion, Versions, Intents
<1>24. CASE CompletionOutcomeLost
    <2>1. Complete /\ plan \in prepared
        BY <1>24 DEF CompletionOutcomeLost, PlanMatches
    <2>2. /\ mode' \in {"down", "opening", "serving"}
          /\ memCurrent' \in {0} \cup Intents
          /\ memConflict' \in BOOLEAN
          /\ promoter' = "idle" /\ plan' \in Promotion
          /\ inFlight' \subseteq Draft
          /\ faults' \in 0 .. MaxFaults
        BY <1>0, <1>f, <1>24
        DEF CompletionOutcomeLost, GiveUp, Down, Release, TypeOK
    <2>. QED
        BY <1>16, <1>24, <2>1, <2>2 DEF CompletionOutcomeLost, Complete, TypeOK, Versions
<1>25. CASE RecordingFails
    BY <1>f, <1>25 DEF RecordingFails, TypeOK, Versions, Intents
<1>26. CASE \E c \in Content : TrunkMoved(c)
    <2>1. PICK c \in Content : TrunkMoved(c)
        BY <1>26
    <2>2. faults' \in 0 .. MaxFaults /\ foreign' \in Nat
        BY <1>f, <2>1 DEF TrunkMoved, TypeOK
    <2>. QED
        BY <2>1, <2>2 DEF TrunkMoved, TypeOK, Versions, Intents
<1>27. CASE UNCHANGED vars
    BY <1>27 DEF vars, TypeOK, Versions, Intents
<1>. QED
    BY StepCases, <1>1, <1>2, <1>3, <1>4, <1>5, <1>6, <1>7, <1>8, <1>9, <1>10,
       <1>11, <1>12, <1>13, <1>14, <1>15, <1>17, <1>18, <1>19, <1>20, <1>21,
       <1>22, <1>23, <1>24, <1>25, <1>26, <1>27

-----------------------------------------------------------------------------
(* The protocol of a promotion.                                              *)

Protocol ==
    /\ PreparedFollows
    /\ PlanMatches
    /\ OutcomesAccepted
    /\ SpineIntact
    /\ TrunkFollowsDecisions

(* A step that decides nothing: the facts the protocol is about stay, and    *)
(* the holder of promotionMu, if any, stays where it is or gives the lock up. *)
Neutral ==
    /\ UNCHANGED <<chronicle, versions, prepared, engine>>
    /\ UNCHANGED promoting \/ promoter' = "idle"

LEMMA NeutralSteps ==
    ASSUME TypeOK,
           \/ Admission \/ RefuseVersion
           \/ \E v \in Versions, i \in Intents, need \in SUBSET Policies :
                 \E required \in [need -> Principals] : RecordEvaluation(v, i, required)
           \/ \E k \in Keys, v \in Versions, p \in Policies, a \in Principals :
                 \E decision \in {"satisfied", "revision_requested"} :
                     RecordRequirementResponse(k, v, p, a, decision)
           \/ \E k \in Keys, from, to, version \in Versions :
                 RecordReconciliationConflict(k, from, to, version)
           \/ \E v \in Versions : PromoteCompleted(v)
           \/ RefusePromotion \/ Remember \/ Serve
           \/ Crash \/ PromotionCallFails \/ RecordingFails
           \/ UNCHANGED vars
    PROVE  Neutral
<1>. USE DEF Neutral, chronicle, changes, judgement, ledger, engine, memory, promoting
<1>1. CASE Admission
    BY <1>1 DEF Admission, Admit
<1>2. CASE RefuseVersion
    BY <1>2 DEF RefuseVersion
<1>3. CASE \E v \in Versions, i \in Intents, need \in SUBSET Policies :
               \E required \in [need -> Principals] : RecordEvaluation(v, i, required)
    BY <1>3 DEF RecordEvaluation
<1>4. CASE \E k \in Keys, v \in Versions, p \in Policies, a \in Principals :
               \E decision \in {"satisfied", "revision_requested"} :
                   RecordRequirementResponse(k, v, p, a, decision)
    BY <1>4 DEF RecordRequirementResponse
<1>5. CASE \E k \in Keys, from, to, version \in Versions :
               RecordReconciliationConflict(k, from, to, version)
    BY <1>5 DEF RecordReconciliationConflict
<1>6. CASE \E v \in Versions : PromoteCompleted(v)
    BY <1>6 DEF PromoteCompleted
<1>7. CASE RefusePromotion \/ Remember \/ Serve
    BY <1>7 DEF RefusePromotion, Remember, Serve, Down, Release
<1>8. CASE Crash \/ PromotionCallFails \/ RecordingFails
    BY <1>8 DEF Crash, PromotionCallFails, RecordingFails, GiveUp, Down, Release
<1>9. CASE UNCHANGED vars
    BY <1>9 DEF vars
<1>. QED
    BY <1>1, <1>2, <1>3, <1>4, <1>5, <1>6, <1>7, <1>8, <1>9

LEMMA NeutralKeepsProtocol ==
    ASSUME TypeOK, Protocol, Neutral
    PROVE  Protocol'
    BY DEF Neutral, Protocol, PreparedFollows, PlanMatches, OutcomesAccepted,
           SpineIntact, TrunkFollowsDecisions, Promoted, Versions, Intents,
           chronicle, engine, promoting

(* Completing the prepared promotion extends the spine by one Intent, and    *)
(* trunk has named its content since before.                                 *)
LEMMA CompleteKeepsSpine ==
    ASSUME TypeOK, Protocol, promoter = "complete", Complete,
           UNCHANGED <<pins, engine>>
    PROVE  /\ prepared' = {}
           /\ current' = plan.to
           /\ OutcomesAccepted'
           /\ SpineIntact'
           /\ TrunkFollowsDecisions'
<1>. USE DEF Complete, changes, judgement, engine
<1>1. /\ plan \in prepared /\ plan.version \in Versions
      /\ plan.version \notin DOMAIN promotions
      /\ plan.from = current /\ plan.to = current + 1
      /\ plan.content = versions[plan.version].content
      /\ current = Len(revisions) /\ current \in Nat
    BY Numbered DEF Protocol, PlanMatches, PreparedFollows, SpineIntact, Promoted
<1>2. prepared' = {}
    BY <1>1 DEF Protocol, PreparedFollows
<1>3. /\ Len(revisions') = current + 1
      /\ \A i \in 1 .. current : revisions'[i] = revisions[i]
      /\ revisions'[current + 1] = [prev |-> current, content |-> plan.content]
      /\ Intents' = 1 .. (current + 1)
    BY <1>1 DEF TypeOK, Intents
<1>4. /\ DOMAIN promotions' = DOMAIN promotions \cup {plan.version}
      /\ promotions'[plan.version] = [from |-> current, to |-> current + 1]
      /\ \A v \in DOMAIN promotions : promotions'[v] = promotions[v]
    BY <1>1 DEF Put
<1>5. \A v \in DOMAIN promotions : promotions[v].to \in 1 .. current
    BY <1>1, Numbered DEF Protocol, OutcomesAccepted
<1>6. OutcomesAccepted'
    BY <1>1, <1>3, <1>4, <1>5 DEF OutcomesAccepted
<1>7. \A v, w \in DOMAIN promotions' : promotions'[v].to = promotions'[w].to => v = w
    BY <1>1, <1>4, <1>5 DEF Protocol, SpineIntact
<1>8. ASSUME NEW i \in 2 .. Len(revisions')
      PROVE  /\ revisions'[i].prev = i - 1
             /\ \E v \in DOMAIN promotions' :
                    /\ promotions'[v] = [from |-> i - 1, to |-> i]
                    /\ revisions'[i].content = versions'[v].content
    <2>1. CASE i = current + 1
        BY <1>1, <1>3, <1>4, <2>1
    <2>2. CASE i # current + 1
        <3>1. i \in 2 .. Len(revisions) /\ i \in 1 .. current
            BY <1>1, <1>3, <2>2
        <3>2. PICK v \in DOMAIN promotions :
                  /\ promotions[v] = [from |-> i - 1, to |-> i]
                  /\ revisions[i].content = versions[v].content
            BY <3>1 DEF Protocol, SpineIntact
        <3>. QED
            BY <1>3, <1>4, <3>1, <3>2 DEF Protocol, SpineIntact
    <2>. QED
        BY <2>1, <2>2
<1>9. SpineIntact'
    BY <1>1, <1>3, <1>7, <1>8 DEF SpineIntact
<1>10. TrunkFollowsDecisions'
    BY <1>1, <1>3 DEF TrunkFollowsDecisions, Protocol, PlanMatches
<1>. QED
    BY <1>1, <1>2, <1>6, <1>9, <1>10

LEMMA ProtocolInit ==
    ASSUME Init
    PROVE  Protocol
<1>1. /\ prepared = {} /\ promoter = "idle" /\ DOMAIN promotions = {}
      /\ Len(revisions) = 1 /\ current = 1 /\ trunk = revisions[current].content
    BY DEF Init
<1>. QED
    BY <1>1 DEF Protocol, PreparedFollows, PlanMatches, OutcomesAccepted, SpineIntact,
                TrunkFollowsDecisions

(* The steps that touch what the protocol is about.                          *)
LEMMA ProtocolStep ==
    ASSUME TypeOK, DraftFresh, Protocol, [Next]_vars
    PROVE  Protocol'
<1>. USE DEF chronicle, changes, judgement, ledger, engine, memory, promoting
<1>1. CASE RecordVersion
    <2>1. PICK d \in inFlight : versions' = Put(versions, Len(pins), d)
        BY <1>1 DEF RecordVersion
    <2>2. /\ UNCHANGED <<chronicle, prepared, engine, promoting>>
          /\ Len(pins) \notin Versions
        BY <1>1, <2>1 DEF RecordVersion, DraftFresh
    <2>3. Versions \subseteq Versions' /\ \A v \in Versions : versions'[v] = versions[v]
        BY <2>1, <2>2 DEF Put, Versions
    <2>4. PreparedFollows' /\ PlanMatches'
        BY <2>2, <2>3 DEF Protocol, PreparedFollows, PlanMatches, Promoted
    <2>5. SpineIntact'
        <3>1. \A v \in DOMAIN promotions : versions'[v] = versions[v]
            BY <2>3 DEF TypeOK
        <3>. QED
            BY <2>2, <3>1 DEF Protocol, SpineIntact
    <2>. QED
        BY <2>2, <2>4, <2>5 DEF Protocol, OutcomesAccepted, TrunkFollowsDecisions, Intents
<1>2. CASE \E v \in Versions : Promote(v)
    BY <1>2
    DEF Promote, Protocol, PreparedFollows, PlanMatches, OutcomesAccepted, SpineIntact,
        TrunkFollowsDecisions, Promoted, Versions, Intents
<1>3. CASE \E p \in prepared : PromotePending(p)
    BY <1>3
    DEF PromotePending, Protocol, PreparedFollows, PlanMatches, OutcomesAccepted,
        SpineIntact, TrunkFollowsDecisions, Promoted, Versions, Intents
<1>4. CASE PreparePromotion
    <2>1. /\ prepared = {} /\ prepared' = {plan} /\ promoter' = "read"
          /\ ~Promoted(plan.version)
          /\ UNCHANGED <<chronicle, changes, engine, plan>>
        BY <1>4 DEF PreparePromotion, Preparable
    <2>2. PreparedFollows' /\ PlanMatches'
        BY <1>4, <2>1
        DEF PreparePromotion, Protocol, PreparedFollows, PlanMatches, Promoted, Versions
    <2>. QED
        BY <2>1, <2>2
        DEF Protocol, OutcomesAccepted, SpineIntact, TrunkFollowsDecisions, Intents
<1>5. CASE ReadTrunk
    BY <1>5
    DEF ReadTrunk, Continue, Release, Protocol, PreparedFollows, PlanMatches,
        OutcomesAccepted, SpineIntact, TrunkFollowsDecisions, Promoted, Versions, Intents
<1>6. CASE AdvanceTrunk \/ AdvanceOutcomeLost
    <2>1. /\ plan \in prepared /\ trunk' = plan.content
          /\ UNCHANGED <<ledger, foreign>>
          /\ \/ promoter' \in {"complete", "reread"} /\ plan' = plan
             \/ promoter' = "idle"
        BY <1>6
        DEF AdvanceTrunk, AdvanceOutcomeLost, GiveUp, Down, Release, Protocol, PlanMatches
    <2>. QED
        BY <2>1
        DEF Protocol, PreparedFollows, PlanMatches, OutcomesAccepted, SpineIntact,
            TrunkFollowsDecisions, Promoted, Versions, Intents
<1>7. CASE AdvanceOvertaken
    BY <1>7
    DEF AdvanceOvertaken, Protocol, PreparedFollows, PlanMatches, OutcomesAccepted,
        SpineIntact, TrunkFollowsDecisions, Promoted, Versions, Intents
<1>8. CASE RereadTrunk
    BY <1>8
    DEF RereadTrunk, Continue, GiveUp, Down, Release, Protocol, PreparedFollows,
        PlanMatches, OutcomesAccepted, SpineIntact, TrunkFollowsDecisions, Promoted,
        Versions, Intents
<1>9. CASE CompletePromotion \/ CompletionOutcomeLost
    <2>1. /\ promoter = "complete" /\ Complete /\ UNCHANGED <<pins, engine>>
          /\ \/ promoter' = "remember" /\ plan' = plan
             \/ promoter' = "idle"
        BY <1>9 DEF CompletePromotion, CompletionOutcomeLost, GiveUp, Down, Release
    <2>2. /\ prepared' = {} /\ current' = plan.to
          /\ OutcomesAccepted' /\ SpineIntact' /\ TrunkFollowsDecisions'
        BY <2>1, CompleteKeepsSpine
    <2>. QED
        BY <2>1, <2>2 DEF Protocol, PreparedFollows, PlanMatches
<1>10. CASE Open
    BY <1>10
    DEF Open, Protocol, PreparedFollows, PlanMatches, OutcomesAccepted, SpineIntact,
        TrunkFollowsDecisions, Promoted, Versions, Intents
<1>11. CASE \E c \in Content : TrunkMoved(c)
    <2>1. foreign' # 0 /\ UNCHANGED <<ledger, promoting>>
        BY <1>11 DEF TrunkMoved, TypeOK
    <2>. QED
        BY <2>1
        DEF Protocol, PreparedFollows, PlanMatches, OutcomesAccepted, SpineIntact,
            TrunkFollowsDecisions, Promoted, Versions, Intents
<1>. QED
    BY StepCases, NeutralSteps, NeutralKeepsProtocol, <1>1, <1>2, <1>3, <1>4, <1>5,
       <1>6, <1>7, <1>8, <1>9, <1>10, <1>11

(* A Draft is recorded under the id pinned last, once.                       *)
LEMMA DraftStep ==
    ASSUME TypeOK, DraftFresh, [Next]_vars
    PROVE  DraftFresh'
<1>. USE DEF chronicle, changes, judgement, ledger, engine, memory, promoting
<1>1. CASE Admission
    <2>1. PICK d \in Draft : Admit(d)
        BY <1>1 DEF Admission
    <2>2. Len(pins') = Len(pins) + 1 /\ UNCHANGED versions
        BY <2>1 DEF Admit, TypeOK, Draft
    <2>. QED
        BY <2>2, Numbered DEF DraftFresh, TypeOK, Versions
<1>2. CASE inFlight' = {}
    BY <1>2 DEF DraftFresh
<1>3. CASE UNCHANGED <<inFlight, pins, versions>>
    BY <1>3 DEF DraftFresh, Versions
<1>4. CASE RecordVersion \/ RefuseVersion \/ RecordingFails
    BY <1>4, <1>2 DEF RecordVersion, RefuseVersion, RecordingFails
<1>5. ASSUME \/ \E v \in Versions, i \in Intents, need \in SUBSET Policies :
                   \E required \in [need -> Principals] : RecordEvaluation(v, i, required)
             \/ \E k \in Keys, v \in Versions, p \in Policies, a \in Principals :
                   \E decision \in {"satisfied", "revision_requested"} :
                       RecordRequirementResponse(k, v, p, a, decision)
             \/ \E k \in Keys, from, to, version \in Versions :
                   RecordReconciliationConflict(k, from, to, version)
      PROVE  UNCHANGED <<inFlight, pins, versions>>
    BY <1>5, FactSteps
<1>6. ASSUME \/ \E v \in Versions : Promote(v) \/ PromoteCompleted(v)
             \/ \E p \in prepared : PromotePending(p)
             \/ PreparePromotion \/ RefusePromotion \/ Remember \/ Open
             \/ \E c \in Content : TrunkMoved(c)
             \/ UNCHANGED vars
      PROVE  UNCHANGED <<inFlight, pins, versions>>
    BY <1>6 DEF Promote, PromoteCompleted, PromotePending, PreparePromotion,
                RefusePromotion, Remember, Open, TrunkMoved, vars
<1>7. ASSUME ReadTrunk \/ RereadTrunk
      PROVE  inFlight' = {} \/ UNCHANGED <<inFlight, pins, versions>>
    BY <1>7 DEF ReadTrunk, RereadTrunk, Continue, GiveUp, Down
<1>8. ASSUME AdvanceTrunk \/ AdvanceOvertaken \/ CompletePromotion
      PROVE  UNCHANGED <<inFlight, pins, versions>>
    BY <1>8 DEF AdvanceTrunk, AdvanceOvertaken, CompletePromotion, Complete
<1>9. ASSUME \/ Serve \/ Crash \/ PromotionCallFails \/ AdvanceOutcomeLost
             \/ CompletionOutcomeLost
      PROVE  inFlight' = {} \/ UNCHANGED <<inFlight, pins, versions>>
    BY <1>9 DEF Serve, Crash, PromotionCallFails, AdvanceOutcomeLost,
                CompletionOutcomeLost, Complete, GiveUp, Down
<1>. QED
    BY StepCases, <1>1, <1>2, <1>3, <1>4, <1>5, <1>6, <1>7, <1>8, <1>9

-----------------------------------------------------------------------------
(* Authority.                                                                *)

(* A decided promotion was allowed when it was decided; from then on its     *)
(* Version is no longer pending, and only pending Versions are judged.       *)
LEMMA GovernedStep ==
    ASSUME TypeOK, DraftFresh, Protocol, DecidedSettled, PromotionGoverned, [Next]_vars
    PROVE  DecidedSettled' /\ PromotionGoverned'
<1>. USE DEF chronicle, changes, judgement, ledger, engine, memory, promoting
<1>1. CASE RecordVersion
    <2>1. PICK d \in inFlight :
              /\ versions' = Put(versions, Len(pins), d)
              /\ queue' = BeginPendingEvaluation(Len(pins), d.from)
              /\ UNCHANGED <<promotions, prepared, judgement>>
        BY <1>1 DEF RecordVersion
    <2>2. /\ Len(pins) \notin Versions
          /\ Versions' = Versions \cup {Len(pins)}
          /\ queue' \subseteq queue \cup {Len(pins)}
        BY <2>1 DEF DraftFresh, Put, Versions, BeginPendingEvaluation
    <2>3. Decided' = Decided
        BY <2>1 DEF Decided
    <2>. QED
        BY <2>1, <2>2, <2>3 DEF DecidedSettled, PromotionGoverned
<1>2. CASE \E v \in Versions, i \in Intents, need \in SUBSET Policies :
               \E required \in [need -> Principals] : RecordEvaluation(v, i, required)
    <2>1. PICK v \in queue :
              /\ \A w \in DOMAIN evaluations : evaluations'[w] = evaluations[w]
              /\ DOMAIN evaluations' = DOMAIN evaluations \cup {v}
              /\ UNCHANGED <<promotions, prepared, versions, queue, satisfied>>
        BY <1>2 DEF RecordEvaluation, Put
    <2>2. Decided' = Decided
        BY <2>1 DEF Decided
    <2>. QED
        BY <2>1, <2>2 DEF DecidedSettled, PromotionGoverned, Versions
<1>3. CASE \E k \in Keys, v \in Versions, p \in Policies, a \in Principals :
               \E decision \in {"satisfied", "revision_requested"} :
                   RecordRequirementResponse(k, v, p, a, decision)
    <2>1. PICK v \in queue, p \in Policies :
              /\ satisfied \ {<<v, p>>} \subseteq satisfied'
              /\ UNCHANGED <<promotions, prepared, versions, queue, evaluations>>
        BY <1>3 DEF RecordRequirementResponse, Answerable
    <2>2. Decided' = Decided
        BY <2>1 DEF Decided
    <2>. QED
        BY <2>1, <2>2 DEF DecidedSettled, PromotionGoverned, Versions
<1>4. CASE PreparePromotion
    <2>1. /\ prepared' = {plan} /\ prepared = {}
          /\ queue' = queue \ {plan.version}
          /\ Allows(plan.version, current)
          /\ plan.version \in Versions /\ plan.from = current
          /\ UNCHANGED <<promotions, versions, judgement>>
        BY <1>4 DEF PreparePromotion, Preparable, Dequeue, Protocol, PlanMatches
    <2>2. Decided' = Decided \cup {<<plan.version, current>>}
        BY <2>1 DEF Decided
    <2>3. plan.version \in DOMAIN evaluations =>
              /\ evaluations[plan.version].governing = current
              /\ \A p \in DOMAIN evaluations[plan.version].required :
                     <<plan.version, p>> \in satisfied
        BY <2>1 DEF Allows, Unresolved
    <2>. QED
        BY <2>1, <2>2, <2>3 DEF DecidedSettled, PromotionGoverned, Versions
<1>5. CASE CompletePromotion \/ CompletionOutcomeLost
    <2>1. promoter = "complete" /\ Complete
        BY <1>5 DEF CompletePromotion, CompletionOutcomeLost
    <2>2. plan \in prepared /\ prepared' = {} /\ prepared = {plan}
        BY <2>1 DEF Complete, Protocol, PlanMatches, PreparedFollows
    <2>3. /\ DOMAIN promotions' = DOMAIN promotions \cup {plan.version}
          /\ promotions'[plan.version].from = plan.from
          /\ \A v \in DOMAIN promotions : promotions'[v] = promotions[v]
        BY <2>1, <2>2 DEF Complete, Put, Protocol, PreparedFollows, Promoted
    <2>4. Decided' = Decided
        BY <2>2, <2>3 DEF Decided
    <2>. QED
        BY <2>1, <2>4 DEF Complete, Dequeue, DecidedSettled, PromotionGoverned, Versions
<1>6. CASE UNCHANGED <<promotions, prepared, versions, queue, judgement>>
    BY <1>6 DEF DecidedSettled, PromotionGoverned, Decided, Versions
<1>7. ASSUME ~RecordVersion, ~PreparePromotion, ~CompletePromotion, ~CompletionOutcomeLost,
             ~\E v \in Versions, i \in Intents, need \in SUBSET Policies :
                  \E required \in [need -> Principals] : RecordEvaluation(v, i, required),
             ~\E k \in Keys, v \in Versions, p \in Policies, a \in Principals :
                  \E decision \in {"satisfied", "revision_requested"} :
                      RecordRequirementResponse(k, v, p, a, decision)
      PROVE  UNCHANGED <<promotions, prepared, versions, queue, judgement>>
    BY StepCases, <1>7
    DEF Admission, Admit, RefuseVersion, RecordReconciliationConflict, Promote,
        PromoteCompleted, PromotePending, RefusePromotion, ReadTrunk, AdvanceTrunk,
        AdvanceOvertaken, RereadTrunk, Remember, Open, Serve, Crash, PromotionCallFails,
        AdvanceOutcomeLost, RecordingFails, TrunkMoved, vars
<1>. QED
    BY <1>1, <1>2, <1>3, <1>4, <1>5, <1>6, <1>7

-----------------------------------------------------------------------------
(* The host.                                                                 *)

(* Trunk names neither the newest Intent nor the one decided: it was not GRD. *)
LEMMA ConflictFound ==
    ASSUME TypeOK, Protocol, plan \in prepared,
           trunk # FromContent, trunk # plan.content
    PROVE  foreign > 0
<1>1. FromContent = revisions[current].content
    BY DEF FromContent, Protocol, PreparedFollows
<1>2. \A p \in prepared : p = plan
    BY DEF Protocol, PreparedFollows
<1>. QED
    BY <1>1, <1>2 DEF Protocol, TrunkFollowsDecisions, TypeOK

LEMMA HostStepKnows ==
    ASSUME TypeOK, Protocol, HostKnows, [Next]_vars
    PROVE  HostKnows'
<1>. USE DEF chronicle, changes, judgement, ledger, engine, memory, promoting
<1>0. foreign \in Nat
    BY DEF TypeOK
<1>1. CASE Admission
    BY <1>1 DEF Admission, Admit, HostKnows
<1>2. CASE RecordVersion \/ RefuseVersion \/ RecordingFails
    BY <1>2 DEF RecordVersion, RefuseVersion, RecordingFails, HostKnows
<1>3. CASE \/ \E v \in Versions, i \in Intents, need \in SUBSET Policies :
                 \E required \in [need -> Principals] : RecordEvaluation(v, i, required)
           \/ \E k \in Keys, v \in Versions, p \in Policies, a \in Principals :
                 \E decision \in {"satisfied", "revision_requested"} :
                     RecordRequirementResponse(k, v, p, a, decision)
           \/ \E k \in Keys, from, to, version \in Versions :
                 RecordReconciliationConflict(k, from, to, version)
    <2>1. UNCHANGED <<current, prepared, engine, memory, promoting>>
        BY <1>3, FactSteps
    <2>. QED
        BY <2>1 DEF HostKnows
<1>4. CASE \/ \E v \in Versions : Promote(v) \/ PromoteCompleted(v)
           \/ \E p \in prepared : PromotePending(p)
    BY <1>4 DEF Promote, PromoteCompleted, PromotePending, Client, HostKnows
<1>5. CASE PreparePromotion \/ RefusePromotion
    BY <1>5 DEF PreparePromotion, RefusePromotion, Release, HostKnows
<1>6. CASE AdvanceTrunk \/ AdvanceOvertaken
    BY <1>6 DEF AdvanceTrunk, AdvanceOvertaken, HostKnows
<1>7. CASE ReadTrunk \/ RereadTrunk
    <2>1. plan \in prepared
        BY <1>7 DEF ReadTrunk, RereadTrunk, Protocol, PlanMatches
    <2>2. trunk # FromContent /\ trunk # plan.content => foreign > 0
        BY <2>1, ConflictFound
    <2>3. CASE ReadTrunk
        BY <2>2, <2>3 DEF ReadTrunk, Continue, Release, HostKnows
    <2>4. CASE RereadTrunk
        BY <1>0, <2>2, <2>4 DEF RereadTrunk, Continue, GiveUp, Down, Release, HostKnows
    <2>. QED
        BY <1>7, <2>3, <2>4
<1>8. CASE CompletePromotion \/ CompletionOutcomeLost
    <2>1. promoter = "complete" /\ Complete /\ UNCHANGED engine
        BY <1>8 DEF CompletePromotion, CompletionOutcomeLost
    <2>2. prepared' = {}
        BY <2>1 DEF Complete, Protocol, PlanMatches, PreparedFollows
    <2>3. CASE CompletePromotion
        BY <2>2, <2>3 DEF CompletePromotion, HostKnows
    <2>4. CASE CompletionOutcomeLost
        BY <2>1, <2>4 DEF CompletionOutcomeLost, GiveUp, Down, Release, HostKnows
    <2>. QED
        BY <1>8, <2>3, <2>4
<1>9. CASE Remember
    <2>1. plan.to = current
        BY <1>9 DEF Remember, Protocol, PlanMatches
    <2>. QED
        BY <1>9, <2>1 DEF Remember, Release, HostKnows
<1>10. CASE Open \/ Serve
    BY <1>10 DEF Open, Serve, Down, Release, HostKnows
<1>11. CASE Crash \/ PromotionCallFails
    BY <1>11 DEF Crash, PromotionCallFails, GiveUp, Down, Release, HostKnows
<1>12. CASE AdvanceOutcomeLost
    BY <1>12 DEF AdvanceOutcomeLost, GiveUp, Down, Release, HostKnows
<1>13. CASE \E c \in Content : TrunkMoved(c)
    <2>1. foreign' > 0 /\ UNCHANGED <<current, prepared, memory, promoting>>
        BY <1>0, <1>13 DEF TrunkMoved
    <2>. QED
        BY <2>1 DEF HostKnows
<1>14. CASE UNCHANGED vars
    BY <1>14 DEF vars, HostKnows
<1>. QED
    BY StepCases, <1>1, <1>2, <1>3, <1>4, <1>5, <1>6, <1>7, <1>8, <1>9, <1>10, <1>11,
       <1>12, <1>13, <1>14

-----------------------------------------------------------------------------
(* The refinement of AcceptedIntent.                                         *)

(* What the refinement mapping makes of the ledger.                          *)
MappedSpine == [i \in Intents |-> revisions[i].content]
MappedDecided == {p.content : p \in prepared}

LEMMA MappedNewest ==
    ASSUME TypeOK, Protocol
    PROVE  /\ MappedSpine \in Seq(Content)
           /\ Len(MappedSpine) = Len(revisions)
           /\ MappedSpine[Len(MappedSpine)] = revisions[current].content
<1>1. /\ MappedSpine = [i \in 1 .. Len(revisions) |-> revisions[i].content]
      /\ Len(revisions) \in Nat
      /\ current = Len(revisions) /\ current \in Intents
    BY Numbered DEF MappedSpine, TypeOK, Protocol, SpineIntact
<1>2. ASSUME NEW i \in 1 .. Len(revisions)
      PROVE  revisions[i].content \in Content
    <2>. DEFINE R == [prev : Nat, content : Content]
    <2>1. revisions \in Seq(R)
        BY DEF TypeOK
    <2>2. revisions[i] \in R
        <3>. HIDE DEF R
        <3>. QED  BY <2>1
    <2>. QED
        BY <2>2
<1>3. MappedSpine \in Seq(Content) /\ Len(MappedSpine) = Len(revisions)
    BY <1>1, <1>2
<1>. QED
    BY <1>1, <1>3 DEF MappedSpine

LEMMA RefinementInit ==
    ASSUME Init
    PROVE  Accepted!Init
<1>1. /\ revisions = <<[prev |-> 0, content |-> InitialContent]>>
      /\ prepared = {} /\ trunk = InitialContent /\ foreign = 0
    BY DEF Init
<1>2. MappedSpine = <<InitialContent>>
    BY <1>1 DEF MappedSpine, Intents
<1>. QED
    BY <1>1, <1>2 DEF Accepted!Init, MappedSpine

(* A completion accepts the decided content; it is what trunk shows unless   *)
(* someone else moved trunk.                                                 *)
LEMMA CompleteAccepts ==
    ASSUME TypeOK, Protocol, promoter = "complete", Complete, UNCHANGED engine
    PROVE  Accepted!Next
<1>1. /\ plan \in prepared /\ prepared = {plan} /\ prepared' = {}
      /\ plan.content \in Content
      /\ trunk = plan.content \/ foreign > 0
    BY DEF Complete, Protocol, PlanMatches, PreparedFollows, TypeOK, Promotion
<1>2. MappedSpine' = Append(MappedSpine, plan.content)
    <2>1. /\ Len(revisions') = Len(revisions) + 1
          /\ Intents' = 1 .. (Len(revisions) + 1)
          /\ \A i \in 1 .. Len(revisions) : revisions'[i] = revisions[i]
          /\ revisions'[Len(revisions) + 1].content = plan.content
          /\ Intents = 1 .. Len(revisions)
        BY Numbered DEF Complete, TypeOK, Intents
    <2>2. MappedSpine \in Seq(Content) /\ Len(MappedSpine) = Len(revisions)
        BY MappedNewest
    <2>3. Append(MappedSpine, plan.content)
              = [i \in 1 .. (Len(revisions) + 1) |->
                    IF i = Len(revisions) + 1 THEN plan.content ELSE MappedSpine[i]]
        BY <1>1, <2>2
    <2>. QED
        BY <2>1, <2>3, Numbered DEF MappedSpine
<1>3. PICK c \in Content : c = plan.content
    BY <1>1
<1>4. Accepted!Accept(c)
    BY <1>1, <1>2, <1>3 DEF Accepted!Accept, MappedSpine, engine
<1>. QED
    BY <1>4 DEF Accepted!Next

(* Every step of the protocol is a step of its promise or changes nothing    *)
(* the promise is about.                                                     *)
LEMMA RefinementStep ==
    ASSUME TypeOK, Protocol, [Next]_vars
    PROVE  [Accepted!Next]_Accepted!vars
<1>. USE DEF chronicle, changes, judgement, ledger, engine, memory, promoting
<1>1. CASE PreparePromotion
    <2>1. /\ prepared = {} /\ prepared' = {plan} /\ plan.content \in Content
          /\ UNCHANGED <<revisions, trunk, foreign>>
        BY <1>1 DEF PreparePromotion, Preparable, TypeOK, Promotion
    <2>2. PICK c \in Content : c = plan.content
        BY <2>1
    <2>3. Accepted!Decide(c)
        BY <2>1, <2>2 DEF Accepted!Decide, Intents
    <2>. QED
        BY <2>3 DEF Accepted!Next
<1>2. CASE AdvanceTrunk \/ AdvanceOutcomeLost
    <2>1. /\ plan \in prepared /\ trunk = FromContent /\ trunk' = plan.content
          /\ plan.content \in Content
          /\ UNCHANGED <<revisions, prepared, foreign>>
        BY <1>2
        DEF AdvanceTrunk, AdvanceOutcomeLost, TrunkUnmoved, Protocol, PlanMatches, TypeOK,
            Promotion
    <2>2. FromContent = revisions[current].content
        BY <2>1 DEF FromContent, Protocol, PreparedFollows
    <2>3. PICK c \in Content : c = plan.content
        BY <2>1
    <2>4. Accepted!Project(c)
        BY <2>1, <2>2, <2>3, MappedNewest
        DEF Accepted!Project, Accepted!Newest, MappedSpine, Intents
    <2>. QED
        BY <2>4 DEF Accepted!Next
<1>3. CASE CompletePromotion \/ CompletionOutcomeLost
    BY <1>3, CompleteAccepts DEF CompletePromotion, CompletionOutcomeLost
<1>4. CASE \E c \in Content : TrunkMoved(c)
    BY <1>4 DEF TrunkMoved, Accepted!Next, Accepted!Interfere, Intents
<1>5. CASE UNCHANGED <<revisions, prepared, trunk, foreign>>
    BY <1>5 DEF Accepted!vars, Intents
<1>6. ASSUME \/ \E v \in Versions, i \in Intents, need \in SUBSET Policies :
                   \E required \in [need -> Principals] : RecordEvaluation(v, i, required)
             \/ \E k \in Keys, v \in Versions, p \in Policies, a \in Principals :
                   \E decision \in {"satisfied", "revision_requested"} :
                       RecordRequirementResponse(k, v, p, a, decision)
             \/ \E k \in Keys, from, to, version \in Versions :
                   RecordReconciliationConflict(k, from, to, version)
      PROVE  UNCHANGED <<revisions, prepared, trunk, foreign>>
    BY <1>6, FactSteps
<1>7. ASSUME \/ Admission \/ RecordVersion \/ RefuseVersion \/ RecordingFails
             \/ RefusePromotion \/ Remember \/ Open \/ UNCHANGED vars
      PROVE  UNCHANGED <<revisions, prepared, trunk, foreign>>
    BY <1>7 DEF Admission, Admit, RecordVersion, RefuseVersion, RecordingFails,
                RefusePromotion, Remember, Open, vars
<1>8. ASSUME \/ \E v \in Versions : Promote(v) \/ PromoteCompleted(v)
             \/ \E p \in prepared : PromotePending(p)
      PROVE  UNCHANGED <<revisions, prepared, trunk, foreign>>
    BY <1>8 DEF Promote, PromoteCompleted, PromotePending
<1>9. ASSUME \/ ReadTrunk \/ AdvanceOvertaken \/ RereadTrunk
             \/ Serve \/ Crash \/ PromotionCallFails
      PROVE  UNCHANGED <<revisions, prepared, trunk, foreign>>
    BY <1>9 DEF ReadTrunk, AdvanceOvertaken, RereadTrunk, Serve, Crash, PromotionCallFails
<1>. QED
    BY StepCases, <1>1, <1>2, <1>3, <1>4, <1>5, <1>6, <1>7, <1>8, <1>9

-----------------------------------------------------------------------------
(* The theorems.                                                             *)

LEMMA IInvInit ==
    ASSUME Init
    PROVE  IInv
<1>1. inFlight = {} /\ Decided = {}
    BY DEF Init, Decided
<1>. QED
    BY <1>1, TypeInit, ProtocolInit
    DEF IInv, Protocol, DraftFresh, DecidedSettled, PromotionGoverned, HostKnows, Init

LEMMA IInvStep ==
    ASSUME IInv, [Next]_vars
    PROVE  IInv'
    BY TypeStep, ProtocolStep, DraftStep, GovernedStep, HostStepKnows DEF IInv, Protocol

(* The invariant the theorems below are read off.                            *)
THEOREM Inductive == Spec => []IInv
    BY IInvInit, IInvStep, PTL DEF Spec

(* Every reachable state is well formed.                                     *)
THEOREM TypeCorrect == Spec => []TypeOK
<1>1. IInv => TypeOK
    BY DEF IInv
<1>. QED
    BY <1>1, Inductive, PTL

(* However promotions fail, are retried, or are finished by a later process, *)
(* accepted Intent is one spine, each Intent the outcome of one promotion.   *)
THEOREM OneSpine == Spec => []SpineIntact
<1>1. IInv => SpineIntact
    BY DEF IInv
<1>. QED
    BY <1>1, Inductive, PTL

(* What trunk shows is always decided durably before.                        *)
THEOREM TrunkFollows == Spec => []TrunkFollowsDecisions
<1>1. IInv => TrunkFollowsDecisions
    BY DEF IInv
<1>. QED
    BY <1>1, Inductive, PTL

(* No promotion is decided against its Evaluation and the Responses to it,   *)
(* and neither changes after the decision.                                   *)
THEOREM Governed == Spec => []PromotionGoverned
<1>1. IInv => PromotionGoverned
    BY DEF IInv
<1>. QED
    BY <1>1, Inductive, PTL

(* A conflict is reported only when someone else moved trunk.                *)
THEOREM NoFalseAlarm == Spec => []ConflictIsForeign
<1>1. IInv => ConflictIsForeign
    BY DEF IInv, HostKnows, ConflictIsForeign
<1>. QED
    BY <1>1, Inductive, PTL

(* A host that gets ready has nothing left to decide, and trunk shows the    *)
(* Intent it answers with.                                                   *)
THEOREM ServesSettled == Spec => ServesSettledState
<1>1. ASSUME IInv, [Next]_vars, mode = "opening", mode' = "serving"
      PROVE  /\ memCurrent = current
             /\ trunk = revisions[current].content
             /\ prepared = {}
    <2>. USE DEF memory
    <2>1. Serve
        BY <1>1, StepCases
        DEF IInv, Admission, Admit, RecordVersion, RefuseVersion, RecordEvaluation,
            RecordRequirementResponse, RecordReconciliationConflict, Promote,
            PromoteCompleted, PromotePending, PreparePromotion, RefusePromotion,
            ReadTrunk, Continue, AdvanceTrunk, AdvanceOvertaken, RereadTrunk, GiveUp,
            Down, CompletePromotion, Remember, Open, Crash, PromotionCallFails,
            AdvanceOutcomeLost, CompletionOutcomeLost, RecordingFails, TrunkMoved, vars
    <2>. QED
        BY <1>1, <2>1 DEF Serve, Down, Ready, IInv, HostKnows
<1>. QED
    BY <1>1, Inductive, PTL DEF Spec, ServesSettledState

(* The protocol of promotions, with all its faults, keeps the promise about  *)
(* accepted Intent.                                                          *)
THEOREM Implements == Spec => AcceptedSpec
<1>1. IInv => TypeOK /\ Protocol
    BY DEF IInv, Protocol
<1>2. Init => Accepted!Init
    BY RefinementInit
<1>3. IInv /\ [Next]_vars => [Accepted!Next]_Accepted!vars
    BY <1>1, RefinementStep
<1>. QED
    BY <1>2, <1>3, Inductive, PTL DEF Spec, AcceptedSpec, Accepted!Spec
=============================================================================
