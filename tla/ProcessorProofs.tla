--------------------------- MODULE ProcessorProofs ---------------------------
(* What the policy processors add to the repository, for any number of them: *)
(* they are clients of Repository like others, so what holds of it holds     *)
(* here, and they judge before they promote.                                 *)
EXTENDS Processor, LineageProofs, SequenceTheorems

-----------------------------------------------------------------------------
(* The inductive invariant.                                                  *)

Assignments == UNION {[need -> Principals] : need \in SUBSET Policies}

Places == {"idle", "read", "context", "evaluate", "record", "requirements", "promote",
           "promoting"}

WorkRecord == [at : Places, version : Nat, governing : Nat, required : Assignments]

WorkTypeOK == worker \in [Worker -> WorkRecord]

(* What a worker has learned of its Version stays true while it goes on,     *)
(* whatever others do between its calls.                                     *)
Knows(x) ==
    /\ x.at # "idle" => x.version \in Versions
    /\ x.at \in {"evaluate", "record"} => x.governing = versions[x.version].base
    /\ x.at = "record" =>
           DOMAIN x.required \subseteq Guarding[revisions[x.governing].content]
    /\ x.at \in {"requirements", "promote"} =>
           /\ x.version \in DOMAIN evaluations
           /\ x.governing = evaluations[x.version].governing

WorkersKnow == \A w \in Worker : Knows(worker[w])

(* An Evaluation is made under the Intent its Version is based on.           *)
EvaluatedUnderBase ==
    \A v \in DOMAIN evaluations : evaluations[v].governing = versions[v].base

(* A processor asks for no promotion before there is an Evaluation.          *)
PlanJudged == promoter = "prepare" => plan.version \in DOMAIN evaluations

WInv ==
    /\ IInv
    /\ LInv
    /\ WorkTypeOK
    /\ WorkersKnow
    /\ EvaluatedUnderBase
    /\ PlanJudged
    /\ PromotedAsJudged
    /\ JudgedByAcceptedPolicies

-----------------------------------------------------------------------------
(* What is recorded stays recorded, so what a worker knows is still so after *)
(* any step of the repository.                                               *)
LEMMA KnowledgeKept ==
    ASSUME TypeOK, VersionsRelated, Kept, NEW x, Knows(x)
    PROVE  Knows(x)'
<1>1. x.at = "record" => x.governing \in Intents
    BY DEF Knows, VersionsRelated
<1>. QED
    BY <1>1 DEF Knows, Kept

-----------------------------------------------------------------------------
(* Every step is one of the repository.                                      *)

LEMMA RecordIsEvaluation ==
    ASSUME TypeOK, VersionsRelated, WorkTypeOK, WorkersKnow, NEW w \in Worker, Record(w)
    PROVE  \E v \in Versions, i \in Intents, need \in SUBSET Policies :
               \E required \in [need -> Principals] : RecordEvaluation(v, i, required)
<1>. DEFINE x == worker[w]
<1>1. RecordEvaluation(x.version, x.governing, x.required) /\ x.at = "record"
    BY DEF Record
<1>2. x.version \in Versions /\ x.governing \in Intents
    BY <1>1 DEF WorkersKnow, Knows, VersionsRelated
<1>3. PICK need \in SUBSET Policies : x.required \in [need -> Principals]
    <2>1. x.required \in Assignments
        BY DEF WorkTypeOK, WorkRecord
    <2>. QED
        BY <2>1 DEF Assignments
<1>. QED
    BY <1>1, <1>2, <1>3

LEMMA WorkStepSteps ==
    ASSUME TypeOK, VersionsRelated, WorkTypeOK, WorkersKnow, [WorkNext]_workVars
    PROVE  [Next]_vars
<1>1. ASSUME NEW w \in Worker, CallStep(w)
      PROVE  [Next]_vars
    <2>1. CASE Record(w)
        BY <2>1, RecordIsEvaluation DEF Next, ClientStep
    <2>2. CASE StartPromotion(w)
        <3>1. worker[w].version \in Versions
            BY <2>2 DEF StartPromotion, WorkersKnow, Knows
        <3>. QED
            BY <2>2, <3>1 DEF StartPromotion, Next, ClientStep
    <2>3. CASE FindCompleted(w)
        <3>1. worker[w].version \in Versions
            BY <2>3 DEF FindCompleted, WorkersKnow, Knows
        <3>. QED
            BY <2>3, <3>1 DEF FindCompleted, Next, ClientStep
    <2>4. CASE \/ ReadEvaluation(w) \/ ReadContext(w) \/ Evaluate(w) \/ EvaluationFails(w)
               \/ RecordedMeanwhile(w) \/ RecordRefused(w) \/ ReadRequirements(w)
               \/ PromotionRefused(w)
        BY <2>4
        DEF ReadEvaluation, ReadContext, Evaluate, EvaluationFails, RecordedMeanwhile,
            RecordRefused, ReadRequirements, PromotionRefused
    <2>. QED
        BY <1>1, <2>1, <2>2, <2>3, <2>4 DEF CallStep
<1>2. CASE ContributorStep
    BY <1>2 DEF ContributorStep, Next, ClientStep
<1>3. ASSUME NEW w \in Worker, NEW v \in Versions, TakeUp(w, v)
      PROVE  [Next]_vars
    BY <1>3 DEF TakeUp
<1>4. CASE RecordingStep \/ PromotionStep \/ PromotionCallFails \/ HostStep \/ HostGoes
    BY <1>4 DEF HostGoes, Next, FaultStep
<1>5. CASE UNCHANGED workVars
    BY <1>5 DEF workVars
<1>. QED
    BY <1>1, <1>2, <1>3, <1>4, <1>5 DEF WorkNext

-----------------------------------------------------------------------------
(* The workers.                                                              *)

(* An idle worker claims to know nothing.                                    *)
LEMMA IdleKnows == Idle \in WorkRecord /\ Knows(Idle)'
<1>1. <<>> \in Assignments
    <2>1. <<>> \in [{} -> Principals]
        OBVIOUS
    <2>. QED
        BY <2>1 DEF Assignments
<1>. QED
    BY <1>1 DEF Idle, WorkRecord, Places, Knows

(* One worker gets on, the others stay.                                      *)
LEMMA OneWorker ==
    ASSUME TypeOK, VersionsRelated, WorkTypeOK, WorkersKnow, Kept, NEW w \in Worker,
           NEW y \in WorkRecord, Knows(y)', worker' = [worker EXCEPT ![w] = y]
    PROVE  WorkTypeOK' /\ WorkersKnow'
<1>1. WorkTypeOK'
    BY DEF WorkTypeOK
<1>2. ASSUME NEW o \in Worker, NEW z, z = worker'[o]
      PROVE  Knows(z)'
    <2>1. CASE o = w
        BY <1>2, <2>1 DEF WorkTypeOK
    <2>2. CASE o # w
        <3>1. z = worker[o]
            BY <1>2, <2>2 DEF WorkTypeOK
        <3>2. Knows(z)
            BY <3>1 DEF WorkersKnow
        <3>. QED
            BY <3>2, KnowledgeKept
    <2>. QED
        BY <2>1, <2>2
<1>3. ASSUME NEW o \in Worker
      PROVE  Knows(worker[o])'
    <2>1. PICK z : z = worker'[o]
        OBVIOUS
    <2>2. Knows(z)'
        BY <1>2, <2>1
    <2>. QED
        BY <2>1, <2>2 DEF Knows
<1>. QED
    BY <1>1, <1>3 DEF WorkersKnow

(* All workers stay, or some are done.                                       *)
LEMMA WorkersStay ==
    ASSUME TypeOK, VersionsRelated, WorkTypeOK, WorkersKnow, Kept,
           worker' \in [Worker -> WorkRecord],
           \A w \in Worker : worker'[w] \in {worker[w], Idle}
    PROVE  WorkTypeOK' /\ WorkersKnow'
<1>1. ASSUME NEW w \in Worker
      PROVE  Knows(worker[w])'
    <2>1. PICK z : z = worker'[w]
        OBVIOUS
    <2>2. Knows(z)'
        <3>1. CASE z = worker[w]
            <4>1. Knows(z)
                BY <3>1 DEF WorkersKnow
            <4>. QED
                BY <4>1, KnowledgeKept
        <3>2. CASE z = Idle
            BY <3>2, IdleKnows
        <3>. QED
            BY <2>1, <3>1, <3>2
    <2>. QED
        BY <2>1, <2>2 DEF Knows
<1>. QED
    BY <1>1 DEF WorkTypeOK, WorkersKnow

(* A worker that goes on to ask for the promotion, or waits for its end,     *)
(* knows what it knew.                                                       *)
LEMMA StaysOn ==
    ASSUME TypeOK, VersionsRelated, WorkTypeOK, WorkersKnow, Kept, NEW w \in Worker,
           worker[w].at # "idle",
           NEW at \in {"read", "promote", "promoting"}, Stay(w, at),
           at = "promote" => worker[w].at = "requirements"
    PROVE  WorkTypeOK' /\ WorkersKnow'
<1>1. PICK x : x = worker[w] /\ x \in WorkRecord /\ Knows(x)
    BY DEF WorkTypeOK, WorkersKnow
<1>2. PICK y : y = [x EXCEPT !.at = at]
    OBVIOUS
<1>3. /\ y \in WorkRecord
      /\ y.at = at /\ y.version = x.version /\ y.governing = x.governing
    BY <1>1, <1>2 DEF WorkRecord, Places
<1>4. Knows(x)'
    BY <1>1, KnowledgeKept
<1>5. Knows(y)'
    BY <1>1, <1>3, <1>4 DEF Knows
<1>6. worker' = [worker EXCEPT ![w] = y]
    BY <1>1, <1>2 DEF Stay
<1>. QED
    BY <1>3, <1>5, <1>6, OneWorker

(* A worker that is done forgets what it knew.                               *)
LEMMA Quits ==
    ASSUME TypeOK, VersionsRelated, WorkTypeOK, WorkersKnow, Kept, NEW w \in Worker, Quit(w)
    PROVE  WorkTypeOK' /\ WorkersKnow'
    BY IdleKnows, OneWorker DEF Quit

(* The calls in which a worker learns something.                             *)
LEMMA Learns ==
    ASSUME TypeOK, VersionsRelated, EvaluatedUnderBase, WorkTypeOK, WorkersKnow, Kept,
           NEW w \in Worker,
           \/ \E v \in Versions : TakeUp(w, v)
           \/ ReadEvaluation(w) \/ ReadContext(w) \/ Evaluate(w) \/ Record(w)
    PROVE  WorkTypeOK' /\ WorkersKnow'
<1>1. PICK x : x = worker[w] /\ x \in WorkRecord /\ Knows(x)
    BY DEF WorkTypeOK, WorkersKnow
<1>2. /\ \A v \in Versions : v \in Nat /\ versions[v].base \in Nat
      /\ \A v \in DOMAIN evaluations : evaluations[v].governing \in Nat
    <2>1. Intents \subseteq Nat /\ Versions \subseteq Nat
        BY Numbered
    <2>2. \A v \in Versions : versions[v].base \in Nat
        BY <2>1 DEF VersionsRelated
    <2>3. \A v \in DOMAIN evaluations : evaluations[v].governing \in Nat
        BY <2>1 DEF TypeOK
    <2>. QED
        BY <2>1, <2>2, <2>3
<1>3. ASSUME NEW v \in Versions, TakeUp(w, v)
      PROVE  WorkTypeOK' /\ WorkersKnow'
    <2>1. PICK y : y = [Idle EXCEPT !.at = "read", !.version = v]
        OBVIOUS
    <2>2. y \in WorkRecord /\ y.at = "read" /\ y.version = v
        BY <1>2, <2>1, IdleKnows DEF WorkRecord, Places
    <2>3. Knows(y)'
        BY <2>2 DEF Knows, Kept
    <2>. QED
        BY <1>3, <2>1, <2>2, <2>3, OneWorker DEF TakeUp
<1>4. CASE ReadEvaluation(w)
    <2>1. x.at = "read" /\ x.version \in Versions /\ UNCHANGED vars
        BY <1>1, <1>4 DEF ReadEvaluation, Knows
    <2>2. CASE x.version \in DOMAIN evaluations
        <3>1. PICK y : y = [x EXCEPT !.at = "requirements",
                                     !.governing = evaluations[x.version].governing]
            OBVIOUS
        <3>2. /\ y \in WorkRecord /\ y.at = "requirements" /\ y.version = x.version
              /\ y.governing = evaluations[x.version].governing
            BY <1>1, <1>2, <2>2, <3>1 DEF WorkRecord, Places
        <3>3. Knows(y)'
            BY <2>1, <2>2, <3>2 DEF Knows, Kept
        <3>4. worker' = [worker EXCEPT ![w] = y]
            BY <1>1, <1>4, <2>2, <3>1 DEF ReadEvaluation
        <3>. QED
            BY <3>2, <3>3, <3>4, OneWorker
    <2>3. CASE x.version \notin DOMAIN evaluations
        <3>1. PICK y : y = [x EXCEPT !.at = "context"]
            OBVIOUS
        <3>2. y \in WorkRecord /\ y.at = "context" /\ y.version = x.version
            BY <1>1, <3>1 DEF WorkRecord, Places
        <3>3. Knows(y)'
            BY <2>1, <3>2 DEF Knows, Kept
        <3>4. worker' = [worker EXCEPT ![w] = y]
            BY <1>1, <1>4, <2>3, <3>1 DEF ReadEvaluation
        <3>. QED
            BY <3>2, <3>3, <3>4, OneWorker
    <2>. QED
        BY <2>2, <2>3
<1>5. CASE ReadContext(w)
    <2>1. CASE Latest(x.version)
        <3>1. x.version \in Versions
            BY <2>1 DEF Latest
        <3>2. PICK y : y = [x EXCEPT !.at = "evaluate", !.governing = versions[x.version].base]
            OBVIOUS
        <3>3. /\ y \in WorkRecord /\ y.at = "evaluate" /\ y.version = x.version
              /\ y.governing = versions[x.version].base
            BY <1>1, <1>2, <3>1, <3>2 DEF WorkRecord, Places
        <3>4. Knows(y)'
            BY <3>1, <3>3 DEF Knows, Kept
        <3>5. worker' = [worker EXCEPT ![w] = y]
            BY <1>1, <1>5, <2>1, <3>2 DEF ReadContext
        <3>. QED
            BY <3>3, <3>4, <3>5, OneWorker
    <2>2. CASE ~Latest(x.version)
        BY <1>1, <1>5, <2>2, Quits DEF ReadContext
    <2>. QED
        BY <2>1, <2>2
<1>6. CASE Evaluate(w)
    <2>0. PICK need \in SUBSET LoadedPolicies(w) :
              \E required \in [need -> Principals] :
                  worker' = [worker EXCEPT ![w] =
                                [@ EXCEPT !.at = "record", !.required = required]]
        BY <1>6 DEF Evaluate
    <2>1. PICK required \in [need -> Principals] :
              worker' = [worker EXCEPT ![w] = [@ EXCEPT !.at = "record", !.required = required]]
        BY <2>0
    <2>2. /\ x.at = "evaluate" /\ x.version \in Versions
          /\ x.governing = versions[x.version].base /\ x.governing \in Intents
          /\ UNCHANGED vars
        BY <1>1, <1>6 DEF Evaluate, Knows, VersionsRelated
    <2>3. need \subseteq Guarding[revisions[x.governing].content] /\ need \subseteq Policies
        <3>1. revisions[x.governing].content \in Content
            <4>1. /\ revisions \in Seq([prev : Nat, content : Content])
                  /\ x.governing \in 1 .. Len(revisions)
                BY <2>2, Numbered DEF TypeOK
            <4>2. revisions[x.governing] \in [prev : Nat, content : Content]
                BY <4>1, ElementOfSeq
            <4>. QED
                BY <4>2
        <3>. QED
            BY <1>1, <3>1, GuardingAssumption DEF LoadedPolicies
    <2>4. PICK y : y = [x EXCEPT !.at = "record", !.required = required]
        OBVIOUS
    <2>5. /\ y.at = "record" /\ y.version = x.version /\ y.governing = x.governing
          /\ y.required = required
          /\ y \in WorkRecord
        <3>1. required \in Assignments
            BY <2>3 DEF Assignments
        <3>. QED
            BY <1>1, <2>4, <3>1 DEF WorkRecord, Places
    <2>6. Knows(y)'
        BY <2>2, <2>3, <2>5 DEF Knows, Kept
    <2>7. worker' = [worker EXCEPT ![w] = y]
        BY <1>1, <2>1, <2>4
    <2>. QED
        BY <2>5, <2>6, <2>7, OneWorker
<1>7. CASE Record(w)
    <2>1. /\ x.at = "record" /\ x.version \in Versions
          /\ x.version \in DOMAIN evaluations'
          /\ evaluations'[x.version].governing = x.governing
        BY <1>1, <1>7 DEF Record, RecordEvaluation, Put, Knows
    <2>2. PICK y : y = [x EXCEPT !.at = "requirements"]
        OBVIOUS
    <2>3. /\ y \in WorkRecord /\ y.at = "requirements" /\ y.version = x.version
          /\ y.governing = x.governing
        BY <1>1, <2>2 DEF WorkRecord, Places
    <2>4. Knows(y)'
        BY <2>1, <2>3 DEF Knows, Kept
    <2>5. worker' = [worker EXCEPT ![w] = y]
        BY <1>1, <1>7, <2>2 DEF Record, Stay
    <2>. QED
        BY <2>3, <2>4, <2>5, OneWorker
<1>. QED
    BY <1>3, <1>4, <1>5, <1>6, <1>7

LEMMA WorkersStep ==
    ASSUME TypeOK, VersionsRelated, EvaluatedUnderBase, WorkTypeOK, WorkersKnow, Kept,
           [WorkNext]_workVars
    PROVE  WorkTypeOK' /\ WorkersKnow'
<1>1. ASSUME NEW w \in Worker, CallStep(w)
      PROVE  WorkTypeOK' /\ WorkersKnow'
    <2>1. CASE ReadEvaluation(w) \/ ReadContext(w) \/ Evaluate(w) \/ Record(w)
        BY <2>1, Learns
    <2>2. CASE EvaluationFails(w) \/ RecordRefused(w) \/ FindCompleted(w) \/ PromotionRefused(w)
        BY <2>2, Quits
        DEF EvaluationFails, Abandon, RecordRefused, FindCompleted, PromotionRefused
    <2>3. CASE RecordedMeanwhile(w)
        BY <2>3, StaysOn DEF RecordedMeanwhile
    <2>4. CASE ReadRequirements(w)
        BY <2>4, Quits, StaysOn DEF ReadRequirements
    <2>5. CASE StartPromotion(w)
        BY <2>5, StaysOn DEF StartPromotion
    <2>. QED
        BY <1>1, <2>1, <2>2, <2>3, <2>4, <2>5 DEF CallStep
<1>2. ASSUME NEW w \in Worker, NEW v \in Versions, TakeUp(w, v)
      PROVE  WorkTypeOK' /\ WorkersKnow'
    BY <1>2, Learns
<1>3. CASE UNCHANGED worker
    BY <1>3, WorkersStay DEF WorkTypeOK
<1>4. CASE Returned
    BY <1>3, <1>4, WorkersStay, IdleKnows DEF Returned, WorkTypeOK
<1>5. CASE HostGoes
    BY <1>5, WorkersStay, IdleKnows DEF HostGoes
<1>. QED
    BY <1>1, <1>2, <1>3, <1>4, <1>5 DEF WorkNext, ContributorStep, workVars

-----------------------------------------------------------------------------
(* What was judged, and what was decided.                                    *)

(* Only a worker's Record makes an Evaluation, only a worker asks for a new  *)
(* promotion.                                                                *)
LEMMA JudgingCases ==
    ASSUME [WorkNext]_workVars
    PROVE  /\ UNCHANGED evaluations \/ \E w \in Worker : Record(w)
           /\ \/ UNCHANGED promoting
              \/ promoter' # "prepare"
              \/ \E w \in Worker : StartPromotion(w)
<1>. DEFINE Judging == /\ UNCHANGED evaluations \/ \E w \in Worker : Record(w)
                       /\ \/ UNCHANGED promoting
                          \/ promoter' # "prepare"
                          \/ \E w \in Worker : StartPromotion(w)
<1>. USE DEF chronicle, changes, judgement, ledger, engine, memory, promoting
<1>1. ASSUME NEW w \in Worker, CallStep(w)
      PROVE  Judging
    <2>1. CASE Record(w)
        BY <2>1 DEF Record, RecordEvaluation
    <2>2. CASE StartPromotion(w)
        BY <2>2 DEF StartPromotion, Promote, PromotePending
    <2>3. CASE FindCompleted(w)
        BY <2>3 DEF FindCompleted, PromoteCompleted
    <2>4. CASE \/ ReadEvaluation(w) \/ ReadContext(w) \/ Evaluate(w) \/ EvaluationFails(w)
               \/ RecordedMeanwhile(w) \/ RecordRefused(w) \/ ReadRequirements(w)
               \/ PromotionRefused(w)
        BY <2>4
        DEF ReadEvaluation, ReadContext, Evaluate, EvaluationFails, RecordedMeanwhile,
            RecordRefused, ReadRequirements, PromotionRefused, vars
    <2>. QED
        BY <1>1, <2>1, <2>2, <2>3, <2>4 DEF CallStep
<1>2. CASE ContributorStep
    BY <1>2 DEF ContributorStep, Propose, Amend, Admit, RecordRequirementResponse
<1>3. ASSUME NEW w \in Worker, NEW v \in Versions, TakeUp(w, v)
      PROVE  Judging
    BY <1>3 DEF TakeUp, vars
<1>4. CASE RecordingStep
    BY <1>4 DEF RecordingStep, RecordVersion, RefuseVersion
<1>5. CASE PromotionStep
    BY <1>5
    DEF PromotionStep, PreparePromotion, RefusePromotion, ReadTrunk, Continue, AdvanceTrunk,
        AdvanceOvertaken, RereadTrunk, GiveUp, Down, CompletePromotion, Complete, Remember,
        Release
<1>6. CASE PromotionCallFails \/ HostStep \/ HostGoes
    BY <1>6 DEF PromotionCallFails, HostStep, Open, Serve, HostGoes, Crash, GiveUp, Down, Release
<1>7. CASE UNCHANGED workVars
    BY <1>7 DEF workVars, vars
<1>. QED
    BY <1>1, <1>2, <1>3, <1>4, <1>5, <1>6, <1>7 DEF WorkNext

(* What is decided on is new only when the ledger prepares a promotion.      *)
LEMMA DecisionCases ==
    ASSUME TypeOK, Protocol, [Next]_vars
    PROVE  \/ Decided' = Decided
           \/ PreparePromotion /\ Decided' = Decided \cup {<<plan.version, plan.from>>}
<1>1. CASE PreparePromotion
    <2>1. UNCHANGED promotions /\ prepared' = prepared \cup {plan}
        BY <1>1 DEF PreparePromotion, chronicle
    <2>. QED
        BY <1>1, <2>1 DEF Decided
<1>2. CASE Completion
    BY <1>2, Completed
<1>3. CASE UNCHANGED <<promotions, prepared>>
    BY <1>3 DEF Decided
<1>. QED
    BY LineageCases, <1>1, <1>2, <1>3
    DEF Admission, Admit, Recording, RecordReconciliationConflict, Promote, Quiet,
        chronicle, changes, ledger

LEMMA JudgedStep ==
    ASSUME TypeOK, Protocol, DecidedSettled, VersionsRelated, WorkTypeOK, WorkersKnow,
           EvaluatedUnderBase, PlanJudged, PromotedAsJudged, JudgedByAcceptedPolicies,
           Kept, [WorkNext]_workVars
    PROVE  /\ EvaluatedUnderBase' /\ PlanJudged'
           /\ PromotedAsJudged' /\ JudgedByAcceptedPolicies'
<1>1. DOMAIN evaluations \subseteq Versions
    BY DEF TypeOK
<1>2. ASSUME NEW w \in Worker, Record(w)
      PROVE  EvaluatedUnderBase' /\ JudgedByAcceptedPolicies'
    <2>1. PICK x : x = worker[w] /\ Knows(x)
        BY DEF WorkersKnow
    <2>2. /\ x.at = "record" /\ x.version \in Versions
          /\ DOMAIN evaluations' = DOMAIN evaluations \cup {x.version}
          /\ evaluations'[x.version] = [governing |-> x.governing, required |-> x.required]
          /\ x.governing = versions[x.version].base
        BY <1>2, <2>1 DEF Record, RecordEvaluation, Put, Knows
    <2>3. DOMAIN x.required \subseteq Guarding[revisions[x.governing].content]
        BY <2>1, <2>2 DEF Knows
    <2>4. x.governing \in Intents
        BY <2>2 DEF VersionsRelated
    <2>5. ASSUME NEW v \in DOMAIN evaluations'
          PROVE  /\ evaluations'[v].governing = versions'[v].base
                 /\ DOMAIN evaluations'[v].required
                        \subseteq Guarding[revisions'[versions'[v].base].content]
        <3>1. CASE v = x.version
            BY <2>2, <2>3, <2>4, <3>1 DEF Kept
        <3>2. CASE v \in DOMAIN evaluations
            <4>1. v \in Versions /\ versions[v].base \in Intents
                BY <1>1, <3>2 DEF VersionsRelated
            <4>. QED
                BY <3>2, <4>1 DEF Kept, EvaluatedUnderBase, JudgedByAcceptedPolicies
        <3>. QED
            BY <2>2, <2>5, <3>1, <3>2
    <2>. QED
        BY <2>5 DEF EvaluatedUnderBase, JudgedByAcceptedPolicies
<1>3. ASSUME UNCHANGED evaluations
      PROVE  EvaluatedUnderBase' /\ JudgedByAcceptedPolicies'
    <2>1. ASSUME NEW v \in DOMAIN evaluations
          PROVE  /\ versions'[v] = versions[v]
                 /\ revisions'[versions[v].base] = revisions[versions[v].base]
        BY <1>1 DEF Kept, VersionsRelated
    <2>2. EvaluatedUnderBase'
        BY <1>3, <2>1 DEF EvaluatedUnderBase
    <2>3. JudgedByAcceptedPolicies'
        BY <1>3, <2>1 DEF JudgedByAcceptedPolicies
    <2>. QED
        BY <2>2, <2>3
<1>4. EvaluatedUnderBase' /\ JudgedByAcceptedPolicies'
    BY <1>2, <1>3, JudgingCases
<1>5. PlanJudged'
    <2>1. CASE UNCHANGED promoting
        BY <2>1 DEF PlanJudged, promoting, Kept
    <2>2. ASSUME NEW w \in Worker, StartPromotion(w)
          PROVE  PlanJudged'
        <3>1. worker[w].version \in DOMAIN evaluations
            BY <2>2 DEF StartPromotion, WorkersKnow, Knows
        <3>2. promoter' = "prepare" => plan'.version = worker[w].version
            BY <2>2 DEF StartPromotion, Promote, PromotePending
        <3>. QED
            BY <3>1, <3>2 DEF PlanJudged, Kept
    <2>. QED
        BY <2>1, <2>2, JudgingCases DEF PlanJudged
<1>6. PromotedAsJudged'
    <2>1. ASSUME NEW e \in Decided
          PROVE  /\ e[1] \in DOMAIN evaluations'
                 /\ evaluations'[e[1]].governing = e[2]
                 /\ versions'[e[1]].base = e[2]
        BY <1>1, <2>1 DEF PromotedAsJudged, Kept
    <2>2. CASE PreparePromotion
        <3>1. /\ plan.version \in DOMAIN evaluations /\ plan.version \in Versions
              /\ plan.from = current
              /\ evaluations[plan.version].governing = current
            BY <1>1, <2>2
            DEF PreparePromotion, Preparable, Allows, PlanJudged, Protocol, PlanMatches
        <3>2. versions[plan.version].base = current
            BY <3>1 DEF EvaluatedUnderBase
        <3>3. /\ plan.version \in DOMAIN evaluations'
              /\ evaluations'[plan.version].governing = plan.from
              /\ versions'[plan.version].base = plan.from
            BY <3>1, <3>2 DEF Kept
        <3>4. Decided' \subseteq Decided \cup {<<plan.version, plan.from>>}
            BY <2>2 DEF PreparePromotion, Decided, chronicle
        <3>. QED
            BY <2>1, <3>3, <3>4 DEF PromotedAsJudged
    <2>3. [Next]_vars
        BY WorkStepSteps
    <2>. QED
        BY <2>1, <2>2, <2>3, DecisionCases DEF PromotedAsJudged
<1>. QED
    BY <1>4, <1>5, <1>6

-----------------------------------------------------------------------------
(* Theorems.                                                                 *)

(* The invariant holds at the start, and every step preserves it.            *)
LEMMA WInvInit == WorkInit => WInv
<1>1. Init => IInv /\ LInv
    BY IInvInit, LInvInit
<1>2. ASSUME WorkInit
      PROVE  WorkTypeOK /\ WorkersKnow
    <2>1. Idle \in WorkRecord
        BY IdleKnows
    <2>. QED
        BY <1>2, <2>1 DEF WorkInit, WorkTypeOK, WorkersKnow, Knows, Idle
<1>3. ASSUME Init
      PROVE  EvaluatedUnderBase /\ PlanJudged /\ PromotedAsJudged /\ JudgedByAcceptedPolicies
    BY <1>3
    DEF Init, EvaluatedUnderBase, PlanJudged, PromotedAsJudged, JudgedByAcceptedPolicies,
        Decided
<1>. QED
    BY <1>1, <1>2, <1>3 DEF WorkInit, WInv

LEMMA WInvStep == WInv /\ [WorkNext]_workVars => WInv' /\ [Next]_vars
<1>. SUFFICES ASSUME WInv, [WorkNext]_workVars
              PROVE  WInv' /\ [Next]_vars
    OBVIOUS
<1>1. /\ TypeOK /\ DraftFresh /\ DecidedSettled /\ VersionsRelated
      /\ Protocol
    BY DEF WInv, IInv, LInv, Protocol
<1>2. [Next]_vars
    BY <1>1, WorkStepSteps DEF WInv
<1>3. IInv' /\ LInv'
    BY <1>2, IInvStep, LInvStep DEF WInv
<1>4. Kept
    BY <1>1, <1>2, RecordsKept
<1>5. WorkTypeOK' /\ WorkersKnow'
    BY <1>1, <1>4, WorkersStep DEF WInv
<1>6. EvaluatedUnderBase' /\ PlanJudged' /\ PromotedAsJudged' /\ JudgedByAcceptedPolicies'
    BY <1>1, <1>4, JudgedStep DEF WInv
<1>. QED
    BY <1>2, <1>3, <1>5, <1>6 DEF WInv

(* What a worker holds on to between two of its calls is still what the      *)
(* ledger has recorded when it makes the next one.                           *)
THEOREM WorkInductive == WorkSpec => []WInv
    BY WInvInit, WInvStep, PTL DEF WorkSpec

(* To the repository the processors are clients like any other: whatever is  *)
(* proved of it holds while they are at work.                                *)
THEOREM ProcessorsAreClients == WorkSpec => Spec
<1>1. WorkInit => Init
    BY DEF WorkInit
<1>. QED
    BY <1>1, WInvStep, WorkInductive, PTL DEF WorkSpec, Spec

(* Nothing gets accepted through the processors unless it was evaluated      *)
(* under the very Intent it replaces, which is the one it is based on.       *)
THEOREM AcceptedAsJudged == WorkSpec => []PromotedAsJudged
<1>1. WInv => PromotedAsJudged
    BY DEF WInv
<1>. QED
    BY <1>1, WorkInductive, PTL

(* No Version is judged by policies of its own: what is required of it comes *)
(* from the accepted content that governs it.                                *)
THEOREM AcceptedPoliciesJudge == WorkSpec => []JudgedByAcceptedPolicies
<1>1. WInv => JudgedByAcceptedPolicies
    BY DEF WInv
<1>. QED
    BY <1>1, WorkInductive, PTL
=============================================================================
