----------------------------- MODULE Processor -----------------------------
(***************************************************************************)
(* The policy processors at work on one repository: what a runner's worker *)
(* does with a Version, call by call, while contributors propose, amend    *)
(* and respond, other workers process the same or other Versions, and the  *)
(* host crashes.  It composes PolicyProcessor.Process with Repository: a   *)
(* worker is the only caller of RecordEvaluation and Promote.              *)
(*                                                                         *)
(* Between two calls of a worker anything may happen to its Version.  Two  *)
(* workers may have the same one: a lease may have been lost (see Runner). *)
(***************************************************************************)
EXTENDS Repository

CONSTANTS
    Worker,   \* workers that take up runnable Versions
    Guarding  \* by content: the policies that content lays down

ASSUME GuardingAssumption == Guarding \in [Content -> SUBSET Policies]

VARIABLE worker  \* by worker: [at, version, governing, required]

workVars == <<vars, worker>>

Idle == [at |-> "idle", version |-> 0, governing |-> 0, required |-> <<>>]

Stay(w, at) == worker' = [worker EXCEPT ![w].at = at]
Quit(w) == worker' = [worker EXCEPT ![w] = Idle]

(* Mutant: an evaluated Version is not listed again. *)
UnevaluatedOnly(v) == v \in queue \ DOMAIN evaluations

(* What runnableEvaluations lists.                                           *)
Runnable(v) ==
    /\ v \in queue
    /\ v \in DOMAIN evaluations =>
           /\ evaluations[v].governing = current
           /\ Unresolved(v) = {}

TakeUp(w, v) ==
    /\ mode = "serving"
    /\ worker[w] = Idle
    /\ Runnable(v)
    /\ worker' = [worker EXCEPT ![w] = [Idle EXCEPT !.at = "read", !.version = v]]
    /\ UNCHANGED vars

(* Process asks for a recorded Evaluation; after losing the race to record   *)
(* one it asks again, and goes on with the other worker's.                   *)
ReadEvaluation(w) ==
    LET v == worker[w].version IN
    /\ worker[w].at = "read"
    /\ worker' = [worker EXCEPT ![w] =
                    IF v \in DOMAIN evaluations
                    THEN [@ EXCEPT !.at = "requirements",
                                   !.governing = evaluations[v].governing]
                    ELSE [@ EXCEPT !.at = "context"]]
    /\ UNCHANGED vars

(* EvaluationContext refuses a Version that was superseded meanwhile.        *)
ReadContext(w) ==
    LET v == worker[w].version IN
    /\ worker[w].at = "context"
    /\ IF Latest(v)
       THEN worker' = [worker EXCEPT ![w] = [@ EXCEPT !.at = "evaluate",
                                                      !.governing = versions[v].base]]
       ELSE Quit(w)
    /\ UNCHANGED vars

(* Mutant: the candidate brings its own policies. *)
OwnPolicies(w) == Guarding[versions[worker[w].version].content]

(* Load: the policies are those of the accepted content that governs.        *)
LoadedPolicies(w) == Guarding[revisions[worker[w].governing].content]

(* Nothing to compare, or no policy to judge by, is an error.                *)
Loads(w) ==
    /\ LoadedPolicies(w) # {}
    /\ versions[worker[w].version].content # revisions[worker[w].governing].content

(* The evaluator is asked policy by policy; nothing is recorded yet.         *)
Evaluate(w) ==
    /\ worker[w].at = "evaluate"
    /\ Loads(w)
    /\ \E need \in SUBSET LoadedPolicies(w) : \E required \in [need -> Principals] :
           worker' = [worker EXCEPT ![w] = [@ EXCEPT !.at = "record", !.required = required]]
    /\ UNCHANGED vars

(* Mutant: a failed evaluation is taken for one without Requirements. *)
CarryOn(w) == Stay(w, "requirements")

(* Process returns the error.                                                *)
Abandon(w) == Quit(w)

(* The inputs do not load, the evaluator fails, or its work is cancelled.    *)
EvaluationFails(w) ==
    /\ worker[w].at = "evaluate"
    /\ Abandon(w)
    /\ UNCHANGED vars

(* ErrEvaluationAlreadyRecorded, or (repeated word for word) success.        *)
RecordedMeanwhile(w) ==
    /\ worker[w].at = "record"
    /\ worker[w].version \in DOMAIN evaluations
    /\ Stay(w, "read")
    /\ UNCHANGED vars

Record(w) ==
    /\ worker[w].at = "record"
    /\ RecordEvaluation(worker[w].version, worker[w].governing, worker[w].required)
    /\ Stay(w, "requirements")

(* Superseded, or its promotion was prepared by someone else.                *)
RecordRefused(w) ==
    /\ worker[w].at = "record"
    /\ worker[w].version \notin DOMAIN evaluations
    /\ ~(Latest(worker[w].version) /\ worker[w].version \in queue)
    /\ Quit(w)
    /\ UNCHANGED vars

ReadRequirements(w) ==
    LET v == worker[w].version IN
    /\ worker[w].at = "requirements"
    /\ IF v \in DOMAIN evaluations /\ Unresolved(v) # {} THEN Quit(w) ELSE Stay(w, "promote")
    /\ UNCHANGED vars

(* The Evaluation's governing Intent is the ExpectedIntent of the request.   *)
ExpectedIntent(w) == worker[w].governing = current

(* Promote goes on until the promotion is completed or has failed.           *)
StartPromotion(w) ==
    LET v == worker[w].version IN
    /\ worker[w].at = "promote"
    /\ \/ ExpectedIntent(w) /\ Promote(v)
       \/ \E p \in prepared :
              /\ p.version = v /\ p.from = worker[w].governing
              /\ PromotePending(p)
    /\ Stay(w, "promoting")

(* Another worker completed it already.                                      *)
FindCompleted(w) ==
    LET v == worker[w].version IN
    /\ worker[w].at = "promote"
    /\ Promoted(v) /\ promotions[v].from = worker[w].governing
    /\ PromoteCompleted(v)
    /\ Quit(w)

(* ErrIntentAdvanced, ErrPromotionPending and ErrDependenciesPending are     *)
(* swallowed, the other refusals returned.                                   *)
PromotionRefused(w) ==
    LET v == worker[w].version IN
    /\ worker[w].at = "promote"
    /\ PromotionMuFree
    /\ IF Promoted(v)
       THEN promotions[v].from # worker[w].governing
       ELSE IF prepared # {}
       THEN \A p \in prepared : p.version # v \/ p.from # worker[w].governing
       ELSE ~Promotable(v) \/ worker[w].governing # current
    /\ Quit(w)
    /\ UNCHANGED vars

(* Whoever held promotionMu returns when the promotion is over.              *)
Returned ==
    worker' = IF promoter # "idle" /\ promoter' = "idle"
              THEN [w \in Worker |-> IF worker[w].at = "promoting" THEN Idle ELSE worker[w]]
              ELSE worker

CallStep(w) ==
    \/ ReadEvaluation(w) \/ ReadContext(w)
    \/ Evaluate(w) \/ EvaluationFails(w)
    \/ Record(w) \/ RecordedMeanwhile(w) \/ RecordRefused(w)
    \/ ReadRequirements(w)
    \/ StartPromotion(w) \/ FindCompleted(w) \/ PromotionRefused(w)

ContributorStep ==
    /\ \E k \in Keys :
        \/ \E c \in Content, base \in Intents, deps \in SUBSET Versions : Propose(k, base, c, deps)
        \/ \E c \in Content, v \in Versions : Amend(k, v, c)
        \/ \E v \in Versions, p \in Policies, a \in Principals :
           \E decision \in {"satisfied", "revision_requested"} :
               RecordRequirementResponse(k, v, p, a, decision)
    /\ UNCHANGED worker

(* A crash takes the workers along.                                          *)
HostGoes == Crash /\ worker' = [w \in Worker |-> Idle]

WorkInit == Init /\ worker = [w \in Worker |-> Idle]

WorkNext ==
    \/ \E w \in Worker : (\E v \in Versions : TakeUp(w, v)) \/ CallStep(w)
    \/ ContributorStep
    \/ RecordingStep /\ UNCHANGED worker
    \/ (PromotionStep \/ PromotionCallFails) /\ Returned
    \/ HostStep /\ UNCHANGED worker
    \/ HostGoes

WorkSpec == WorkInit /\ [][WorkNext]_workVars

(* Promotions and recordings under way are scheduled; so is every worker,    *)
(* strongly, for promotionMu is handed out fairly; a runner hands a runnable *)
(* Version out again and again; a host that went down is started again.      *)
WorkLiveSpec ==
    /\ WorkSpec
    /\ WF_workVars(PromotionStep /\ Returned)
    /\ WF_workVars(RecordingStep /\ UNCHANGED worker)
    /\ WF_workVars(HostStep /\ UNCHANGED worker)
    /\ \A w \in Worker : SF_workVars(CallStep(w))
    /\ \A v \in 1 .. MaxVersions :
           SF_workVars(\E w \in Worker : v \in Versions /\ TakeUp(w, v))

-----------------------------------------------------------------------------
(* Properties.                                                               *)

(* vision.md: "Evaluation ... interprets one Version under governing Intent";  *)
(* Promote itself takes a Version without one.  Through the processors every  *)
(* Version that was decided on has been evaluated, and replaces the very      *)
(* Intent it was based on and judged under.                                   *)
PromotedAsJudged ==
    \A e \in Decided :
        /\ e[1] \in DOMAIN evaluations
        /\ evaluations[e[1]].governing = e[2]
        /\ versions[e[1]].base = e[2]

(* A Version cannot relax the policies it is judged by: what is required of   *)
(* it comes from the accepted content that governs it, whatever was accepted  *)
(* while the evaluator was at it.                                             *)
JudgedByAcceptedPolicies ==
    \A v \in DOMAIN evaluations :
        DOMAIN evaluations[v].required \subseteq Guarding[revisions[versions[v].base].content]

(* Everything the promotion of v needs is there.                             *)
Clear(v) ==
    /\ v \in queue
    /\ v \in DOMAIN evaluations
    /\ evaluations[v].governing = current
    /\ Unresolved(v) = {}
    /\ \A d \in versions[v].deps : Promoted(d)
    /\ Len(revisions) < MaxIntents

(* A call failed after a promotion was prepared, and no request takes it up.  *)
Stuck == mode = "serving" /\ promoter = "idle" /\ prepared # {}

(* local-playground.md: a "satisfied" Response lets the runner "resume the    *)
(* same Version and attempt Promotion".  A Version whose Requirements are     *)
(* resolved and whose dependencies are accepted comes to its promotion, also  *)
(* when it was refused before (ErrPromotionPending), when its worker died in  *)
(* a crash or was too late, unless another promotion is stuck.                *)
ClearedIsDecided ==
    \A v \in 1 .. MaxVersions :
        (v \in Versions /\ Clear(v)) ~> (~Clear(v) \/ Stuck)
=============================================================================
