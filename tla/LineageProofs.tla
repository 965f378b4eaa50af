---------------------------- MODULE LineageProofs ----------------------------
(* How Versions follow one another: what is left to decide, what was decided *)
(* and on top of what, and what contributors are offered, for every choice   *)
(* of the constants.  The invariant of RepositoryProofs is built upon.       *)
EXTENDS Candidates, RepositoryProofs, Induction

-----------------------------------------------------------------------------
(* The inductive invariant.                                                  *)

(* A Version begins a Change under its own id or follows an earlier Version  *)
(* of its Change; its base was accepted, and what it depends on was recorded *)
(* in other Changes.                                                         *)
VersionsRelated ==
    \A v \in Versions :
        /\ versions[v].change <= v
        /\ versions[v].base \in Intents
        /\ \A d \in versions[v].deps :
               d \in Versions /\ versions[d].change # versions[v].change
        /\ versions[v].op = "propose" => versions[v].from = 0
        /\ versions[v].op # "propose" =>
               /\ versions[v].from \in Versions
               /\ versions[v].from < v
               /\ versions[versions[v].from].change = versions[v].change
        /\ versions[v].op = "resolve" =>
               /\ versions[v].conflict \in DOMAIN conflicts
               /\ conflicts[versions[v].conflict].version = versions[v].from

(* changeMu has one holder, who records under the id pinned last.            *)
DraftRelated ==
    /\ \A d, e \in inFlight : d = e
    /\ \A d \in inFlight : Related(d, Len(pins))

(* What has an effect under a key has claimed it.                            *)
KeysAccounted ==
    /\ OneEffectPerKey
    /\ \A n \in DOMAIN conflicts : conflicts[n].key \in claimed

(* Version v may be accepted in place of Intent i.                           *)
OnTopOf(v, i) ==
    /\ \A d \in versions[v].deps : Promoted(d) /\ promotions[d].to <= i
    /\ \/ versions[v].base = i
       \/ \E d \in versions[v].deps : promotions[d].to = i

(* What Promote checked before it asks the ledger is still so when it does.  *)
PlanFits == promoter = "prepare" => OnTopOf(plan.version, plan.from)

(* The spine begins with the Intent the repository was opened on first.      *)
SpineRooted == revisions[1].prev = 0

LInv ==
    /\ SpineRooted
    /\ VersionsRelated
    /\ DraftRelated
    /\ KeysAccounted
    /\ PlanFits
    /\ DependenciesAcceptedFirst
    /\ WorkQueueExact
    /\ PromotedStaysLatest

-----------------------------------------------------------------------------
(* The steps that matter here.                                               *)

(* Nothing is recorded about Versions but perhaps a key; changeMu may be     *)
(* given up, and a promotion goes on or is given up.                         *)
Quiet ==
    /\ UNCHANGED <<revisions, current, versions, queue, promotions, prepared, conflicts, pins>>
    /\ claimed \subseteq claimed'
    /\ inFlight' \in {inFlight, {}}
    /\ UNCHANGED promoting \/ promoter' # "prepare"

(* The Draft in flight becomes a Version.                                    *)
Recording(d) ==
    /\ Recordable(d)
    /\ versions' = Put(versions, Len(pins), d)
    /\ claimed' = claimed \cup {d.key}
    /\ queue' = BeginPendingEvaluation(Len(pins), d.from)
    /\ inFlight' = {}
    /\ UNCHANGED <<chronicle, conflicts, prepared, pins, promoting>>

(* A prepared promotion is completed.                                        *)
Completion ==
    /\ promoter = "complete"
    /\ Complete
    /\ promoter' # "prepare"
    /\ inFlight' \in {inFlight, {}}
    /\ UNCHANGED pins

(* Every step records a Version, reports a conflict, completes a promotion,  *)
(* judges, or leaves all of that alone.                                      *)
LEMMA LineageCases ==
    ASSUME TypeOK, [Next]_vars
    PROVE  \/ Admission
           \/ \E d \in inFlight : Recording(d)
           \/ \E k \in Keys, from, to, version \in Versions :
                 RecordReconciliationConflict(k, from, to, version)
           \/ \E v \in Versions : Promote(v)
           \/ PreparePromotion
           \/ Completion
           \/ Quiet
<1>. USE DEF chronicle, changes, judgement, ledger, engine, memory, promoting
<1>1. CASE RecordVersion
    BY <1>1 DEF RecordVersion, Recording
<1>2. CASE RefuseVersion \/ RecordingFails
    BY <1>2 DEF RefuseVersion, RecordingFails, Quiet
<1>3. CASE \E v \in Versions, i \in Intents, need \in SUBSET Policies :
               \E required \in [need -> Principals] : RecordEvaluation(v, i, required)
    BY <1>3 DEF RecordEvaluation, Quiet
<1>4. CASE \E k \in Keys, v \in Versions, p \in Policies, a \in Principals :
               \E decision \in {"satisfied", "revision_requested"} :
                   RecordRequirementResponse(k, v, p, a, decision)
    BY <1>4 DEF RecordRequirementResponse, Quiet
<1>5. CASE \/ \E v \in Versions : PromoteCompleted(v)
           \/ \E p \in prepared : PromotePending(p)
           \/ RefusePromotion
    BY <1>5 DEF PromoteCompleted, PromotePending, RefusePromotion, Release, Quiet
<1>6. CASE ReadTrunk \/ AdvanceTrunk \/ AdvanceOvertaken
    BY <1>6 DEF ReadTrunk, Continue, Release, AdvanceTrunk, AdvanceOvertaken, Quiet
<1>7. CASE RereadTrunk
    BY <1>7 DEF RereadTrunk, Continue, GiveUp, Down, Release, Quiet
<1>8. CASE CompletePromotion \/ CompletionOutcomeLost
    BY <1>8
    DEF CompletePromotion, CompletionOutcomeLost, GiveUp, Down, Release, Completion
<1>9. CASE Remember \/ Open \/ Serve
    BY <1>9 DEF Remember, Open, Serve, Down, Release, Quiet
<1>10. CASE Crash \/ PromotionCallFails \/ AdvanceOutcomeLost
    BY <1>10 DEF Crash, PromotionCallFails, AdvanceOutcomeLost, GiveUp, Down, Release, Quiet
<1>11. CASE \E c \in Content : TrunkMoved(c)
    BY <1>11 DEF TrunkMoved, Quiet
<1>12. CASE UNCHANGED vars
    BY <1>12 DEF vars, Quiet
<1>. QED
    BY StepCases, <1>1, <1>2, <1>3, <1>4, <1>5, <1>6, <1>7, <1>8, <1>9, <1>10, <1>11, <1>12

(* What Recording does to the ids.                                           *)
LEMMA Recorded ==
    ASSUME TypeOK, DraftFresh, NEW d \in inFlight, Recording(d)
    PROVE  /\ Len(pins) \in Nat \ {0}
           /\ Len(pins) \notin Versions
           /\ \A v \in Versions : v \in Nat /\ v < Len(pins)
           /\ Versions' = Versions \cup {Len(pins)}
           /\ versions'[Len(pins)] = d
           /\ \A v \in Versions : versions'[v] = versions[v]
           /\ d \in Draft
<1>1. /\ Len(pins) \in 1 .. Len(pins) /\ Len(pins) \notin Versions
      /\ Versions \subseteq 1 .. Len(pins) /\ Len(pins) \in Nat
    BY Numbered DEF DraftFresh, TypeOK
<1>2. d \in Draft
    BY DEF TypeOK
<1>. QED
    BY <1>1, <1>2 DEF Recording, Put, Versions

(* A conflict is appended to those reported before.                          *)
LEMMA ConflictReported ==
    ASSUME TypeOK, NEW k, NEW from, NEW to, NEW version,
           RecordReconciliationConflict(k, from, to, version)
    PROVE  \E last :
               /\ DOMAIN conflicts' = DOMAIN conflicts \cup {last}
               /\ last \notin DOMAIN conflicts
               /\ conflicts'[last].key = k
               /\ \A n \in DOMAIN conflicts : conflicts'[n] = conflicts[n]
<1>. DEFINE x == [key |-> k, version |-> version, from |-> from, to |-> to, base |-> current]
<1>1. conflicts' = Append(conflicts, x) /\ x.key = k
    BY DEF RecordReconciliationConflict
<1>. HIDE DEF x
<1>2. conflicts \in Seq([key : Keys, version : Nat, from : Nat, to : Nat, base : Nat])
    BY DEF TypeOK
<1>3. /\ DOMAIN conflicts' = DOMAIN conflicts \cup {Len(conflicts) + 1}
      /\ Len(conflicts) + 1 \notin DOMAIN conflicts
      /\ conflicts'[Len(conflicts) + 1] = x
      /\ \A n \in DOMAIN conflicts : conflicts'[n] = conflicts[n]
    BY <1>1, <1>2
<1>. QED
    BY <1>1, <1>3

(* Completing a promotion decides nothing new, and forgets no promotion.     *)
LEMMA Completed ==
    ASSUME TypeOK, Protocol, Completion
    PROVE  /\ Decided' = Decided
           /\ DOMAIN promotions \subseteq DOMAIN promotions'
           /\ \A v \in DOMAIN promotions : promotions'[v] = promotions[v]
           /\ queue' = queue \ {plan.version}
           /\ \E e \in Decided : e[1] = plan.version
           /\ UNCHANGED <<versions, claimed, conflicts, pins>>
<1>1. plan \in prepared /\ prepared' = {} /\ prepared = {plan}
    BY DEF Completion, Complete, Protocol, PlanMatches, PreparedFollows
<1>2. /\ DOMAIN promotions' = DOMAIN promotions \cup {plan.version}
      /\ promotions'[plan.version].from = plan.from
      /\ \A v \in DOMAIN promotions : promotions'[v] = promotions[v]
    BY <1>1 DEF Completion, Complete, Put, Protocol, PreparedFollows, Promoted
<1>3. Decided' = Decided
    BY <1>1, <1>2 DEF Decided
<1>4. <<plan.version, plan.from>> \in Decided
    BY <1>1 DEF Decided
<1>. QED
    BY <1>2, <1>3, <1>4 DEF Completion, Complete, Dequeue, changes

(* The records other records refer to are there for good.                    *)
Kept ==
    /\ Versions \subseteq Versions'
    /\ \A v \in Versions : versions'[v] = versions[v]
    /\ DOMAIN evaluations \subseteq DOMAIN evaluations'
    /\ \A v \in DOMAIN evaluations : evaluations'[v] = evaluations[v]
    /\ Intents \subseteq Intents'
    /\ \A i \in Intents : revisions'[i] = revisions[i]

(* No step forgets or rewrites what was recorded.                            *)
LEMMA RecordsKept ==
    ASSUME TypeOK, Protocol, DraftFresh, [Next]_vars
    PROVE  Kept
<1>. USE DEF chronicle, changes, judgement, ledger, engine, memory, promoting
<1>1. ASSUME NEW d \in inFlight, Recording(d), UNCHANGED judgement
      PROVE  Kept
    <2>1. Versions' = Versions \cup {Len(pins)} /\ \A v \in Versions : versions'[v] = versions[v]
        BY <1>1, Recorded
    <2>. QED
        BY <1>1, <2>1 DEF Recording, Kept, Intents
<1>2. CASE RecordVersion
    <2>1. PICK d \in inFlight : Recording(d) /\ UNCHANGED judgement
        BY <1>2 DEF RecordVersion, Recording
    <2>. QED
        BY <1>1, <2>1
<1>3. ASSUME NEW v \in Versions, NEW i, NEW required, RecordEvaluation(v, i, required)
      PROVE  Kept
    BY <1>3 DEF RecordEvaluation, Put, Kept, Versions, Intents
<1>4. CASE CompletePromotion \/ CompletionOutcomeLost
    <2>1. /\ revisions' = Append(revisions, [prev |-> plan.from, content |-> plan.content])
          /\ UNCHANGED <<versions, evaluations>>
        BY <1>4 DEF CompletePromotion, CompletionOutcomeLost, Complete
    <2>2. revisions \in Seq([prev : Nat, content : Content])
        BY DEF TypeOK
    <2>3. Intents \subseteq Intents' /\ \A i \in Intents : revisions'[i] = revisions[i]
        BY <2>1, <2>2 DEF Intents
    <2>. QED
        BY <2>1, <2>3 DEF Kept, Versions
<1>5. CASE UNCHANGED <<versions, evaluations, revisions>>
    BY <1>5 DEF Kept, Versions, Intents
<1>6. ASSUME ~RecordVersion, ~CompletePromotion, ~CompletionOutcomeLost,
             ~\E v \in Versions, i \in Intents, need \in SUBSET Policies :
                  \E required \in [need -> Principals] : RecordEvaluation(v, i, required)
      PROVE  UNCHANGED <<versions, evaluations, revisions>>
    BY StepCases, <1>6
    DEF Admission, Admit, RefuseVersion, RecordRequirementResponse,
        RecordReconciliationConflict, Promote, PromoteCompleted, PromotePending,
        PreparePromotion, RefusePromotion, ReadTrunk, AdvanceTrunk, AdvanceOvertaken,
        RereadTrunk, Remember, Open, Serve, Crash, PromotionCallFails, AdvanceOutcomeLost,
        RecordingFails, TrunkMoved, vars
<1>. QED
    BY <1>2, <1>3, <1>4, <1>5, <1>6

(* Intents are only ever appended.                                           *)
LEMMA RootedStep ==
    ASSUME TypeOK, SpineRooted, [Next]_vars
    PROVE  SpineRooted'
<1>. USE DEF chronicle, changes, ledger
<1>1. CASE UNCHANGED revisions
    BY <1>1 DEF SpineRooted
<1>2. CASE Completion
    <2>1. revisions \in Seq([prev : Nat, content : Content]) /\ Len(revisions) >= 1
        BY Numbered DEF TypeOK
    <2>2. revisions'[1] = revisions[1]
        BY <1>2, <2>1 DEF Completion, Complete
    <2>. QED
        BY <2>2 DEF SpineRooted
<1>. QED
    BY LineageCases, <1>1, <1>2
    DEF Admission, Admit, Recording, RecordReconciliationConflict, Promote, PreparePromotion,
        Quiet

-----------------------------------------------------------------------------
(* How Versions are related.                                                 *)

LEMMA RelatedStep ==
    ASSUME TypeOK, Protocol, DraftFresh, VersionsRelated, DraftRelated, [Next]_vars
    PROVE  VersionsRelated' /\ DraftRelated'
<1>1. CASE Admission
    <2>1. PICK d \in Draft : Admit(d) /\ Related(d, Len(pins) + 1)
        BY <1>1 DEF Admission
    <2>2. /\ inFlight' = {d} /\ Len(pins') = Len(pins) + 1
          /\ UNCHANGED <<revisions, versions, conflicts>>
        BY <2>1 DEF Admit, ledger, chronicle, changes, TypeOK, Draft
    <2>. QED
        BY <2>1, <2>2 DEF VersionsRelated, DraftRelated, Related, Versions, Intents
<1>2. ASSUME NEW d \in inFlight, Recording(d)
      PROVE  VersionsRelated' /\ DraftRelated'
    <2>. DEFINE id == Len(pins)
    <2>1. /\ id \in Nat \ {0} /\ id \notin Versions
          /\ \A v \in Versions : v \in Nat /\ v < id
          /\ Versions' = Versions \cup {id}
          /\ versions'[id] = d
          /\ \A v \in Versions : versions'[v] = versions[v]
          /\ d \in Draft
        BY <1>2, Recorded
    <2>2. /\ Related(d, id) /\ inFlight' = {}
          /\ UNCHANGED conflicts /\ Intents' = Intents
        BY <1>2 DEF DraftRelated, Recording, chronicle, Intents
    <2>3. \A v \in Versions : versions[v].change <= v /\ versions[v].change \in Nat
        BY <2>1 DEF VersionsRelated, TypeOK, Draft
    <2>4. /\ d.change <= id
          /\ d.base \in Intents
          /\ \A e \in d.deps : e \in Versions /\ versions[e].change # d.change
        <3>1. CASE d.op = "propose"
            <4>1. d.change = id /\ d.base \in Intents /\ d.deps \subseteq Versions
                BY <2>2, <3>1 DEF Related
            <4>. QED
                BY <2>1, <2>3, <4>1
        <3>2. CASE d.op # "propose"
            <4>1. /\ d.from \in Versions /\ d.change = versions[d.from].change
                  /\ d.deps \subseteq versions[d.from].deps
                  /\ d.base \in Intents \cup {versions[d.from].base}
                BY <2>2, <3>2 DEF Related
            <4>. QED
                BY <2>1, <2>3, <4>1 DEF VersionsRelated
        <3>. QED
            BY <3>1, <3>2
    <2>5. /\ d.op = "propose" => d.from = 0
          /\ d.op # "propose" =>
                 d.from \in Versions /\ versions[d.from].change = d.change
          /\ d.op = "resolve" =>
                 d.conflict \in DOMAIN conflicts /\ conflicts[d.conflict].version = d.from
        BY <2>2 DEF Related
    <2>6. ASSUME NEW v \in Versions'
          PROVE  /\ versions'[v].change <= v
                 /\ versions'[v].base \in Intents'
                 /\ \A e \in versions'[v].deps :
                        e \in Versions' /\ versions'[e].change # versions'[v].change
                 /\ versions'[v].op = "propose" => versions'[v].from = 0
                 /\ versions'[v].op # "propose" =>
                        /\ versions'[v].from \in Versions'
                        /\ versions'[v].from < v
                        /\ versions'[versions'[v].from].change = versions'[v].change
                 /\ versions'[v].op = "resolve" =>
                        /\ versions'[v].conflict \in DOMAIN conflicts'
                        /\ conflicts'[versions'[v].conflict].version = versions'[v].from
        <3>. HIDE DEF id
        <3>1. CASE v = id
            BY <2>1, <2>2, <2>4, <2>5, <3>1
        <3>2. CASE v \in Versions
            BY <2>1, <2>2, <3>2 DEF VersionsRelated
        <3>. QED
            BY <2>1, <3>1, <3>2
    <2>7. VersionsRelated'
        BY <2>6 DEF VersionsRelated
    <2>. QED
        BY <2>2, <2>7 DEF DraftRelated
<1>3. ASSUME NEW k \in Keys, NEW from \in Versions, NEW to \in Versions,
             NEW version \in Versions,
             RecordReconciliationConflict(k, from, to, version)
      PROVE  VersionsRelated' /\ DraftRelated'
    <2>1. /\ UNCHANGED <<revisions, versions, pins, inFlight>>
          /\ DOMAIN conflicts \subseteq DOMAIN conflicts'
          /\ \A n \in DOMAIN conflicts : conflicts'[n] = conflicts[n]
        BY <1>3, ConflictReported DEF RecordReconciliationConflict, chronicle
    <2>. QED
        BY <2>1 DEF VersionsRelated, DraftRelated, Related, Versions, Intents
<1>4. CASE Quiet
    BY <1>4 DEF Quiet, VersionsRelated, DraftRelated, Related, Versions, Intents
<1>5. CASE Completion
    <2>1. /\ UNCHANGED <<versions, conflicts, pins>>
          /\ inFlight' \in {inFlight, {}}
          /\ revisions' = Append(revisions, [prev |-> plan.from, content |-> plan.content])
        BY <1>5 DEF Completion, Complete, changes
    <2>2. Intents \subseteq Intents'
        <3>1. revisions \in Seq([prev : Nat, content : Content])
            BY DEF TypeOK
        <3>. QED
            BY <2>1, <3>1 DEF Intents
    <2>. QED
        BY <2>1, <2>2 DEF VersionsRelated, DraftRelated, Related, Versions
<1>6. CASE PreparePromotion \/ \E v \in Versions : Promote(v)
    BY <1>6
    DEF PreparePromotion, Promote, ledger, chronicle, changes, VersionsRelated, DraftRelated,
        Related, Versions, Intents
<1>. QED
    BY LineageCases, <1>1, <1>2, <1>3, <1>4, <1>5, <1>6

-----------------------------------------------------------------------------
(* Idempotency keys.                                                         *)

LEMMA KeysStep ==
    ASSUME TypeOK, DraftFresh, KeysAccounted, [Next]_vars
    PROVE  KeysAccounted'
<1>1. ASSUME NEW d \in inFlight, Recording(d)
      PROVE  KeysAccounted'
    <2>1. /\ Versions' = Versions \cup {Len(pins)}
          /\ versions'[Len(pins)] = d
          /\ \A v \in Versions : versions'[v] = versions[v]
        BY <1>1, Recorded
    <2>2. d.key \notin claimed /\ claimed' = claimed \cup {d.key} /\ UNCHANGED conflicts
        BY <1>1 DEF Recording, Recordable, Unclaimed
    <2>3. \A v \in Versions : versions[v].key \in claimed
        BY DEF KeysAccounted, OneEffectPerKey
    <2>. QED
        BY <2>1, <2>2, <2>3 DEF KeysAccounted, OneEffectPerKey
<1>2. ASSUME NEW k \in Keys, NEW from \in Versions, NEW to \in Versions,
             NEW version \in Versions,
             RecordReconciliationConflict(k, from, to, version)
      PROVE  KeysAccounted'
    <2>1. k \notin claimed /\ claimed' = claimed \cup {k} /\ UNCHANGED versions
        BY <1>2 DEF RecordReconciliationConflict, Unclaimed
    <2>2. PICK last : /\ DOMAIN conflicts' = DOMAIN conflicts \cup {last}
                      /\ last \notin DOMAIN conflicts
                      /\ conflicts'[last].key = k
                      /\ \A n \in DOMAIN conflicts : conflicts'[n] = conflicts[n]
        BY <1>2, ConflictReported
    <2>. QED
        BY <2>1, <2>2 DEF KeysAccounted, OneEffectPerKey, Versions
<1>3. CASE Quiet
    BY <1>3 DEF Quiet, KeysAccounted, OneEffectPerKey, Versions
<1>4. CASE \/ Admission \/ PreparePromotion \/ Completion
           \/ \E v \in Versions : Promote(v)
    <2>1. UNCHANGED <<versions, claimed, conflicts>>
        BY <1>4
        DEF Admission, Admit, PreparePromotion, Completion, Complete, Promote, ledger, changes
    <2>. QED
        BY <2>1 DEF KeysAccounted, OneEffectPerKey, Versions
<1>. QED
    BY LineageCases, <1>1, <1>2, <1>3, <1>4

-----------------------------------------------------------------------------
(* What a decision is made on top of.                                        *)

LEMMA DependenciesStep ==
    ASSUME TypeOK, Protocol, DraftFresh, DecidedSettled, PlanFits,
           DependenciesAcceptedFirst, [Next]_vars
    PROVE  PlanFits' /\ DependenciesAcceptedFirst'
<1>. USE DEF chronicle, changes, ledger, promoting
<1>0. \A e \in Decided : e[1] \in Versions /\ OnTopOf(e[1], e[2])
    BY DEF DecidedSettled, DependenciesAcceptedFirst, OnTopOf
<1>1. ASSUME \A e \in Decided' : OnTopOf(e[1], e[2])'
      PROVE  DependenciesAcceptedFirst'
    BY <1>1 DEF DependenciesAcceptedFirst, OnTopOf
<1>2. ASSUME NEW d \in inFlight, Recording(d)
      PROVE  PlanFits' /\ DependenciesAcceptedFirst'
    <2>1. \A v \in Versions : versions'[v] = versions[v]
        BY <1>2, Recorded
    <2>2. UNCHANGED <<promotions, prepared, promoter, plan>> /\ Decided' = Decided
        BY <1>2 DEF Recording, Decided
    <2>3. \A v \in Versions : \A i : OnTopOf(v, i) => OnTopOf(v, i)'
        BY <2>1, <2>2 DEF OnTopOf, Promoted
    <2>4. promoter = "prepare" => plan.version \in Versions
        BY DEF Protocol, PlanMatches
    <2>. QED
        BY <1>0, <1>1, <2>2, <2>3, <2>4 DEF PlanFits
<1>3. CASE \E v \in Versions : Promote(v)
    <2>1. PICK v \in Versions : Promote(v)
        BY <1>3
    <2>2. /\ UNCHANGED <<versions, promotions, prepared>> /\ Decided' = Decided
          /\ plan'.version = v /\ plan'.from = current
        BY <2>1 DEF Promote, Decided
    <2>3. \A w \in DOMAIN promotions : promotions[w].to <= current
        BY Numbered DEF Protocol, OutcomesAccepted, SpineIntact
    <2>4. OnTopOf(v, current)
        BY <2>1, <2>3 DEF Promote, Promotable, OnTopOf, Promoted
    <2>5. \A w, i : OnTopOf(w, i) => OnTopOf(w, i)'
        BY <2>2 DEF OnTopOf, Promoted
    <2>. QED
        BY <1>0, <1>1, <2>2, <2>4, <2>5 DEF PlanFits
<1>4. CASE PreparePromotion
    <2>1. /\ UNCHANGED <<versions, promotions>> /\ promoter' = "read"
          /\ Decided' = Decided \cup {<<plan.version, plan.from>>}
          /\ OnTopOf(plan.version, plan.from)
        BY <1>4 DEF PreparePromotion, Decided, PlanFits
    <2>2. \A w, i : OnTopOf(w, i) => OnTopOf(w, i)'
        BY <2>1 DEF OnTopOf, Promoted
    <2>. QED
        BY <1>0, <1>1, <2>1, <2>2 DEF PlanFits
<1>5. CASE Completion
    <2>1. /\ Decided' = Decided /\ UNCHANGED versions
          /\ DOMAIN promotions \subseteq DOMAIN promotions'
          /\ \A v \in DOMAIN promotions : promotions'[v] = promotions[v]
        BY <1>5, Completed
    <2>2. \A w, i : OnTopOf(w, i) => OnTopOf(w, i)'
        BY <2>1 DEF OnTopOf, Promoted
    <2>. QED
        BY <1>0, <1>1, <1>5, <2>1, <2>2 DEF PlanFits, Completion
<1>6. CASE \/ Admission \/ Quiet
           \/ \E k \in Keys, from, to, version \in Versions :
                 RecordReconciliationConflict(k, from, to, version)
    <2>1. /\ UNCHANGED <<versions, promotions, prepared>>
          /\ UNCHANGED promoting \/ promoter' # "prepare"
        BY <1>6 DEF Admission, Admit, Quiet, RecordReconciliationConflict
    <2>2. Decided' = Decided /\ \A w, i : OnTopOf(w, i) => OnTopOf(w, i)'
        BY <2>1 DEF Decided, OnTopOf, Promoted
    <2>. QED
        BY <1>0, <1>1, <2>1, <2>2 DEF PlanFits
<1>. QED
    BY LineageCases, <1>2, <1>3, <1>4, <1>5, <1>6

-----------------------------------------------------------------------------
(* The work left.                                                            *)

(* Recording a Version changes which are the latest in its own Change only.  *)
LEMMA LatestRecorded ==
    ASSUME TypeOK, DraftFresh, VersionsRelated, DraftRelated,
           NEW d \in inFlight, Recording(d)
    PROVE  /\ Latest(Len(pins))'
           /\ \A v \in Versions : Latest(v)' <=> Latest(v) /\ v # d.from
<1>. DEFINE id == Len(pins)
<1>1. /\ id \in Nat \ {0} /\ id \notin Versions
      /\ \A v \in Versions : v \in Nat /\ v < id
      /\ Versions' = Versions \cup {id}
      /\ versions'[id] = d
      /\ \A v \in Versions : versions'[v] = versions[v]
    BY Recorded
<1>2. Related(d, id) /\ Recordable(d)
    BY DEF DraftRelated, Recording
<1>3. d.op # "propose" => Latest(d.from)
    <2>1. d.op \in RecordingOps
        BY Recorded DEF Draft
    <2>. QED
        BY <1>2, <2>1
        DEF Recordable, AmendmentRecordable, RebaseRecordable, ReconciliationRecordable,
            ResolutionRecordable, RecordingOps
<1>4. id' = id
    BY DEF Recording
<1>. HIDE DEF id
<1>5. ASSUME NEW v \in Versions
      PROVE  Latest(v)' <=> Latest(v) /\ v # d.from
    <2>1. CASE d.op = "propose"
        <3>1. d.from = 0 /\ d.change = id
            BY <1>2, <2>1 DEF Related
        <3>2. v # 0 /\ versions[v].change < id
            BY <1>1 DEF VersionsRelated, TypeOK, Draft
        <3>. QED
            BY <1>1, <3>1, <3>2 DEF Latest
    <2>2. CASE d.op # "propose"
        <3>1. d.change = versions[d.from].change /\ d.from \in Versions
            BY <1>2, <2>2 DEF Related
        <3>2. CASE versions[v].change = d.change
            <4>1. ~Latest(v)'
                BY <1>1, <3>2 DEF Latest
            <4>2. Latest(v) => v = d.from
                BY <1>1, <1>3, <2>2, <3>1, <3>2 DEF Latest
            <4>. QED
                BY <4>1, <4>2
        <3>3. CASE versions[v].change # d.change
            BY <1>1, <3>1, <3>3 DEF Latest
        <3>. QED
            BY <3>2, <3>3
    <2>. QED
        BY <2>1, <2>2
<1>6. Latest(id)'
    BY <1>1, <1>4 DEF Latest
<1>. QED
    BY <1>5, <1>6 DEF id

LEMMA QueueStep ==
    ASSUME TypeOK, Protocol, DraftFresh, DecidedSettled, VersionsRelated, DraftRelated,
           WorkQueueExact, [Next]_vars
    PROVE  WorkQueueExact'
<1>. USE DEF chronicle, changes, ledger, promoting
<1>1. ASSUME NEW d \in inFlight, Recording(d)
      PROVE  WorkQueueExact'
    <2>1. /\ Len(pins) \notin Versions
          /\ Versions' = Versions \cup {Len(pins)}
        BY <1>1, Recorded
    <2>2. /\ queue' = (queue \ {d.from}) \cup {Len(pins)}
          /\ Decided' = Decided /\ UNCHANGED pins
        BY <1>1 DEF Recording, BeginPendingEvaluation, Decided
    <2>3. /\ Latest(Len(pins))'
          /\ \A v \in Versions : Latest(v)' <=> Latest(v) /\ v # d.from
        BY <1>1, LatestRecorded
    <2>4. \A e \in Decided : e[1] \in Versions
        BY DEF DecidedSettled
    <2>. QED
        BY <2>1, <2>2, <2>3, <2>4 DEF WorkQueueExact
<1>2. CASE PreparePromotion
    <2>1. /\ UNCHANGED versions /\ queue' = queue \ {plan.version}
          /\ Decided' = Decided \cup {<<plan.version, plan.from>>}
        BY <1>2 DEF PreparePromotion, Dequeue, Decided
    <2>2. \A v : Latest(v)' <=> Latest(v)
        BY <2>1 DEF Latest, Versions
    <2>3. /\ \A e \in Decided : e \in Decided'
          /\ \A e \in Decided' : e \in Decided \/ e[1] = plan.version
          /\ \E e \in Decided' : e[1] = plan.version
        <3>1. <<plan.version, plan.from>>[1] = plan.version
            OBVIOUS
        <3>. QED
            BY <2>1, <3>1
    <2>4. queue' = {v \in Versions : Latest(v)' /\ \A e \in Decided' : e[1] # v}
        BY <2>1, <2>2, <2>3 DEF WorkQueueExact
    <2>. QED
        BY <2>1, <2>4 DEF WorkQueueExact, Versions
<1>3. CASE Completion
    <2>1. /\ Decided' = Decided /\ UNCHANGED versions
          /\ queue' = queue \ {plan.version}
          /\ \E e \in Decided : e[1] = plan.version
        BY <1>3, Completed
    <2>2. \A v : Latest(v)' <=> Latest(v)
        BY <2>1 DEF Latest, Versions
    <2>. QED
        BY <2>1, <2>2 DEF WorkQueueExact, Versions
<1>4. CASE \/ Admission \/ Quiet
           \/ \E k \in Keys, from, to, version \in Versions :
                 RecordReconciliationConflict(k, from, to, version)
           \/ \E v \in Versions : Promote(v)
    <2>1. UNCHANGED <<versions, queue, promotions, prepared>>
        BY <1>4 DEF Admission, Admit, Quiet, RecordReconciliationConflict, Promote
    <2>. QED
        BY <2>1 DEF WorkQueueExact, Decided, Latest, Versions
<1>. QED
    BY LineageCases, <1>1, <1>2, <1>3, <1>4

-----------------------------------------------------------------------------
(* What follows a decided Version.                                           *)

LEMMA StaysLatestStep ==
    ASSUME TypeOK, Protocol, DraftFresh, DecidedSettled, VersionsRelated, DraftRelated,
           PromotedStaysLatest, [Next]_vars
    PROVE  PromotedStaysLatest'
<1>. USE DEF chronicle, changes, ledger, promoting
<1>1. ASSUME NEW d \in inFlight, Recording(d)
      PROVE  PromotedStaysLatest'
    <2>1. /\ Versions' = Versions \cup {Len(pins)}
          /\ versions'[Len(pins)] = d
          /\ \A v \in Versions : v \in Nat /\ v < Len(pins)
          /\ \A v \in Versions : versions'[v] = versions[v]
          /\ d.op \in RecordingOps
        BY <1>1, Recorded DEF Draft
    <2>2. Decided' = Decided
        BY <1>1 DEF Recording, Decided
    <2>3. ASSUME NEW e \in Decided, d.from = e[1]
          PROVE  d.op = "resolve"
        <3>1. Recordable(d)
            BY <1>1 DEF Recording
        <3>2. d.op # "propose"
            <4>1. e[1] \in Versions /\ e[1] # 0
                BY Numbered DEF DecidedSettled, TypeOK
            <4>. QED
                BY <2>3, <4>1 DEF DraftRelated, Related
        <3>3. Promoted(d.from) \/ \E p \in prepared : p.version = d.from
            BY <2>3 DEF Decided, Promoted
        <3>. QED
            BY <2>1, <3>1, <3>2, <3>3
            DEF Recordable, AmendmentRecordable, RebaseRecordable, ReconciliationRecordable,
                RecordingOps
    <2>. QED
        BY <2>1, <2>2, <2>3 DEF PromotedStaysLatest
<1>2. CASE PreparePromotion
    <2>1. /\ UNCHANGED versions /\ Latest(plan.version)
          /\ Decided' = Decided \cup {<<plan.version, plan.from>>}
        BY <1>2 DEF PreparePromotion, Preparable, Decided
    <2>2. ASSUME NEW w \in Versions
          PROVE  versions[w].from # plan.version
        <3>1. plan.version \in Versions /\ plan.version # 0 /\ plan.version \in Nat /\ w \in Nat
            BY <2>1, Numbered DEF Latest, TypeOK
        <3>. QED
            BY <2>1, <3>1 DEF VersionsRelated, Latest
    <2>. QED
        BY <2>1, <2>2 DEF PromotedStaysLatest, Versions
<1>3. CASE Completion
    <2>1. Decided' = Decided /\ UNCHANGED versions
        BY <1>3, Completed
    <2>. QED
        BY <2>1 DEF PromotedStaysLatest, Versions
<1>4. CASE \/ Admission \/ Quiet
           \/ \E k \in Keys, from, to, version \in Versions :
                 RecordReconciliationConflict(k, from, to, version)
           \/ \E v \in Versions : Promote(v)
    <2>1. UNCHANGED <<versions, promotions, prepared>>
        BY <1>4 DEF Admission, Admit, Quiet, RecordReconciliationConflict, Promote
    <2>. QED
        BY <2>1 DEF PromotedStaysLatest, Decided, Versions
<1>. QED
    BY LineageCases, <1>1, <1>2, <1>3, <1>4

-----------------------------------------------------------------------------
(* The theorems about Versions.                                              *)

(* The invariant holds in a fresh repository, and every step preserves it.   *)
LEMMA LInvInit ==
    ASSUME Init
    PROVE  LInv
<1>1. Versions = {} /\ Decided = {} /\ inFlight = {} /\ DOMAIN conflicts = {}
      /\ queue = {} /\ promoter = "idle"
    BY DEF Init, Versions, Decided
<1>. QED
    BY <1>1
    DEF LInv, VersionsRelated, DraftRelated, KeysAccounted, OneEffectPerKey, PlanFits,
        DependenciesAcceptedFirst, WorkQueueExact, PromotedStaysLatest, SpineRooted, Init

LEMMA LInvStep ==
    ASSUME IInv, LInv, [Next]_vars
    PROVE  LInv'
    BY RootedStep, RelatedStep, KeysStep, DependenciesStep, QueueStep, StaysLatestStep
    DEF IInv, Protocol, LInv

(* How Versions are related, together with the invariant of the promotion    *)
(* protocol, holds in every reachable state.                                 *)
THEOREM LineageInductive == Spec => [](IInv /\ LInv)
<1>1. Init => IInv /\ LInv
    BY IInvInit, LInvInit
<1>2. IInv /\ LInv /\ [Next]_vars => IInv' /\ LInv'
    BY IInvStep, LInvStep
<1>. QED
    BY <1>1, <1>2, PTL DEF Spec

(* Nothing recorded is forgotten, and nothing superseded or decided is       *)
(* offered to the evaluators.                                                *)
THEOREM QueueExact == Spec => []WorkQueueExact
<1>1. LInv => WorkQueueExact
    BY DEF LInv
<1>. QED
    BY <1>1, LineageInductive, PTL

(* Versions are accepted on top of what they were made from.                 *)
THEOREM DependenciesFirst == Spec => []DependenciesAcceptedFirst
<1>1. LInv => DependenciesAcceptedFirst
    BY DEF LInv
<1>. QED
    BY <1>1, LineageInductive, PTL

(* Only the resolution of a conflict follows a Version that was decided on,  *)
(* however an amendment races the promotion.                                 *)
THEOREM StaysLatest == Spec => []PromotedStaysLatest
<1>1. LInv => PromotedStaysLatest
    BY DEF LInv
<1>. QED
    BY <1>1, LineageInductive, PTL

(* A request repeated under its key has no second effect.                    *)
THEOREM OneEffect == Spec => []OneEffectPerKey
<1>1. LInv => OneEffectPerKey
    BY DEF LInv, KeysAccounted
<1>. QED
    BY <1>1, LineageInductive, PTL

-----------------------------------------------------------------------------
(* What contributors are offered.                                            *)

(* The walk back from an accepted Intent meets every Intent before it.       *)
LEMMA SpineWhole ==
    ASSUME TypeOK, SpineIntact, SpineRooted, NEW r \in Intents
    PROVE  Spine(r) = 1 .. r
<1>. DEFINE N == Len(revisions)
            Walk(b) == [i \in 0 .. N |-> IF i = 0 THEN {} ELSE {i} \cup b[revisions[i].prev]]
            back == CHOOSE b : b = Walk(b)
<1>1. N \in Nat /\ r \in 1 .. N
    BY Numbered
<1>2. \A i \in 1 .. N : revisions[i].prev = i - 1
    BY <1>1 DEF SpineIntact, SpineRooted
<1>3. \E b : b = Walk(b)
    <2>. DEFINE w == [i \in 0 .. N |-> 1 .. i]
    <2>1. \A i \in 1 .. N : w[i] = {i} \cup w[revisions[i].prev]
        BY <1>1, <1>2
    <2>2. w[0] = {}
        BY <1>1
    <2>3. w = [i \in 0 .. N |-> w[i]]
        OBVIOUS
    <2>. HIDE DEF w
    <2>4. ASSUME NEW i \in 0 .. N
          PROVE  w[i] = IF i = 0 THEN {} ELSE {i} \cup w[revisions[i].prev]
        <3>1. i = 0 \/ i \in 1 .. N
            BY <1>1
        <3>. HIDE DEF N
        <3>. QED
            BY <2>1, <2>2, <3>1
    <2>5. w = Walk(w)
        BY <2>3, <2>4
    <2>. QED
        BY <2>5
<1>4. back = Walk(back)
    <2>. HIDE DEF Walk
    <2>. QED  BY <1>3
<1>5. Spine(r) = back[r]
    BY DEF Spine
<1>. HIDE DEF back
<1>6. /\ back[0] = {}
      /\ \A i \in 1 .. N : back[i] = {i} \cup back[i - 1]
    BY <1>1, <1>2, <1>4
<1>. DEFINE Met == {n \in Nat : n <= N => back[n] = 1 .. n}
<1>7. \A n \in Nat : n \in Met
    <2>1. 0 \in Met
        BY <1>6
    <2>2. ASSUME NEW n \in Nat, n \in Met
          PROVE  n + 1 \in Met
        <3>1. CASE n + 1 <= N
            <4>1. n <= N /\ n + 1 \in 1 .. N /\ (n + 1) - 1 = n
                BY <1>1, <3>1
            <4>2. back[n + 1] = {n + 1} \cup 1 .. n
                BY <1>6, <2>2, <4>1
            <4>3. {n + 1} \cup 1 .. n = 1 .. (n + 1)
                OBVIOUS
            <4>4. back[n + 1] = 1 .. (n + 1)
                BY <4>2, <4>3
            <4>. QED
                BY <4>4
        <3>2. CASE ~(n + 1 <= N)
            BY <3>2
        <3>. QED
            BY <3>1, <3>2
    <2>. HIDE DEF Met
    <2>. QED
        BY <2>1, <2>2, SetInduction
<1>. QED
    BY <1>1, <1>5, <1>7

(* What is listed passes the checks of the handler it is listed for.         *)
LEMMA OffersRecordable ==
    ASSUME TypeOK, VersionsRelated
    PROVE  OfferedIsAccepted
<1>1. SUFFICES ASSUME prepared = {}
               PROVE  /\ \A c \in DependentReconciliations :
                             ReconciliationRecordable(ReconciliationOf(c[1], c[2]))
                      /\ \A v \in HeldVersionRebases : RebaseRecordable(RebaseOf(v))
                      /\ \A v \in ReadyDependents : Allows(v, current) => Promotable(v)
    BY DEF OfferedIsAccepted
<1>2. ASSUME NEW c \in DependentReconciliations
      PROVE  ReconciliationRecordable(ReconciliationOf(c[1], c[2]))
    <2>1. /\ Latest(c[1]) /\ c[1] \in Versions /\ ~Promoted(c[1])
          /\ c[2] \in Replacements(c[1])
        BY DEF DependentReconciliations
    <2>2. /\ c[2][1] \in versions[c[1]].deps
          /\ c[2][2] \in DOMAIN promotions
          /\ promotions[c[2][2]].to \in Spine(current)
          /\ c[2][1] \in AmendedFrom(c[2][2])
        BY <2>1 DEF Replacements, Amendments
    <2>3. versions[c[2][1]].change # versions[c[1]].change
        BY <2>1, <2>2 DEF VersionsRelated
    <2>. DEFINE d == ReconciliationOf(c[1], c[2])
    <2>4. d.from = c[1] /\ d.base = current /\ d.replaced = c[2][1] /\ d.accepted = c[2][2]
        BY DEF ReconciliationOf, Successor, Blank
    <2>. HIDE DEF d
    <2>5. ReconciliationRecordable(d)
        BY <1>1, <2>1, <2>2, <2>3, <2>4 DEF ReconciliationRecordable, Promoted
    <2>. QED
        BY <2>5 DEF d
<1>3. ASSUME NEW v \in HeldVersionRebases
      PROVE  RebaseRecordable(RebaseOf(v))
    BY <1>1
    DEF HeldVersionRebases, Undecided, RebaseRecordable, RebaseOf, Successor, Blank
<1>4. ASSUME NEW v \in ReadyDependents, Allows(v, current)
      PROVE  Promotable(v)
    BY <1>1, <1>4 DEF ReadyDependents, Promotable
<1>. QED
    BY <1>2, <1>3, <1>4

(* Nothing is offered that would be refused.                                 *)
THEOREM OffersAccepted == Spec => []OfferedIsAccepted
<1>1. IInv /\ LInv => OfferedIsAccepted
    BY OffersRecordable DEF IInv, LInv
<1>. QED
    BY <1>1, LineageInductive, PTL

(* Where an amendment replaced a dependency of v, one of the replacements is *)
(* the one the walk meets first.                                             *)
LEMMA FirstReplacement ==
    ASSUME TypeOK, SpineIntact, VersionsRelated,
           NEW v \in Versions, Latest(v), ~Promoted(v), Replacements(v) # {}
    PROVE  \E c \in DependentReconciliations : c[1] = v
<1>. DEFINE S == Replacements(v)
            Precedes(q, r) == \/ promotions[r[2]].to < promotions[q[2]].to
                              \/ q[2] = r[2] /\ r[1] < q[1]
            R == {x \in S \X S : Precedes(x[1], x[2])}
<1>1. /\ Versions \subseteq 1 .. Len(pins) /\ Len(pins) \in Nat
      /\ versions[v].deps \subseteq Versions
      /\ DOMAIN promotions \subseteq Versions
    BY Numbered DEF TypeOK, VersionsRelated
<1>2. \A q \in S : /\ q = <<q[1], q[2]>>
                   /\ q[1] \in Nat
                   /\ q[2] \in DOMAIN promotions
                   /\ promotions[q[2]].to \in Nat
    BY <1>1 DEF Replacements, TypeOK
<1>3. IsFiniteSet(S)
    <2>1. IsFiniteSet(1 .. Len(pins))
        BY <1>1, FS_Interval
    <2>2. IsFiniteSet((1 .. Len(pins)) \X (1 .. Len(pins)))
        BY <2>1, FS_Product
    <2>3. S \subseteq (1 .. Len(pins)) \X (1 .. Len(pins))
        BY <1>1 DEF Replacements
    <2>. QED
        BY <2>2, <2>3, FS_Subset
<1>4. \A q, r \in S : promotions[q[2]].to = promotions[r[2]].to => q[2] = r[2]
    BY <1>2 DEF SpineIntact
<1>. HIDE DEF S
<1>5. \A q, r \in S : <<q, r>> \in R <=> Precedes(q, r)
    OBVIOUS
<1>. HIDE DEF R
<1>6. ASSUME NEW q \in S, NEW r \in S, q # r
      PROVE  <<q, r>> \in R \/ <<r, q>> \in R
    <2>1. CASE promotions[q[2]].to = promotions[r[2]].to
        <3>1. q[2] = r[2] /\ q[1] # r[1]
            BY <1>2, <1>4, <1>6, <2>1
        <3>. QED
            BY <1>2, <1>5, <3>1
    <2>2. CASE promotions[q[2]].to # promotions[r[2]].to
        BY <1>2, <1>5, <2>2
    <2>. QED
        BY <2>1, <2>2
<1>7. ASSUME NEW q \in S, NEW r \in S, NEW s \in S, <<q, r>> \in R, <<r, s>> \in R
      PROVE  <<q, s>> \in R
    BY <1>2, <1>5, <1>7
<1>8. PICK r \in S : \A q \in S : q = r \/ <<r, q>> \in R
    BY <1>3, <1>6, <1>7, FirstOfFinite DEF S
<1>9. ASSUME NEW q \in S
      PROVE  \/ promotions[q[2]].to < promotions[r[2]].to
             \/ q[2] = r[2] /\ q[1] <= r[1]
    <2>1. CASE q = r
        BY <1>2, <2>1
    <2>2. CASE <<r, q>> \in R
        <3>1. Precedes(r, q)
            BY <1>5, <2>2
        <3>. QED
            BY <1>2, <3>1
    <2>. QED
        BY <1>8, <2>1, <2>2
<1>10. <<v, r>> \in DependentReconciliations
    <2>1. <<v, r>> \in UNION {{w} \X Replacements(w) : w \in {u \in Versions : Latest(u)}}
        BY DEF S
    <2>. QED
        BY <1>9, <2>1 DEF DependentReconciliations, S
<1>. QED
    BY <1>10

(* What was reported about v while it is the latest is not resolved yet.     *)
LEMMA ReportResolvable ==
    ASSUME TypeOK, VersionsRelated, prepared = {},
           NEW v \in Versions, Latest(v),
           NEW n \in DOMAIN conflicts, conflicts[n].version = v,
           conflicts[n].base = current,
           Promoted(conflicts[n].to), promotions[conflicts[n].to].to \in Spine(current)
    PROVE  Resolvable(v)
<1>1. ~Resolved(n)
    <2>1. ASSUME NEW w \in Versions, versions[w].op = "resolve", versions[w].conflict = n
          PROVE  FALSE
        <3>1. versions[w].from = v /\ v < w /\ versions[w].change = versions[v].change
            BY <2>1 DEF VersionsRelated
        <3>2. w <= v /\ v \in Nat /\ w \in Nat
            BY <3>1, Numbered DEF Latest
        <3>. QED
            BY <3>1, <3>2
    <2>. QED
        BY <2>1 DEF Resolved
<1>. QED
    BY <1>1 DEF Resolvable, Superseded, ResolutionRecordable

(* A held Version on top of an amended one is offered in one of the lists.   *)
LEMMA WorkCarried ==
    ASSUME TypeOK, SpineIntact, SpineRooted, OutcomesAccepted, VersionsRelated
    PROVE  AmendedWorkCarried
<1>1. SUFFICES ASSUME NEW v \in Versions, prepared = {}, Held(v),
                      NEW accepted \in DOMAIN promotions,
                      versions[v].deps \cap AmendedFrom(accepted) # {}
               PROVE  Carried(v)
    BY DEF AmendedWorkCarried
<1>2. PICK replaced \in versions[v].deps : replaced \in AmendedFrom(accepted)
    BY <1>1
<1>3. promotions[accepted].to \in Spine(current)
    <2>1. /\ current \in Intents /\ current = Len(revisions)
          /\ promotions[accepted].to \in 1 .. Len(revisions)
        BY Numbered DEF TypeOK, SpineIntact, OutcomesAccepted
    <2>. QED
        BY <2>1, SpineWhole
<1>4. CASE Replacements(v) # {}
    BY <1>1, <1>4, FirstReplacement DEF Held, Carried
<1>5. CASE Replacements(v) = {}
    <2>1. <<replaced, accepted>> \notin Replacements(v)
        BY <1>5
    <2>2. ReportedNow(v, replaced, accepted)
        BY <1>2, <1>3, <2>1 DEF Replacements, Amendments
    <2>3. PICK n \in DOMAIN conflicts :
              /\ conflicts[n].version = v
              /\ conflicts[n].to = accepted
              /\ conflicts[n].base = current
        BY <2>2 DEF ReportedNow
    <2>. QED
        BY <1>1, <1>3, <2>3, ReportResolvable DEF Held, Promoted, Carried
<1>. QED
    BY <1>4, <1>5

(* Work on top of an amended Version always has a way on.                    *)
THEOREM AmendedCarried == Spec => []AmendedWorkCarried
<1>1. IInv /\ LInv => AmendedWorkCarried
    BY WorkCarried DEF IInv, LInv
<1>. QED
    BY <1>1, LineageInductive, PTL
=============================================================================
