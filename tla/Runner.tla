------------------------------- MODULE Runner -------------------------------
(***************************************************************************)
(* The runners that take up pending work: each pages through the Versions  *)
(* the ledger lists as runnable, hands them to idle workers, backs off     *)
(* from what fails, and works on an item only under a lease, which it      *)
(* renews while it works.  Runners compete through the shared lease store. *)
(*                                                                         *)
(* Only time differences matter, so every timer counts down what is left   *)
(* of it and Tick lets one unit pass; no clock runs away.  A renewal may   *)
(* come late by up to Lag units.  What processing an item means is the     *)
(* matter of module Processor; here it takes any time and ends somehow.    *)
(***************************************************************************)
EXTENDS Naturals, FiniteSets

CONSTANTS
    Runner,        \* the runners, each an owner of leases
    None,          \* no owner
    Items,         \* how many work items there are, in the order recorded
    Workers,       \* RunnerOptions: concurrent workers of a runner
    BatchSize,     \* RunnerOptions: items listed at a time
    PollInterval,  \* RunnerOptions: pause after the last page
    LeaseTTL,      \* RunnerOptions: how long a lease lasts unrenewed
    RetryBackoff,  \* RunnerOptions: pause after the first failure
    RetryMax,      \* RunnerOptions: the longest pause
    Lag,           \* how late a due renewal may come
    Stoppable,     \* the runners whose context may be cancelled
    MaxFailures,   \* bound: failures counted (the pause has reached RetryMax)
    Generations    \* bound: lease generations told apart

Item == 1 .. Items

Smaller(a, b) == IF a < b THEN a ELSE b
Less(a) == IF a = 0 THEN 0 ELSE a - 1

(* The ticker of a worker renews three times in the life of a lease.         *)
RenewInterval == LeaseTTL \div 3

(* Mutant: doubled without a look at the cap. *)
DelayUncapped(failures) ==
    LET delay[n \in 1 .. failures] == IF n = 1 THEN RetryBackoff ELSE 2 * delay[n - 1]
    IN  delay[failures]

(* The doubling loop of noteFailure.                                         *)
Delay(failures) ==
    LET delay[n \in 1 .. failures] ==
            IF n = 1 THEN RetryBackoff
            ELSE IF delay[n - 1] >= RetryMax THEN delay[n - 1]
            ELSE IF delay[n - 1] > RetryMax \div 2 THEN RetryMax
            ELSE 2 * delay[n - 1]
    IN  Smaller(delay[failures], RetryMax)

(* A pause doubled n times.                                                  *)
Doubled[n \in Nat] == IF n = 0 THEN RetryBackoff ELSE 2 * Doubled[n - 1]

ASSUME OwnerAssumption == None \notin Runner /\ Stoppable \subseteq Runner
ASSUME OptionAssumption ==
    /\ {Items, Workers, BatchSize, PollInterval, LeaseTTL, RetryBackoff, RetryMax,
        MaxFailures, Generations} \subseteq Nat \ {0}
    /\ Lag \in Nat
    /\ RetryBackoff <= RetryMax
    /\ Generations > 1
ASSUME SaturationAssumption == Doubled[MaxFailures - 1] >= RetryMax

VARIABLES
    runnable,     \* the items the ledger lists
    lease,        \* lease store, by item: [owner, generation, left]
    generations,  \* lease store, by item: the generation given out last
    loop,         \* by runner: where its listing loop is
    job,          \* by runner and item: what a worker does with it
    retry,        \* by runner and item: [failures, wait, forget]
    stopping      \* the runners whose context is cancelled

store == <<lease, generations>>
vars  == <<runnable, store, loop, job, retry, stopping>>

NoLease == [owner |-> None, generation |-> 0, left |-> 0]
NoJob   == [at |-> "none", generation |-> 0, due |-> 0, late |-> 0, cancelled |-> FALSE]
NoRetry == [failures |-> 0, wait |-> 0, forget |-> 0]

Busy(r) == {i \in Item : job[r][i].at # "none"}

SetLoop(r, l) == loop' = [loop EXCEPT ![r] = l]
SetJob(r, i, j) == job' = [job EXCEPT ![r][i] = j]

-----------------------------------------------------------------------------
(* The lease store.                                                          *)

(* Mutant: nobody looks whether the lease is live. *)
AcquirableAnyway(i) == i \in Item

(* A lease that has not expired keeps everybody out.                         *)
Acquirable(i) == lease[i].left = 0

(* Mutant: whoever asks renews or releases the lease. *)
AnyLease(r, i) == lease[i].owner # None

(* The lease in the store is the one this worker was given.                  *)
OwnLease(r, i) ==
    /\ lease[i].owner = r
    /\ lease[i].generation = job[r][i].generation

-----------------------------------------------------------------------------
(* The listing loop.                                                         *)

Rest(after) == {i \in runnable : i > after}

(* Mutant: the page starts over with the first item. *)
PageFromStart(after) ==
    {i \in runnable : Cardinality({j \in runnable : j < i}) < BatchSize}

(* RunnableEvaluations: the next items after the cursor, in recording order. *)
Page(after) ==
    {i \in Rest(after) : Cardinality({j \in Rest(after) : j < i}) < BatchSize}

Last(S) == CHOOSE i \in S : \A j \in S : j <= i
First(S) == CHOOSE i \in S : \A j \in S : i <= j

(* Mutant: entries are kept until their item succeeds. *)
KeepRetries(entries) == entries

(* pruneRetries: an entry nobody came back to for long enough is dropped.    *)
Pruned(entries) ==
    [i \in Item |-> IF entries[i].forget = 0 THEN NoRetry ELSE entries[i]]

List(r) ==
    /\ loop[r].at = "list"
    /\ r \notin stopping
    /\ LET page == Page(loop[r].cursor) IN
       SetLoop(r, [loop[r] EXCEPT
                     !.at = "hand",
                     !.page = page,
                     !.next = IF Rest(loop[r].cursor) = page THEN 0 ELSE Last(page)])
    /\ retry' = [retry EXCEPT ![r] = Pruned(@)]
    /\ UNCHANGED <<runnable, store, job, stopping>>

(* The same page is asked for again after a pause.                           *)
ListFails(r) ==
    /\ loop[r].at = "list"
    /\ SetLoop(r, [loop[r] EXCEPT !.at = "sleep", !.wait = PollInterval])
    /\ UNCHANGED <<runnable, store, job, retry, stopping>>

(* retryReady *)
Ready(r, i) == retry[r][i].wait = 0

(* An unbuffered hand-off: a worker takes the item when it is idle.          *)
Hand(r) ==
    /\ loop[r].at = "hand"
    /\ loop[r].page # {}
    /\ LET i == First(loop[r].page) IN
       /\ SetLoop(r, [loop[r] EXCEPT !.page = @ \ {i}])
       /\ \/ /\ ~Ready(r, i) \/ r \in stopping
             /\ UNCHANGED job
          \/ /\ Ready(r, i)
             /\ Cardinality(Busy(r)) < Workers
             /\ SetJob(r, i, [NoJob EXCEPT !.at = "claim"])
    /\ UNCHANGED <<runnable, store, retry, stopping>>

(* Everything handed over is done; the next page, or a pause and the first.  *)
NextPage(r) ==
    /\ loop[r].at = "hand"
    /\ loop[r].page = {}
    /\ Busy(r) = {}
    /\ SetLoop(r, [loop[r] EXCEPT
                     !.at = IF loop[r].next = 0 THEN "sleep" ELSE "list",
                     !.cursor = loop[r].next,
                     !.next = 0,
                     !.wait = IF loop[r].next = 0 THEN PollInterval ELSE 0])
    /\ UNCHANGED <<runnable, store, job, retry, stopping>>

Wake(r) ==
    /\ loop[r].at = "sleep"
    /\ loop[r].wait = 0
    /\ SetLoop(r, [loop[r] EXCEPT !.at = "list"])
    /\ UNCHANGED <<runnable, store, job, retry, stopping>>

(* The context is cancelled: the loop ends where it next looks.              *)
LoopEnds(r) ==
    /\ r \in stopping
    /\ loop[r].at \in {"list", "sleep"}
    /\ SetLoop(r, [at |-> "ended", cursor |-> 0, page |-> {}, next |-> 0, wait |-> 0])
    /\ UNCHANGED <<runnable, store, job, retry, stopping>>

-----------------------------------------------------------------------------
(* A worker.                                                                 *)

Claim(r, i) ==
    /\ job[r][i].at = "claim"
    /\ IF Acquirable(i) /\ r \notin stopping
       THEN LET g == (generations[i] + 1) % Generations IN
            /\ generations' = [generations EXCEPT ![i] = g]
            /\ lease' = [lease EXCEPT ![i] =
                           [owner |-> r, generation |-> g, left |-> LeaseTTL]]
            /\ SetJob(r, i, [NoJob EXCEPT !.at = "process", !.generation = g,
                                          !.due = RenewInterval])
       ELSE SetJob(r, i, NoJob) /\ UNCHANGED store
    /\ UNCHANGED <<runnable, loop, retry, stopping>>

Renewing(r, i) ==
    /\ job[r][i].at = "process"
    /\ ~job[r][i].cancelled
    /\ r \notin stopping

(* The ticker keeps its pace: a late renewal does not move the next one.  A   *)
(* lost lease cancels the processing; how soon that ends is its own matter.   *)
RenewLease(r, i) ==
    /\ Renewing(r, i)
    /\ job[r][i].due = 0
    /\ IF OwnLease(r, i) /\ lease[i].left > 0
       THEN /\ lease' = [lease EXCEPT ![i].left = LeaseTTL]
            /\ SetJob(r, i, [job[r][i] EXCEPT
                               !.due = RenewInterval - Smaller(job[r][i].late, RenewInterval),
                               !.late = 0])
       ELSE /\ SetJob(r, i, [job[r][i] EXCEPT !.cancelled = TRUE])
            /\ UNCHANGED lease
    /\ UNCHANGED <<runnable, generations, loop, retry, stopping>>

(* noteFailure *)
Failed(entry) ==
    LET failures == Smaller(entry.failures + 1, MaxFailures) IN
    [failures |-> failures, wait |-> Delay(failures), forget |-> Delay(failures) + RetryMax]

(* Process returns; whatever became of the item, it may have left the list.  *)
(* A cancellation is not counted as a failure.                               *)
Finish(r, i) ==
    /\ job[r][i].at = "process"
    /\ \/ retry' = [retry EXCEPT ![r][i] = NoRetry]
       \/ retry' = [retry EXCEPT ![r][i] = Failed(@)]
       \/ ~Renewing(r, i) /\ UNCHANGED retry
    /\ runnable' \in {runnable, runnable \ {i}}
    /\ SetJob(r, i, [NoJob EXCEPT !.at = "release", !.generation = job[r][i].generation])
    /\ UNCHANGED <<store, loop, stopping>>

(* A lease lost meanwhile is left to whoever has it now.                     *)
Release(r, i) ==
    /\ job[r][i].at = "release"
    /\ IF OwnLease(r, i)
       THEN lease' = [lease EXCEPT ![i] = NoLease]
       ELSE UNCHANGED lease
    /\ SetJob(r, i, NoJob)
    /\ UNCHANGED <<runnable, generations, loop, retry, stopping>>

-----------------------------------------------------------------------------
(* The world around.                                                         *)

(* A Version is recorded, or what an evaluated one waited for is answered.   *)
Arrive(i) ==
    /\ i \notin runnable
    /\ runnable' = runnable \cup {i}
    /\ UNCHANGED <<store, loop, job, retry, stopping>>

(* The Version is superseded, or decided on by somebody else.                *)
Leave(i) ==
    /\ i \in runnable
    /\ runnable' = runnable \ {i}
    /\ UNCHANGED <<store, loop, job, retry, stopping>>

Stop(r) ==
    /\ r \in Stoppable \ stopping
    /\ stopping' = stopping \cup {r}
    /\ UNCHANGED <<runnable, store, loop, job, retry>>

(* Time waits for a renewal that is Lag units late, and for nothing else.    *)
Tick ==
    /\ \A r \in Runner, i \in Item :
           Renewing(r, i) /\ job[r][i].due = 0 => job[r][i].late < Lag
    /\ lease' = [i \in Item |-> [lease[i] EXCEPT !.left = Less(@)]]
    /\ loop' = [r \in Runner |-> [loop[r] EXCEPT !.wait = Less(@)]]
    /\ job' = [r \in Runner |-> [i \in Item |->
                  IF ~Renewing(r, i) THEN job[r][i]
                  ELSE [job[r][i] EXCEPT
                          !.due = Less(@),
                          !.late = IF job[r][i].due = 0 THEN @ + 1 ELSE 0]]]
    /\ retry' = [r \in Runner |-> [i \in Item |->
                    [retry[r][i] EXCEPT !.wait = Less(@), !.forget = Less(@)]]]
    /\ UNCHANGED <<runnable, generations, stopping>>

-----------------------------------------------------------------------------
Init ==
    /\ runnable \in SUBSET Item
    /\ lease = [i \in Item |-> NoLease]
    /\ generations = [i \in Item |-> 0]
    /\ loop = [r \in Runner |->
                 [at |-> "list", cursor |-> 0, page |-> {}, next |-> 0, wait |-> 0]]
    /\ job = [r \in Runner |-> [i \in Item |-> NoJob]]
    /\ retry = [r \in Runner |-> [i \in Item |-> NoRetry]]
    /\ stopping = {}

LoopStep(r) == List(r) \/ ListFails(r) \/ Hand(r) \/ NextPage(r) \/ Wake(r) \/ LoopEnds(r)

WorkerStep(r, i) == Claim(r, i) \/ RenewLease(r, i) \/ Finish(r, i) \/ Release(r, i)

Next ==
    \/ \E r \in Runner : LoopStep(r) \/ Stop(r)
    \/ \E r \in Runner, i \in Item : WorkerStep(r, i)
    \/ \E i \in Item : Arrive(i) \/ Leave(i)
    \/ Tick

Spec == Init /\ [][Next]_vars

(* Time passes, goroutines are scheduled, the evaluator and the repository   *)
(* answer in the end, and the ledger does not fail every listing.            *)
Fairness ==
    /\ WF_vars(Tick)
    /\ \A r \in Runner :
           /\ SF_vars(List(r))
           /\ WF_vars(Hand(r)) /\ WF_vars(NextPage(r)) /\ WF_vars(Wake(r))
           /\ \A i \in Item :
                  /\ WF_vars(Claim(r, i)) /\ WF_vars(RenewLease(r, i))
                  /\ WF_vars(Finish(r, i)) /\ WF_vars(Release(r, i))

LiveSpec == Spec /\ Fairness

-----------------------------------------------------------------------------
(* Properties.                                                               *)

(* The types; a runner has no more jobs than workers, and no job is left      *)
(* behind by a loop that has ended.                                           *)
TypeOK ==
    /\ runnable \subseteq Item
    /\ lease \in [Item -> [owner : Runner \cup {None}, generation : 0 .. Generations - 1,
                           left : 0 .. LeaseTTL]]
    /\ generations \in [Item -> 0 .. Generations - 1]
    /\ loop \in [Runner -> [at : {"list", "hand", "sleep", "ended"}, cursor : 0 .. Items,
                            page : SUBSET Item, next : 0 .. Items, wait : 0 .. PollInterval]]
    /\ job \in [Runner -> [Item -> [at : {"none", "claim", "process", "release"},
                                    generation : 0 .. Generations - 1,
                                    due : 0 .. RenewInterval, late : 0 .. Lag,
                                    cancelled : BOOLEAN]]]
    /\ retry \in [Runner -> [Item -> [failures : 0 .. MaxFailures, wait : 0 .. RetryMax,
                                      forget : 0 .. 2 * RetryMax]]]
    /\ stopping \subseteq Stoppable
    /\ \A r \in Runner :
           /\ Cardinality(Busy(r)) <= Workers
           /\ loop[r].at # "hand" => Busy(r) = {}

(* Two runners work on one item only while one of them is so late with its    *)
(* renewal that its lease ran out; its next renewal tells it to stop.  While  *)
(* renewals come in time (RenewInterval + Lag < LeaseTTL), never.             *)
ExclusiveWork ==
    \A r, s \in Runner, i \in Item :
        r # s /\ Renewing(r, i) /\ Renewing(s, i) =>
            \E o \in {r, s} : job[o][i].late + RenewInterval >= LeaseTTL

(* What a step may do to a live lease.                                       *)
RespectsLeases ==
    \A i \in Item :
        lease[i].left > 0 /\ lease'[i] # lease[i] =>
            \/ lease'[i] = [lease[i] EXCEPT !.left = @ - 1]
            \/ LET r == lease[i].owner IN
               /\ job[r][i].generation = lease[i].generation
               /\ \/ Renewing(r, i) /\ lease'[i] = [lease[i] EXCEPT !.left = LeaseTTL]
                  \/ job[r][i].at = "release" /\ lease'[i] = NoLease

(* A worker whose lease expired can neither renew nor release the one another *)
(* worker got after it: a live lease ends by its owner's release, when that   *)
(* worker is done, or by time (TestMemoryLeasesExpireAndFenceStaleOwners).    *)
LeaseRespected == [][RespectsLeases]_vars

(* What a failure leaves behind.                                             *)
BacksOff ==
    \A r \in Runner, i \in Item :
        job[r][i].at = "process" /\ job'[r][i].at = "release"
        /\ retry'[r][i] \notin {retry[r][i], NoRetry}
            => LET n == retry'[r][i].failures
                   pause == Smaller(Doubled[n - 1], RetryMax)
               IN  /\ retry'[r][i].wait = pause
                   /\ retry'[r][i].forget > pause
                   /\ n = Smaller(retry[r][i].failures + 1, MaxFailures)

(* The pause after the n-th failure in a row is RetryBackoff doubled n - 1    *)
(* times, cut off exactly at RetryMax, also where the last doubling           *)
(* overshoots it; and the failures are not forgotten before the item could be *)
(* tried again.                                                               *)
BackoffExact == [][BacksOff]_vars

(* local-playground.md: a Response "lets the durable runner resume the same   *)
(* Version": what is listed is taken up sooner or later, whatever else is     *)
(* listed before it, fails or is retried.                                     *)
EventuallyTakenUp ==
    \A i \in Item :
        (i \in runnable /\ Runner \ Stoppable # {})
            ~> (i \notin runnable \/ \E r \in Runner : job[r][i].at = "process")

(* A runner forgets about an item that failed and is no longer listed.        *)
FailuresForgotten ==
    \A r \in Runner \ Stoppable, i \in Item :
        (retry[r][i] # NoRetry) ~> (retry[r][i] = NoRetry \/ i \in runnable)
=============================================================================
