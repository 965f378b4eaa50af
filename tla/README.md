# TLA+ models of GRD

GRD makes acceptance part of repository state: contributors propose immutable
*Versions*, evaluators judge them, people or agents answer *Requirements*, and
*Promotion* extends one ordered spine of accepted *Intent*, which a Git ref
(trunk) shows. This directory holds TLA+ modules of that system, TLC
configurations that check them on small instances, and proofs that TLAPS checks
for every instance. `PROJECT.json` maps each definition to the source lines it
models.

Run from this directory: `tlc -config Promotion.cfg MCRepository` (likewise for
the other configurations), `tlapm RepositoryProofs.tla` (likewise for the other
modules with proofs).

## 1. The system

### Components

| Component | State it keeps | Operations that change it |
|---|---|---|
| `intent.Repository` (`internal/intent/repository.go` and its siblings) | in memory only: `current`, `conflict`; two mutexes `changeMu`, `promotionMu` | OpenRepository, Reconcile, Propose, Amend, RebaseHeldVersion, ReconcileDependent, RecordReconciliationConflict, ResolveReconciliationConflict, RecordEvaluation, RecordRequirementResponse, Promote |
| Decision ledger (`internal/intent/*ledger*.go` in memory, `internal/ledgerfs` on disk) | Intents, Changes and Versions, lineage facts, pending queue, Evaluations, Responses, prepared and completed promotions, conflicts, resolutions, idempotency index, history feed | one `Record…` call per fact, PreparePromotion, CompletePromotion; each validates again and appends one record |
| `ledgerfs` journal file | the JSON-lines file, its lock, a `failed` latch | append + fsync, rollback by truncation, torn tail cut at open, replay |
| `gitengine` | the trunk ref; `refs/grd/versions/*` pins | Admit, Bootstrap, Advance (compare-and-swap) |
| `evaluation` runner, leases, processor | leases with expiry, per-item failure counts and backoff, a page cursor | poll, acquire, renew, release, process = evaluate, record, promote |
| evaluator process (`evaluatorexec`, `evaluatorprotocol`) | none | one program run per policy |
| `grds` (`cmd/grds`) | which of the above are open | open, verify readiness, serve, run the runner, shut down |
| `intentservice`, `controlhttp` | none | translate requests and pages |
| `gitworkspace`, `grd` | a contributor's checkout | submit, status, sync (project a recorded replacement, rebase held work) |
| `gitexec`, `gitreader`, `principal` | none | run git, read blobs, canonicalise names |

### How they interact

`grd` and the runner's processor reach one `intent.Repository` through
`intentservice`, on goroutines of their own. A recording operation takes
`changeMu` (rebase, reconcile, report and resolve take `promotionMu` first),
reads the ledger, pins the content in Git under a fresh Version id, and appends
one record; the ledger validates that record against the state it has *then*.
`Promote` takes `promotionMu` only, reads, appends the *prepared* promotion,
moves trunk by compare-and-swap, appends the *completed* promotion, and then
updates the in-memory `current`. Evaluations take neither mutex. Trunk is not
GRD's alone: anybody may push to it. A process that dies leaves whatever it
appended and moved; `OpenRepository` takes up a promotion that is prepared and
not completed, and `grds` serves only if trunk shows the accepted content.

### What is hard about it

* two mutexes that overlap only partly: Amend and Response race Promote, and
  Evaluations race everything, so the second validation in the ledger carries
  the correctness, not the first one in the handler;
* a three-stage promotion (decide, project, accept) over two stores that fail
  apart, with calls whose outcome is unknown and with another writer of one of
  the stores;
* repeated requests: one idempotency key over five kinds of operations, and
  retries of promotions already pending or completed;
* lineage: amendments, rebases, dependents and conflict resolutions all add
  Versions to a Change while others of the same Change are being decided on;
* outside the core: the journal's torn and unsynced tails, lease expiry under
  slow evaluators, backoff, cursors over changing lists, an interrupted `sync`.

### What makes each part correct

* Repository and ledger: one unforked spine, each Intent the outcome of exactly
  one promotion; nothing promoted against its Evaluation and Responses, however
  they race; dependencies first; the pending queue is exactly the undecided
  work; a decided Version stays the latest of its Change; a key has one effect.
* Promotion protocol: trunk shows the newest Intent or the one durably decided;
  GRD never overwrites a foreign commit nor mistakes its own for one; a pending
  promotion is finished after a restart; a host gets ready only when settled.
* Journal: every record acknowledged once it was synced survives; an
  acknowledgement that was not preceded by a sync stands as long as the power
  does; memory and file agree unless the latch is set.
* Runner: one processor per item as long as leases hold; every item
  that can be processed eventually is; a late holder does not undo another's
  lease; backoff is bounded.
* Paging: with a stable cursor every entry that stays listed is seen
  exactly once.
* Workspace: a repeated `sync` records one replacement and loses no local
  commit it could see.

## 2. The modules

| Module | Models | Stands on |
|---|---|---|
| `AcceptedIntent` | The abstract promise about accepted Intent: a spine of contents extended by Decide, Project (only from the newest accepted content), Accept (only once trunk shows the content, unless a foreign writer moved it). | |
| `Repository` | The decision core: `intent.Repository`, the ledger's records, the engine's pins and trunk, the host process, faults and the foreign writer. | refines `AcceptedIntent` |
| `Candidates` | The lists of work overtaken by acceptance: dependents to reconcile, held Versions to rebase, dependents ready for promotion, conflicts to resolve. | extends `Repository` |
| `Paging` | A principal that pages through its pending Requirements while the repository goes on. | extends `Repository` |
| `Processor` | `PolicyProcessor.Process` call by call, several workers, contributors and crashes meanwhile. | extends `Repository` |
| `Workspace` | A contributor's checkout with `grd submit` and `grd sync`, killed and repeated at any call, other contributors meanwhile. | extends `Repository` |
| `Runner` | The listing loop, hand-off to workers, the lease store, backoff, cancellation, with time. | by itself |
| `DurableLog` | The abstract promise of the journal: an append-only log, every fact once and after what it needs. A fact acknowledged when it was recorded is in it; one acknowledged as a repetition is taken in with the next growth, unless the power fails first. | |
| `Journal` | The journal file of `ledgerfs`: open, lock, repair, replay, append, sync, rollback, repetitions, kills and power failures. | refines `DurableLog` |
| `MC…` | Constants, orders and symmetry for TLC, one per module that is checked. | |
| `RepositoryProofs`, `LineageProofs` | The promotion protocol; Versions, keys, the queue and the lists of continuing work. | extend `Repository`, `Candidates` |
| `ProcessorProofs`, `PagingProofs`, `WorkspaceProofs` | What holds of processors, readers and checkouts; that each is a client of the repository. | extend or instantiate `LineageProofs` |
| `RunnerProofs`, `JournalProofs` | Leases and backoff; the journal and its refinement. | extend `Runner`, `Journal` |
| `Induction` | Induction over sets of naturals, and what recursive functions need of it. | |

Each module holds its specification, then its properties. Operators marked
*Mutant* stand for a plausible mistake in the code; no specification uses them,
and `PROJECT.json` names the property that catches each.

The modules divide the system at its durable interface. `Journal` shows that a
recording call behaves like one atomic append to a log that survives crashes;
that is the grain of `Repository`'s ledger actions. `Runner` shows who works on
which Version and when, with the work itself left open; `Processor` shows what
the work does to the repository, with the choice of worker left open: any
worker takes up any runnable Version, also two the same one, as after a lost
lease. So neither leans on the other's guarantees, except that liveness in
`Processor` assumes what `EventuallyTakenUp` of `Runner` states.

One assumption of `Repository` is wider than what `Journal` gives: that
what a start reads from the ledger is durable. A host that replays a *prepared*
promotion its predecessor wrote and never synced moves trunk before anything
syncs that record; if the power fails there, trunk shows a content no durable
decision covers. `Repository` has crashes, not power failures under
unsynced records; `journal_replay` shows that such records are served.

### `Repository`

* Ledger: `revisions`, `current`, `versions` (with their lineage fact and key),
  `queue` (`pendingEvaluations`), `evaluations`, `satisfied` (the Requirements
  whose latest Response is "satisfied"), `prepared`, `promotions`, `claimed`
  (the idempotency index), `conflicts`. These are the maps of
  `ledgerfs.journalState` and of `transientLedger`; both ledgers validate alike.
* Engine: `pins` (one per Version id minted), `trunk`; `foreign` is a history
  variable that counts foreign moves.
* Process: `mode`, `memCurrent`, `memConflict`, and the program counters of the
  two lock holders: `promoter` with `plan` (in Promote or OpenRepository) and
  `inFlight` (a recording operation between Admit and its append).

Every durable call is a step of its own, and so is what the process does to its
memory afterwards. The following are merged, each because nothing that runs in
between can be told apart:

* The reads a recording operation makes before `Admit`, and `Admit` itself: what
  they read is protected by the mutexes held, except promotions under Amend,
  and those the ledger reads again in `RecordVersion`.
* The reads of `Promote`: its Evaluation is immutable once recorded; the
  promotions, Versions and current Intent it reads change only under
  `promotionMu` (Versions are immutable); only Evaluations and Responses may
  arrive in between, and an arrival there is one of the arrivals before
  `PreparePromotion` that the model has.
* A Response and a conflict report are one append with no external effect; the
  keys they look up are stable under `changeMu`. Their ledger calls repeat the
  same checks.
* A request whose key already has an effect, one that names a wrong expected
  Intent or Version, and one that fails a check changes nothing and is not a
  step. The exception, a repeated request for a completed promotion, changes
  the in-memory Intent and is `PromoteCompleted`.

Ids are random in the code and numbers here, minted in recording order (only
the holder of `changeMu` mints Version ids, only the holder of `promotionMu`
Intent ids). A Change is named by its first Version. Contents, keys, policies
and principals are model values. Rationales, producers, titles, affected paths
and guidance texts are left out: no property depends on them. The history feed
and the index of dependents are functions of the facts recorded and are left
out too. `Init` is the state after a host opened a fresh repository.

Faults: `Crash` at any moment; a Git or ledger call of a promotion fails without
effect (`PromotionCallFails`); `git update-ref` moved the ref although its call
reports an error, e.g. because a cancelled context killed it
(`AdvanceOutcomeLost`: the adapter then looks at the ref again,
`gitengine/repository.go:233-239`, and reports a lost race or fails); the
completion was recorded although its call reports an error
(`CompletionOutcomeLost`, the case of
`ledgerfs/promotion_recovery_integration_test.go:150-206`); a recording call
fails after the content was pinned (`RecordingFails`); a foreign push
(`TrunkMoved`). A prepare whose outcome is lost is `PreparePromotion` followed
by `PromotionCallFails`; a recording whose outcome is lost is `RecordVersion`.
A failed or unsuccessful open (`GiveUp` while opening, `Serve` when not
`Ready`) ends the process.

### `Journal`

`file` is what processes read: a sequence of lines, each a record, a `Fragment`
(what a torn write leaves, without a newline) or `Garbled` (what a line written
behind a fragment makes of it). `survivors` is the set of contents the disk may
hold: it collects every content since the last successful sync, and what a torn
write makes of one. A power failure picks one of them; killing a host leaves
`file` alone. That a failure keeps a prefix of what was being written and that a
sync makes the whole file and its name durable are assumptions about the file system.
Records carry what validation needs of them: `Needs` (the facts they refer to)
and `Oversized`. Each system call of Open, append and rollback is an action,
each with its failure; the `failed` latch, after a rollback that did not work,
stops appends but not reads. Two hosts share the file; `flock` is `holder`.

`append` acknowledges in two ways. A new record is acknowledged after its sync:
`told`. An Evaluation or Response that is in the projection already
(`recordAlreadyApplied`, `ledger.go:395-397`) is acknowledged with neither a write
nor a sync: `Repeat`, which adds to `repeated`. Only these two kinds
(`Repeatable`) are sent to the ledger a second time; the Repository looks up
everything else by its key or its promotion first and answers from the
projection: what `ProjectionIsSynced` is about. A power failure empties `repeated`, because
`RepetitionStands` is about what stands until then; `AcknowledgedSurvives` asks of
every content the disk may hold whether it has the repetitions too.

### `Runner`

Timers count down and `Tick` lets one unit pass, so no clock grows. A worker's
ticker renews at a third of the TTL; a renewal may be late by up to `Lag`,
which is how a lease can run out under a working holder. Lease generations are
counted modulo `Generations`. Failure counts saturate where the backoff has
reached its cap (`SaturationAssumption` says so); the doubling loop of
`noteFailure` is the recursive function `Delay`, and `BackoffExact` says that
every pause is the one before it doubled, up to the cap.

### `Processor`

A worker is `idle`, or at one of the calls of `Process`: look for the
Evaluation, read the context, load and evaluate, record, read Requirements,
promote. Between two of them anything may happen to its Version. The
evaluator answers with any subset of the policies the governing content lays
down (`Guarding`), or fails. `RecordEvaluation` and `Promote` are the actions of
`Repository`; no one else calls them.

### `Candidates` and `Paging`

Both are queries and add no state to the code. `Candidates` translates the
list functions, which derive what they offer by walks of their own, and states
against `Repository`'s handlers that what is offered is accepted. `Paging`
keeps what a client holds between two pages; `open` is a history variable with
the Requirements that have been waiting since the reading began.

### `Workspace`

A commit is its history, a sequence of patches, so ancestry is the prefix order
and a rebase replays patches, dropping those already there. `tool` is the
command running in the checkout with what it has read so far, one step per
call to the server; `Aborted` kills it at any of them, and what it
sent may still be recorded. Keys are derived from the request
(`SubmitKey`, `HeldKey`), as in the code; the dependencies go into the key of a
submit in the order in which they were listed. The keys of the others are their
own (`OtherKeys`). The contributor edits and commits at any time; others
propose, amend and rebase through the same repository. `sync` infers its
Version, or is given any.

`projectCleanWorkspace` is a step per Git command where the contributor can get
in between: `git rev-parse` (`InspectHead`), `git status` (`InspectStatus`), `git
reset --keep` (`Reset`), and the look at the result (`ProjectClean`). `Reset` goes to
its target from wherever HEAD is by then; a commit made since `InspectHead`
is out of the history then and in no Version, and goes into the history variable
`dropped`. The two commands of every other look are one step: a commit between
them leaves the same as one made after both.

An assumption about the others: what they record descends from the content
of the Intent it is based on (`OtherClients`). `submit` and `sync` see to that;
`grd amend` and `rebase-held` take the commit they are given, and the
repository does not look at ancestry.

## 3. The runs

| Run | Configuration | Checks | States |
|---|---|---|---|
| promotion | 3 Versions, 3 Intents, 4 keys, propose, amend, evaluate, respond, promote | `PromotionGoverned`, `OneEffectPerKey` | symmetric |
| recovery | 3 contents, 2 Versions, 3 Intents, 4 faults of any kind, `LiveSpec` | `SpineIntact`, `TrunkFollowsDecisions`, `ConflictIsForeign`, `ServesSettledState`, refinement `AcceptedSpec`, liveness `RestartCompletes` | |
| lineage | all lineage operations and promote; 4 Versions and 3 Intents, stretches to 5 and 4 | `TypeOK`, `DependenciesAcceptedFirst`, `PromotedStaysLatest`, `WorkQueueExact`, `OfferedIsAccepted`, `AmendedWorkCarried` | 56 thousand |
| requirements | 2 Versions, 2 policies, 2 principals, one Requirement to a page | `CursorStaysGood`, `NothingMissedOrRepeated` | 256 thousand |
| decisions | 2 workers, 2 Versions, 3 Intents, 1 crash or failed call, fairness | `PromotedAsJudged`, `JudgedByAcceptedPolicies`, liveness `ClearedIsDecided` | 77 thousand |
| leases | 2 runners, 1 item, TTL 3, renewals up to 2 late | `TypeOK`, `ExclusiveWork`, `LeaseRespected`, `BackoffExact` | 808 thousand |
| retry | 1 runner, 2 items, one to a page, fairness | liveness `EventuallyTakenUp`, `FailuresForgotten` | 28 thousand |
| journal | 2 hosts, 4 records (one oversized), 4 faults | `TypeOK`, `AlwaysReopens`, `SyncedSurvives`, `RepetitionStands`, `MemoryMirrorsFile`, refinement `DurableSpec` | 12 thousand |
| workspace | 1 checkout, 2 patches of its own, 1 of others, 3 Versions, 3 Intents | `WorkKept`, `SyncedOntoRecord`, `SubmittedOnce` | 808 thousand |
| stale_retry | 2 Versions, 3 Intents | `ServedIntentIsDurable`: **violated** | |
| journal_replay | 1 host | `ProjectionIsSynced`: **violated** | |
| journal_retry | 1 host | `AcknowledgedSurvives`: **violated** | |

`CHECK_DEADLOCK FALSE` in all of them because clients, runners and contributors
whose bounded work is done really stop.

### Bounds and why they are enough

`MaxVersions` bounds the ids minted, `MaxIntents` the accepted Intents (checked
where `Promote` plans one), `MaxFaults` the faults and foreign moves (or, in
`Journal`, failed calls, kills and power failures), `MaxFailures` and
`Generations` where counts of `Runner` saturate or wrap.

* *promotion*: three Versions and two promotions make the races: an amendment
  of a Version being promoted, a Response that turns a satisfied Requirement back
  between check and decision, a second Change held meanwhile. Keys and
  non-initial contents are interchangeable (symmetry).
* *recovery*: three contents (initial, decided, foreign) and four faults, one
  more than the deepest recovery: lost outcome, crash, failed reopening.
  No symmetry, because it also checks liveness.
* *lineage*: four Versions make the longest lineage that matters to the safety
  properties: a dependency, its amendment, a dependent or a sibling, and its
  reconciliation, rebase or resolution. Chains of amendments under a dependent
  need five; `Within` lets exactly the histories that begin with an amended
  dependency (`Stretch`) go on to five Versions and four Intents. New keys are
  taken in their order (`InOrder`), which stands for symmetry. The properties do
  not look at content, so there is one.
* *requirements*: two Versions with two Requirements each, read one by one,
  make up to four pages between which Versions are answered, amended, promoted
  or evaluated for the first time.
* *decisions*: two workers at the same or at two Versions; the initial content
  and the candidate lay down different policies, so a confusion of the two
  shows.
* *leases*: `Lag` 2 with `TTL` 3 lets a lease run out under its holder and be
  acquired by the other; three failures reach the cap of the backoff, the last
  doubling overshooting it.
* *retry*: a page of one item makes the second page depend on the cursor while
  both items leave, fail and come back.
* *journal*: a fault each for a failing write or sync, the rollback behind it,
  the reopening after it, and a power failure; the records form a chain of needs,
  so a lost or doubled one shows.
* *workspace*: two own commits (one submitted, one after), one of others that
  conflicts or not, three Versions: submitted, amended or rebased by others, and
  the replacement.

### Fairness and why the code justifies it

* *recovery* (`LiveSpec` of `Repository`): the goroutine inside Promote or
  OpenRepository keeps being scheduled (`WF` of `PromotionStep`), an opening
  host gets to its readiness check (`WF` of `Serve`), and a host that went down
  is started again (`WF` of `Open`). The last is a premise about whoever
  operates `grds`; without it nothing is recovered. No fairness is asked of
  clients, so the run does not lean on anybody asking for the promotion again. It
  starts from a host that is *down* with a prepared promotion; a promotion that
  fails in a host that keeps running is the subject of section 5.
* *retry* (`LiveSpec` of `Runner`): time passes; goroutines are scheduled
  (weak fairness of each step of loop and worker); `Process` returns (`WF` of
  `Finish`), which the code leaves to the evaluator, see section 5; the ledger
  does not fail every listing (`SF` of `List`).
* *decisions* (`WorkLiveSpec`): promotions and recordings under way proceed;
  each worker's call gets its turn (strong fairness: Go's mutexes hand over to
  a waiter that starves, so a call that is enabled again and again is made); a
  runnable Version is taken up again and again (`EventuallyTakenUp`); a host that
  went down is started again.

### The violations

*stale_retry.* `Promote` answers a request for an already completed promotion
from the ledger and, on the way, overwrites `Repository.current` with the Intent
that promotion produced (`repository.go:410`), also when later promotions have
been completed. `CurrentIntent` then answers with an older Intent until the next
promotion or restart, and a reported projection conflict is cleared, whereas
`docs/control-http.md:22` calls the answer "the durable accepted Intent ID". The
trace: propose and promote two Versions, then ask for the first promotion again
with its own expected Intent. `grds` today runs a single runner whose listing
leaves promoted Versions out, so only a processor that holds an old listing would
send that request; but its contract (`evaluation/pending_runner.go:28-30`)
expects repeated calls from retries and competing runners.

*journal_replay.* Open replays every complete record in the file and serves from
it without a sync (`ledger.go:432`). A record that a killed host wrote and never
synced is thereby answered for by the next host, and a power failure may still
take it back; `ledgerfs/doc.go:5-6` says "Each accepted record is synced before
it affects the in-memory projection". A record whose append was acknowledged is
not affected (`SyncedSurvives`), unless the acknowledgement was that of a
repetition:

*journal_retry.* `append` answers an Evaluation or Response that is in the
projection already with success, without a write or a sync (`ledger.go:395-397`;
`evaluations_test.go:172` exercises the repetition after a reopen). After a
kill between write and sync and a replay, the processor that retries its
Evaluation is told it is recorded, and a power failure takes it; README.md:16
says "Every Evaluation, Requirement, Response, and Promotion becomes durable
history." The next record that is synced, of any kind, makes the repetitions
durable too (`DurableLog`, `TakesIn`).

## 4. What is proved

The theorems hold for any constants that satisfy the named assumptions, not just
for the instances above. Every safety property and step property the runs check
is one of them, and so are both refinements. Each inductive invariant was
checked with TLC first: `IInv` (but for `HostKnows`) on the promotion and recovery
instances, `IInv` and `LInv` on that of lineage, `WInv` on decisions, `RInv` on
leases, `PInv` on requirements, the parts of `XInv` on workspace.

### `RepositoryProofs`

Assumed: `InitialContent \in Content`, the bounds are naturals, `Operations` names
known operations.

| Theorem | Statement |
|---|---|
| `TypeCorrect` | `Spec => []TypeOK` |
| `OneSpine` | `Spec => []SpineIntact` |
| `TrunkFollows` | `Spec => []TrunkFollowsDecisions` |
| `Governed` | `Spec => []PromotionGoverned` |
| `NoFalseAlarm` | `Spec => []ConflictIsForeign` |
| `ServesSettled` | `Spec => ServesSettledState` |
| `Implements` | `Spec => AcceptedSpec` |

The safety properties are not inductive alone. The invariant `IInv` adds:

* `PreparedFollows`: at most one promotion is prepared; it extends the newest
  Intent with the content of an unpromoted Version. Without it completing a
  promotion could fork the spine.
* `PlanMatches`: what the holder of `promotionMu` carries from step to step. Up to
  `prepare` it matches the ledger it was read from; from `read` to `complete`
  it *is* the prepared promotion; at `complete`, trunk shows it unless a
  foreign writer interfered. This is what makes it safe that the ledger is not
  read again after a Git call.
* `OutcomesAccepted`: completed promotions lead to Intents on the spine, so the
  next one leads to a new Intent.
* `DraftFresh`: the id of a Version in flight is pinned and unused.
* `DecidedSettled`: what was decided has left the queue. That is the argument
  for `PromotionGoverned`: the ledger admits Evaluations and Responses only for
  queued Versions, so nothing changes for a Version once its decision is durable, and the
  decision is itself made against the Evaluation and Responses of that moment.
* `HostKnows`: what an opening process knows; it can reach "serving" without a
  conflict only if no promotion is pending.

The proof has a lemma per group of actions: requests that only admit a draft,
facts recorded about Versions (`FactSteps`), steps that leave decisions alone
(`NeutralSteps`), the promotion protocol (`ProtocolStep`), the draft and
governance conjuncts, and the host's. `Inductive` combines them; the invariants
and the two step properties follow. The refinement maps `spine` to the contents
of `revisions` and `decided` to the contents of `prepared`; every action maps to
one abstract step or a stutter.

### `LineageProofs`

The same assumptions. The theorems are about `Repository` and `Candidates`.

| Theorem | Statement |
|---|---|
| `LineageInductive` | `Spec => [](IInv /\ LInv)` |
| `QueueExact` | `Spec => []WorkQueueExact` |
| `DependenciesFirst` | `Spec => []DependenciesAcceptedFirst` |
| `StaysLatest` | `Spec => []PromotedStaysLatest` |
| `OneEffect` | `Spec => []OneEffectPerKey` |
| `OffersAccepted` | `Spec => []OfferedIsAccepted` |
| `AmendedCarried` | `Spec => []AmendedWorkCarried` |

`LInv` adds to `IInv` and the first three properties:

* `VersionsRelated`: a successor is younger than what it follows and of the same
  Change, depends on recorded Versions of other Changes, and a resolution names
  a conflict about what it follows. So "latest" is decided by the youngest.
* `DraftRelated`: the same of the Version in flight, and there is only one. With
  the ledger's second look it gives `PromotedStaysLatest`: an Amendment overtaken
  by a decision is refused.
* `KeysAccounted`: what has an effect has claimed its key.
* `PlanFits`: between its checks and `prepare`, what `Promote` read about the
  dependencies stays true, since promotions are never taken back.
* `SpineRooted`: the first Intent follows none.

`LineageCases` sorts the steps by what they do to Versions: admit, record,
report, plan, decide, complete, or nothing. The two properties of the candidate
lists follow from the invariant without a step of their own: `WorkCarried` shows
that the walk along the spine meets every Intent (`SpineWhole`), and so the
amendment that was accepted.

### `ProcessorProofs`

Assumed besides: the policies a content lays down (`Guarding`) are among those there
are.

| Theorem | Statement |
|---|---|
| `WorkInductive` | `WorkSpec => []WInv` |
| `ProcessorsAreClients` | `WorkSpec => Spec` |
| `AcceptedAsJudged` | `WorkSpec => []PromotedAsJudged` |
| `AcceptedPoliciesJudge` | `WorkSpec => []JudgedByAcceptedPolicies` |

`WInv` adds to `IInv` and `LInv` what a worker knows between two calls
(`WorkersKnow`): its Version is recorded; until the Evaluation is recorded it
evaluates under the content of the Version's base and requires only what that
content lays down; afterwards the recorded Evaluation is governed by the content
it knows. Versions and Intents are immutable, so none of it is lost to others; the
ledger refuses what came too late. `EvaluatedUnderBase` and `PlanJudged` carry
this over to what `Promote` reads: a Version about to be prepared has an
Evaluation, made under its base.

### `PagingProofs`

Assumed besides: a page has room for an entry, and there are finitely many policies,
numbered in the order an Evaluation lists them.

| Theorem | Statement |
|---|---|
| `ReadingInductive` | `PagingSpec => []PInv` |
| `ReadersHarmless` | `PagingSpec => Spec` |
| `CursorsStayGood` | `PagingSpec => []CursorStaysGood` |
| `NothingMissed` | `PagingSpec => []NothingMissedOrRepeated` |

`PInv` adds to `IInv` and `LInv`: what was listed lies at or before the cursor, each entry once, and
everything at or before the cursor that has been open all along was listed. It
survives because an entry's place in the order is fixed when its Evaluation
is recorded.

### `RunnerProofs`

| Theorem | Statement |
|---|---|
| `RunnersInductive` | `Spec => []RInv` |
| `RunnersTyped` | `Spec => []TypeOK` |
| `LeasesExclude` | `Spec => []ExclusiveWork` |
| `TimelyExcludes` | no two runners at one item, if `RenewInterval + Lag < LeaseTTL` |
| `LeasesRespected` | `Spec => LeaseRespected` |
| `BacksOffExactly` | `Spec => BackoffExact` |

Assumed: `None` is no runner; the options are positive and
`RetryBackoff <= RetryMax`, which `NewPendingRunner` sees to; there are two generations to tell apart;
and the failure count is capped only where the pause is (`SaturationAssumption`).

`RInv` says how many workers are busy (`BusyFits`), and that a worker that still
renews either has the lease, with what is left of it since the last renewal, or is
so late that the lease may have run out (`LeasesCover`).
The condition of `TimelyExcludes` is not an assumption of the module: the code
renews at a third of the TTL and cannot promise when the renewal arrives, and the
leases instance is one where it does not hold. `DelayDoubles` unfolds the
doubling loop.

### `WorkspaceProofs`

Assumed besides what `RepositoryProofs` assumes: contents are histories, and the
contributor's patches differ from those of the others.

| Theorem | Statement |
|---|---|
| `WorkspaceInductive` | `WorkspaceSpec => []XInv` |
| `CheckoutsAreClients` | `WorkspaceSpec => Wide!Spec` |
| `NothingLost` | `WorkspaceSpec => []WorkKept` |
| `LandsOnRecord` | `WorkspaceSpec => []SyncedOntoRecord` |
| `OneSubmission` | `WorkspaceSpec => []SubmittedOnce` |

A checkout uses keys made from what it asks for and commits of its own making, and
both are outside the sets `Repository` is given. `Wide` is the repository with
all the keys and commits there can be (`AllKeys`, `AllCommits`); `WideSteps` shows
that each step here is one of its steps or none, so all of `RepositoryProofs` and
`LineageProofs` holds for it. `XInv` adds:

* `AllWellMade`: every Version, recorded or in flight, descends from the accepted
  content it is based on, and one recorded from a checkout follows from its
  key: a `submit` key names its base, commit and list of dependencies, a `held`
  key the Version, Intent and commit a rebase was computed from. So a receipt that
  arrives for a repeated request is about the content this command computed.
* `Follows`: what a command was told is recorded, and what it is about to check
  out descends from it and has every patch of the HEAD it was computed from
  but those of superseded Versions. HEAD as it was found before the reset
  (`found`) is that HEAD, so a reset takes out of the history nothing else but
  what was committed since: `dropped`.
* `HeadGoesOn`: while a command runs, commits are only added to where it began, or,
  after the reset, to the target; so what it found there is still there when it
  succeeds.

`NothingLost` says that no sync loses a commit made before it last read HEAD or
after its reset; of the commits in between it says nothing, because the code
loses them (section 5). `LandsOnRecord` is about a sync for a Version the checkout
descends from, or for one that another took over; it rests on the assumption
about `OtherClients`, and it exempts a sync for a Version that is based
on the accepted Intent already when the checkout is not on it. `OneSubmission` is
about submits on one dependency or none: two dependencies in another order are
another key and another Version.

`Replays` is about `git rebase` as modelled: onto what it puts a commit, and
that it drops only what upstream or the new base has.

### `JournalProofs`

Assumed: `None` is no host, needs are sets of records, `Oversized`
and `Repeatable` records are records, `Fragment` and `Garbled` are two lines that are not,
`MaxFaults` is a natural; of the file system, what section 2 says.

| Theorem | Statement |
|---|---|
| `TypeCorrect` | `Spec => []TypeOK`, which includes that whoever works on the file holds the lock |
| `Reopens` | `Spec => []AlwaysReopens` |
| `Survives` | `Spec => []SyncedSurvives` |
| `RepetitionsStand` | `Spec => []RepetitionStands` |
| `MirrorsFile` | `Spec => []MemoryMirrorsFile` |
| `Implements` | `Spec => DurableSpec` |

All the properties of the journal run, for any number of hosts, records and
faults. The invariant `IInv` adds to the properties, by host:

* `Appending`: in an append, the file is the projection, the projection with
  the record behind it, or with a fragment behind it, and `size` is the length
  of the projection. So a rollback gives exactly the projection back.
* `Mirrors`: only a host between two calls can have the `failed` latch set, and
  without it its projection is the file.
* `SoundMemory`: a projection could be replayed again and has every record of
  `told`. Without it a rollback could cut off what was acknowledged.

`Standing` says where the records of `repeated` are: in the file, and in the
projection of every host past its replay. So no rollback or repair cuts them off. `StandsOn` shows that every step keeps it, given `IInv`.

The lock makes it a proof about one host: the others are `off` or at the lock
(`Alone`), so their part of the invariant is untouched (`Bystander`). The
refinement maps `log` to `Settled`, the facts every content the disk may hold
has. Its proof names that log: `Base(b)` says that `b` is one of the repaired
survivors and that all of them, the file and every projection go on from it
(`LeastIsBase`: then `Settled` is `b`). Most steps keep the base (`BaseStays`),
a repetition among them;
a sync, the sync of a repair or rollback, and a power failure move it to the
content of the file, which goes on from it (`BaseMoves`); only the sync of a
record adds to `told`, and then the record is the last of the new base. Whatever
moves the base, but for a power failure, moves it to a file with all repetitions
(`Standing`), so `DurableLog` takes them in.

### `Induction`

Three things several proofs need: induction stated with a set instead of a
predicate (`SetInduction`, `LeastNatural`, `GreatestBelow`), the existence of the
function a recursive definition describes (`Iterates`), and the first element of
a finite ordered set (`FirstOfFinite`). Recursive functions of the models are
unfolded with `Iterates`: without it nothing is known of them.

### Only model-checked

Liveness (`RestartCompletes`, `EventuallyTakenUp`, `FailuresForgotten`,
`ClearedIsDecided`), which is outside this prover, and that the fair
specifications imply what they do under fairness. The properties the three
violation runs refute are false, so there is nothing to prove.

## 5. Observations while modelling

* A promotion that fails after it was prepared, in a host that keeps running,
  has left the queue: the runner does not list it again, nobody but the runner's
  processor asks for promotions, and every other promotion is refused as pending
  until a restart. `ClearedIsDecided` excepts exactly this state (`Stuck`), and
  fails without the exception.
* A conflict may be reported about, and resolved for, a Version that was itself
  promoted; its Change then has a Version after the promoted one.
  `PromotedStaysLatest` grants exactly this exception.
* Only Amendments count as replacing a Version: a dependent on a Version that
  was *rebased* and promoted can be neither promoted nor reconciled. That is why
  `AmendedWorkCarried` speaks of Amendments.
* An Evaluation is governed by the base of its Version, and Promote requires the
  governing Intent to be the current one: an evaluated dependent cannot take
  the path of promotion that allows a base other than the current Intent. It
  has to be reconciled first. `PromotedAsJudged` says what that comes to.
* `Promote` itself accepts a Version nobody evaluated; through the processors
  every promoted Version was evaluated (`PromotedAsJudged`).
* A Version whose content equals that of the governing Intent fails its
  evaluation every time (`repository_inputs.go:66`) and stays pending.
* `evaluatorexec` sets no time limit, and the listing loop waits for every item it
  handed out: an evaluator that hangs stops its runner.
* Only the Open that creates the journal syncs the directory (`ledger.go:53`).
* A policy heading longer than 256 bytes makes a Requirement that is listed and
  can neither be answered nor paged past (`controlhttp/protocol.go:347`).
* `sync` publishes commits made after the submission as part of the replacement
  (`workspace.go:268`), although they were never submitted.
* After a lost receipt the replacement is the only latest Version of its Change
  and no ancestor of HEAD: `sync` without `--version` finds nothing, and `submit`
  says to sync first. The way out is `--version` with the submitted Version.
* A `sync` that *names* the replacement finds it based on the current Intent and
  answers `already_current` without a look at the checkout (`workspace.go:244`),
  which was never moved onto it. The sync that is repeated as it was, for the
  submitted Version, finishes the projection. With two Versions submitted from one
  checkout there is another way there: a sync for the earlier one moves HEAD back
  onto an older replacement and is killed; a sync for the later one, based on the
  newest Intent, answers `already_current`. `SyncedOntoRecord` exempts both.
* A commit made after `projectCleanWorkspace` read HEAD and before its `git reset
  --keep` (`workspace.go:444-452`) is in no branch and in no Version afterwards,
  only in the reflog; Git keeps uncommitted changes there. `WorkKept` exempts
  exactly these commits (`dropped`) and fails without the exemption.
* A submit repeated with its dependencies in another order is a new request and
  makes a second Version (`workspace.go:608`).

## 6. Not modelled, and why

* The pages of history, conflicts, pending and runnable work: queries whose
  cursors work like the modelled ones (`Runner` has the runnable cursor,
  `Paging` that of Requirements). `grd watch` follows the history page and
  prints.
* `grd`'s command line, JSON encoding, HTTP routing, text limits and
  canonicalisation of principals: pure functions with no state of the protocol.
* The evaluator's program run and protocol: any verdict or failure in
  `Processor`; its text formats are not modelled.
* `gitengine.Open` and `Bootstrap`, and the creation of a journal's first
  record, which run before a host serves; the order in which `grds` shuts its
  HTTP server down.
* Power failures under a host whose ledger has unsynced records: see section 2.
* `grd status`, which only reads.
* Real time: `Runner` counts units and assumes one clock for all runners, as its
  in-memory lease store has.

## 7. Plan

1. *(done)* `AcceptedIntent`, `Repository`, `RepositoryProofs`.
2. *(done)* `DurableLog`, `Journal`, `JournalProofs`.
3. *(done)* `Runner`, `Processor`, `Candidates`, `Paging`, `Workspace`, each
   checked.
4. *(done)* `LineageProofs`: Versions, keys, queue and the lists of continuing
   work.
5. *(done)* `ProcessorProofs`, `PagingProofs`, `RunnerProofs`,
   `WorkspaceProofs`.
6. Next: action properties of the repository as a whole (what is recorded is
   never rewritten, Intents are only appended), an abstract specification of a
   Change and its Versions that `Repository` implements, and of the lease store.
