# TLA+ verification of the PA agent lab

This directory holds the formal models of the repository: TLA+ modules translated from the TypeScript and SQL,
TLC configurations that check them on small instances, and theorems checked by TLAPS for every value of the
constants. `PROJECT.json` maps every definition to the lines it models; paths below are relative to the repository.

The program is a research lab for price-action decisions. A PostgreSQL database holds immutable records: every table is
insert-only, no row is updated or deleted, and **every state is derived from which rows exist**. What can go wrong is
therefore not an overwritten field. It is two transactions that each saw half of the rows, a retry of what was already
committed, an answer that does not say what was stored, or a legal sequence of inserts that derives no state.

## 1. Inventory

### Doctrine lifecycle: `packages/case-store/src/case-store-v1.ts`
* *State*: proposal, approval and retirement rows; the eligible projection is "approved and not retired".
* *Operations*: `appendDoctrineProposal`, `approveDoctrine`, `retireDoctrine`.
* *Interacts with* ingestion, activation, retrieval and assembly, which all read the eligible projection.
* *Hard*: each of those readers may hold a projection that lost a unit since. *Correct when* a retirement can never be
  undone and nothing that closes on it is reopened by a reader that came late.

### Doctrine ingestion: `doctrine-retrieval-store-v1.ts`, `doctrine-retrieval-quality-v1.ts`
* *State*: snapshots, documents, runs and quality reports, inserted together.
* *Operation*: `ingest`, an attempt in one SERIALIZABLE transaction and a catch block that looks up, then records the failure.
* *Hard*: the catch block works outside the transaction that failed, on a projection it reads again; COMMIT may have
  taken effect although it raised; two operators race one natural identity.
* *Correct when* a natural identity has one terminal run for ever, a run is over approved and allowlisted units, and an
  operator told of a run can find it.

### Doctrine corpus authority: `doctrine-retrieval-store-v1.ts`, `sql/0005`, `sql/0006`
* *State*: an append-only log of standard and rollback activations, numbered by a database sequence. The highest is current.
* *Operations*: `activate`, `rollback`, the activation trigger.
* *Hard*: `nextval` is outside transaction isolation, so numbers are drawn in one order and committed in another; two
  operators roll back from the same authority; a unit is retired between a check and a commit; a rollback is retried.
* *Correct when* the log is a linear, causal history, authority never moves to a snapshot with a retired unit, and a retry
  changes nothing.

### Doctrine lexical retrieval: `doctrine-retrieval-store-v1.ts`
* *State*: query rows and evidence rows, one pair per terminal answer.
* *Operation*: `query`, one transaction, then a second one that records the failure of the first.
* *Hard*: the authority moves between the two transactions; `max(repeat_index) + 1` is read by racing requests; the answer
  to COMMIT is lost. *Correct when* no answer goes unaudited and evidence binds what was current when it committed.

### Blind review workflow: `case-store-v1.ts`, `case-api-v1.ts`
* *State*: five tables (decision, assessment, receipt, review, binding); the stage of a Case is derived from them.
* *Operations*: `appendIndependentAssessment`, `revealDecision`, `appendReviewFinalization`, the Phase 2 `appendReview`, the read of
  the work item that each handler answers with.
* *Hard*: a handler is two transactions; several tabs; retries of commands whose answer was lost; an older route that writes
  one of the five tables. *Correct when* the verdict is frozen before the decision is shown and no Case derives no state
  through the workflow itself.

### Policy Assembly store, Prompt package store, Prepared policy payload store
* *State*: assembly rows (success, or one of four bounded failures), a second activation log, prepared payloads.
* *Operations*: `assemble` reads the Case and then locks the Doctrine log; `activate` of a prompt package locks the package log;
  `prepare` locks the package log, then the Doctrine log. Each is one SERIALIZABLE transaction, whose snapshot its first statement fixes.
* *Hard*: two authorities, two locks, one order, and two activations that upgrade one lock; terminal failures that may or may not coexist with a success.
  *Correct when* a payload binds one current pair of authorities and a bounded failure never contradicts a success.

### Provider process supervisor, workspace, invocation profile, terminal envelope
* *State*: the staged directory; one global `activeFixtureProcess` flag; the child's process group, its pipes and two timers.
* *Hard*: timeout, output limit, transport error and close race for one terminal status; a child must not outlive its
  supervisor; staging may fail halfway. *Correct when* one status is answered, by precedence, nothing outlives the call and the directory is always removed.

### Migration runner and bootstrap
* *State*: the migration ledger, the tables, roles, password, membership and grants. *Operation*: autocommitted role statements, one read of the
  ledger, one transaction per missing migration, then the grants.
* *Hard*: a crash between two migrations; two runners that read the same ledger. *Correct when* migrations are applied in order, each
  at most once, and a drifted ledger stops the runner before it writes.

### Serializable transaction runner
* `runPgTransaction`: BEGIN, callback, COMMIT, at most three attempts, retry on `40001`, `40P01` and on the unique violation of
  three named constraints. All stores run on it.

### Case intake: `case-cli-v1.ts`, `anonymous-chart-renderer-v1.ts`, `case-api-v1.ts`, `case-store-v1.ts`
* *State*: content-addressed chart files in a directory; the tables of Cases, inputs, chart metadata, bindings, decisions and reviews.
* *Operations*: `seed-synthetic` renders, writes two files and makes four requests; `appendBundle`, `appendDecision`, `appendReview`, `getAudit`.
* *Hard*: files and tables have no common transaction; a command or the server stops between any two steps; Cases may share an identifier,
  a stream position, a picture or an input. *Correct when* what is bound can be served, what is reported is stored, and running a command again is harmless.

### Other Case API routes, gateway, CLI commands, research console
* The routes translate requests to the operations above. The console keeps drafts per tab. Of the other CLI commands `seed-review-work-item` makes the first two requests of
  `seed-synthetic`, `seed-doctrine-pilot` one request per pilot proposal, and the rest one each.

### Discovery engine: `packages/discovery-engine`
* *State*: none of its own. Its caller passes the bars and the candidates it got before.
* *Operations*: `evaluateDiscoveryFactorsV1` (five detectors, ambiguity, grouping, cooldown, escalation) and candidate admission.
* *Hard*: a cooldown that depends on what the caller remembers; a failed breakout that must pass the cooldown its breakout started; strict and
  closed comparisons on either side. *Correct when* a thread stays quiet, a failure is never swallowed, and no side is favoured.

### Model calls and replay: `model-call-schedule-v1.ts`, `policy-input-v1.ts`, `brooks-decision-v1.ts`, `model-run-audit-v1.ts`, `replay-boundary-v1.ts`
* *State*: none; each contract is a pure function from records to the next record. Whoever calls them holds records of many windows.
* *Operations*: advance a schedule, plan an evaluation, record a run and its audit, validate a response, freeze a result, request and resolve a replay.
* *Hard*: bars arrive late, twice or renumbered; bar identifiers in an input are positions, so windows of one shape look alike; records of different windows
  are offered together. *Correct when* a model is shown nothing that had not closed, a plan quotes printed prices and a replay starts after its decision.

### Multi-timeframe Cases: `brooks-multi-timeframe-input-v1.ts`, `-response-v1.ts`, `-response-validation-v1.ts`, their chart renderer
* *Operations*: make a Case at an instant from three timeframes, normalise it, make the policy input, judge a response.
* *Hard*: a bar of a longer timeframe is still forming at the cutoff; intervals are missing; a response leans on one timeframe and
  names a gap of another. *Correct when* nothing after the cutoff is used and no plan rests on data known to be missing.

### Transport schemas
* Generated JSON schemas and their generator: nothing to check beyond their types.

`PROJECT.json` lists each of these parts with its status, and under `hazards` each place where the code can go wrong in a
way a test would hardly reach, with the properties that would catch it or the reason none does.

## 2. Modules and what they stand for

| Module | Models | Role |
| --- | --- | --- |
| `CorpusLedger` | the Doctrine tables, one committed transaction per step | abstract specification, base of the next three |
| `CorpusLedgerProofs` | | theorems about `CorpusLedger`, used by the next two proof modules |
| `DoctrineIngestion` | `ingest` with its catch block, any number of sessions | implements `CorpusLedger` |
| `DoctrineIngestionProofs` | | theorems about `DoctrineIngestion` |
| `CorpusActivation` | `activate`, `rollback`, sequence, insert trigger | composes with `CorpusLedger` |
| `DoctrineRetrieval` | `query` and its failure transaction | composes with `CorpusActivation` |
| `PolicyAssembly` | `assemble`: success and four failures | composes with `CorpusActivation` |
| `PreparedPayload` | the package's `activate`, `prepare` | composes with `PolicyAssembly` |
| `AuthorityLocks` | the table locks of both logs, snapshots, retries | the stores that lock, in commit order |
| `CorpusAuthorityProofs` | | theorems about `CorpusActivation`, `DoctrineRetrieval`, `PolicyAssembly`, `PreparedPayload`, `AuthorityLocks` |
| `ReviewStages` | the four stages of a Case and the bypass | abstract specification |
| `BlindReview` | five tables, handlers, retries, lost answers, Phase 2 route | implements `ReviewStages` |
| `BlindReviewProofs` | | theorems about `BlindReview` |
| `SchemaHistory` | the applied migrations: the beginning of one image's sequence | abstract specification |
| `MigrationRunner` | `bootstrapPhase2DatabaseV1`, `applyContentHashedMigrations`, several images | implements `SchemaHistory` |
| `MigrationProofs` | | theorems about `MigrationRunner` and its refinement |
| `ProviderCall` | workspace, supervised process group, envelope | one call after another, or several at once |
| `DiscoveryFactors` | the detectors, ambiguity, enhancers | operators on bars |
| `DiscoveryEngine` | candidates, cooldown, escalation, admission, and a caller | uses `DiscoveryFactors` |
| `BrooksDecision` | `createBrooksDecision`, the offline response validator | operators on responses |
| `PolicyInput` | Case, anonymous market, policy input and their checks | operators on windows of bars |
| `ModelCallSchedule` | schedule states, call plans, frozen results, bundles | operators on decision points |
| `DecisionReplay` | calls, audits, decisions, results and replays of one stream | composes the three above |
| `ModelCallProofs` | | theorems about `ProviderCall` and `DecisionReplay` |
| `MultiTimeframe` | Case, input and judged response on three timeframes | uses `BrooksDecision` |
| `MarketDataProofs` | | theorems about `DiscoveryEngine` and `MultiTimeframe` |
| `CaseCharts` | charts, their metadata, the Case bundle, conflict kinds | uses `PolicyInput` |
| `CaseIntake` | `seed-synthetic`, chart files, intake routes and transactions | uses `CaseCharts` |
| `CaseProofs` | | theorems about `CaseIntake` |
| `MC*` | the small constants, symmetry | one per checked component |

**How a transaction becomes a step.** The stores run every mutation under SERIALIZABLE isolation. A transaction that commits is one
action, taken at its place in the serialization order; the documents define what is visible by that order. One that
fails is an action that changes no table. A retry by the runner is that failure followed by a new attempt. Two things are
outside isolation and therefore have actions of their own: the database sequence (`Draw`), and whatever a handler does
between two transactions (`Rebuild`, `Lookup`, `Persist`; `Execute`, `PersistFailure`; `Respond`).

PostgreSQL may abort more transactions than the model lets fail for a reason: its predicate locks may be as coarse as a
page or a relation. Every action that commits has a failing alternative, so those aborts are behaviours of the model too.

**How a record becomes a value.** Records are content-addressed, so two with the same identity hash have the same content. A
record is its identity: a snapshot is its set of units, a run is (snapshot, attempt, outcome), an activation is named by its
sequence, a command by the rows it names. Hashes, principals and timestamps do not appear.

**Mutants.** An operator whose comment begins with "Mutant:" is not part of the system. It is a plausible bug in the definition that
follows it; replacing the definition by it makes the property named in `PROJECT.json` fail. Nothing else refers to it.

### CorpusLedger
`proposed`, `approved`, `retired` are the lifecycle tables; `Eligible` is what `buildEligibleSnapshot` selects. `runs` is the run table together with the
quality report. `RecordSucceeded` is the whole succeeded attempt, `RecordFailed` the failure record. A succeeded run is only possible when the
projection is exactly the units the committed fixtures were written for (`SuiteCovers`): `executeDoctrineRetrievalQualitySuite` throws otherwise.

### DoctrineIngestion
`pc` names the await a session is suspended at: the attempt, the second `buildEligibleSnapshot`, the second lookup, the insert of the
failed run. `rebuilt` is the projection the catch block holds across those awaits. `AttemptSucceeds` has two outcomes, since COMMIT may raise
although it was durable. `Persist` answers the failed run as inserted whether or not `ON CONFLICT DO NOTHING` wrote it, as the code does.

### CorpusActivation
`inFlight` holds the rows of transactions between `nextval` and their insert. `CommitStandard` and `CommitRollback` carry the conditions of the trigger
`pa_validate_doctrine_activation`, with its early return for standard rows, and of the partial unique index; `BeginStandard` and `BeginRollback` carry the service's own checks. `Abort` is
every other end of the transaction. `runs` and retirements move under `LedgerNext`.

### DoctrineRetrieval
A request is submitted once, executes, and if that throws persists the failure. `ExecuteMismatch` is separate from `ExecuteBreaks`, because it decides which
bounded code the second transaction stores. Ranking is abstracted to the set of matching units.

### PolicyAssembly, PreparedPayload
A terminal record is named by its Case and its activation, an activation by its sequence; 0 stands for no activation. `Assemble` is the whole handler: the early
returns of `assemble` are its five disjuncts, in the order of the code, each with what the trigger of `sql/0007` adds. The handler answers
"existing" when the record is stored already, which is a stuttering step. Every activated snapshot is the pilot's, so the outcome of
measuring it is one value, `overBounds`, chosen in the initial state and never changed: all four outcomes are checked. The committed pilot has nine units and breaks neither bound;
the models keep the two handlers so that a larger pilot is covered. `ACTIVE_CORPUS_INELIGIBLE` is accepted beside a success, the other failures are not.

The approvals table of `sql/0008` admits one package hash, so the package log holds at most one standard activation. A package rollback needs an earlier standard activation, of which there is
none: it always fails, and has no action. `Prepare` carries `assertAssemblyAuthorityCurrent` and its trigger.

### AuthorityLocks
In `PolicyAssembly` a transaction takes effect at its place in the serialization order. This module shows the commit order, where that
place may be earlier. `Begin` is BEGIN with the first statement, which fixes `seen`; the row bound is read in `seen`, by the service and the trigger alike. `LockCorpus` is the SHARE ROW EXCLUSIVE lock of the Doctrine log, taken by assembly and preparation with
a statement and by a retirement in its trigger. An activation or a rollback is two steps: `InsertActivation` takes the insert's ROW EXCLUSIVE lock, which other inserts share, and `SerializeActivation` is the trigger that upgrades it. Two of them can hold the first and wait
for the second, each for the other: `BreakDeadlock` is the server's detector. `RollBack` is that, a serialization failure or any other error: ROLLBACK frees the locks and the runner tries again at most `MaxAttempts` times. A request that is refused or
answered before it locks anything holds nothing and is left out; one answered with an existing record after the lock ends like one that writes, as far as locks go.

### BlindReview
`Stage` is `deriveReviewState`. A handler that has committed is in `serving` until it reads the work item (`Respond`) or its connection drops (`LoseAnswer`). A
command names the assessment it was made from, as the client's hash does. `AppendReview` is the Phase 2 route, which writes the review table without the
workflow. `committed`, `bypassed` and `shown` are history.

### SchemaHistory, MigrationRunner
A deployment is an image with its sequence of content-hashed migrations. Each statement before the ledger is read commits by itself (`CreateRoles`, `SetLogin`, `GrantMembership`). `ReadLedger` is the
one read that decides where a deployment starts; `Apply` and `ApplyConflicts` are one migration's transaction with its row, whose order is the primary key. `Break` loses the connection at any
await, also after a COMMIT took effect, and `Restart` is the operator who runs it again. `SchemaHistory` knows only that the history is the beginning of some image's sequence and grows by one.

### ProviderCall
The lab process is single threaded: an action is what runs between two awaits, or one event of the child. `Call` sets the module-wide flag, `Spawn` starts the leader, `Write`, `Fork`, `Exit` and
`Die` are what the group does, `Hear` is a chunk that arrives, `TimeoutFires` and `ForceKill` are the timers, `Settle` is the close event with the second group kill, `Cleanup` removes the directory. Bytes are counted, and
contents are one of three envelope outcomes. `doomed` holds the processes a signal will end, so that `NothingOutlives` can speak of the instant of the answer.

### DiscoveryFactors, DiscoveryEngine
Prices are integers in sixteenths of a tick and multiples of sixteen, which makes every quotient of the code exact. Volume is not supplied. The stream is a sequence of bars; a caller evaluates the latest bar with any of the
history lengths in `Supplied`, may evaluate it again or miss it, and passes the candidates it got for bars of that history. `Reject` (too little history, a gap, a bar that `isValidOhlc` refuses) and `RejectAmbiguous` are the early returns, `Detect` is the rest.

### BrooksDecision, PolicyInput, ModelCallSchedule, DecisionReplay
The first three are operators, one per validating function, with the comparisons of the code and in its grouping. A hash is the content it covers, so "the hashes are equal" is equality of what they cover, and *what a hash does not cover is
free*: two windows of the same shape have the same anonymous market and the same input, as they do in the code. `DecisionReplay` lets its callers combine any call, Case, input, decision, result, provenance, dataset and policy that exist; only the guards of the
contracts keep them together. In `Decide` the input a decision names, the bars and the Doctrine it is validated against come from different hands too, since the validators compare none of them; `shown` remembers those bars, which the code keeps in the hash of the validation's context. A bar is its four prices, checked as `validateOhlc` does, its sequence, its continuity and whether it is closed. Prices are whole numbers of ticks and a normalised price is rounded down; the rounding of floating point is in `MultiTimeframe`.

### MultiTimeframe
Time counts five-minute intervals. The feed is external: `Fetched` says how bars of a timeframe looked at an instant, with the newest interval each one knows (`newest`), which the code cannot see and `NothingPastTheCutoff` is about.
`Assemble`, `Offer` and `Answer` are the three contracts. `Rounded` is division with round-to-nearest-even in a significand of `Precision` bits, so the scale `100 / base` is rounded once and `NormalizePrice` rounds again.

### CaseCharts, CaseIntake
`Picture` is what an image shows, and names its file; bar identifiers are not drawn, so equal windows share a file, as content addressing has it. `CaseCharts` holds the renderer's, the metadata's and the bundle's checks.
In `CaseIntake` a command is at a `step`, and `busy` between the two halves of it (a file created but not written, a request sent but not answered). `CheckBundle` is what the route does before the store is called, `AppendBundle` the transaction of five
inserts. `InsertImmutable` is `insertImmutableRecord`: `ON CONFLICT DO NOTHING`, then the rows that share *any* identity, which must be the one row itself. `StopCommand` and `StopServer` end a process between any two steps;
a request outlives its command. A fixture is what a command may be given; the routes accept any authorised bundle, so there are several, of one or of different Cases.

## 3. Runs

| Run | Instance | Shows |
| --- | --- | --- |
| `ingestion` | 2 sessions, 3 units (2 allowlisted, 1 in the fixtures), 1 attempt index | ingestion implements the ledger; replies of success are stored |
| `activation` | 2 units, 2 attempts, 2 reasons, 5 sequence values, 3 connections | linear, causal, eligible authority |
| `retrieval` | 2 requests, 2 questions, 2 sequence values, automatic index, fair requests | answers are audited against the authority of that moment; every request is answered |
| `assembly` | 2 Cases, 1 unit, 2 attempts, 3 sequence values, 2 connections, the 4 outcomes of measuring | terminals and payloads follow the authority; one verdict per Case and activation |
| `locks` | 1 preparation, 1 retirement, 2 activations of the Doctrine log, 1 of the package log, 2 attempts each, fair | a deadlock of two activations is broken, nobody waits for ever; the authority stands still under a lock |
| `review` | 1 Case, 2 verdicts, 2 final reviews, 2 handlers | blindness, stages, committed reveals are honoured |
| `migrations` | 3 images (an old one, its successor, a fork), 1 lost connection, fair | schema and ledger agree; a completed image stays ready; refinement; completion |
| `provider` | 2 calls on one base, 2 artifacts, 8 fixture modes, caps of 1 byte, fair | nothing outlives its call; whole responses; limits reported; every call ends without a directory |
| `discovery` | 6 bars of history, 4 more of 5 shapes, 3 history lengths | cooldown, escalation, admission, repeatability, mirror symmetry |
| `replay` | 2 streams, the live one with 3 bars, 3 shapes of windows, 1 Case identifier, 8 responses, 3 calls | schedule, audit, decision and replay use nothing before its time |
| `mtf` | 2 feeds of 6 intervals with gaps, bars of 1, 2 and 4 intervals, 144 responses | nothing past the cutoff; no plan on missing data |
| `intake` | 2 commands at once, 3 in all, 7 fixtures of which 1 cannot be built and 1 is not authorised, 1 stop | stored charts can be served; reports are true; reruns are harmless |

The properties of each run, each stated and explained where it is defined:

* `ingestion`: `SuccessRepliesAreStored`, `ImplementsLedger`.
* `activation`: `RollbackCausality`, `RollbacksDoNotFork`, `RollbackRetriesCollapse`, `AuthorityAdvancesEligibly`.
* `retrieval`: `AnswersAreAudited`, `EvidenceBindsLatest`, `RequestsAreAnswered`.
* `review`: `CommittedRevealsAreNeverRefused`, `BlindUntilFrozen`, `ImplementsStages`.
* `assembly`: `OneVerdictPerActivation`, `TerminalsFollowAuthority`, `IneligibleEndsAssembly`, `PayloadsFollowTerminals`.
* `locks`: `LockedAuthorityStands`, `EveryRequestEnds`.
* `migrations`: `SchemaIsLedger`, `CompletedIsReady`, `ImplementsHistory`, `BootstrapsComplete`.
* `discovery`: `ThreadsStayQuiet`, `FailureIsReported`, `RepeatsAgree`, `AdmissionsDoNotOverlap`, `SidesMirror`.
* `provider`: `NothingOutlives`, `ResponsesAreWhole`, `LimitsAreReported`, `EveryCallEnds`.
* `replay`: `PlansQuoteTheMarket`, `NoFutureReachesTheModel`, `ReplayIsCausal`, `CallsFollowTheStream`.
* `mtf`: `NothingPastTheCutoff`, `PlansAvoidGaps`.
* `intake`: `StoredChartsAreServable`, `ReportsAreTrue`, `RefusalsAreExplained`.

**Why the bounds are enough.**
* *Ingestion.* The hazards are pairs: two sessions on one identity, a session against the lifecycle. Two sessions reach both. One unit in the
  fixtures, one allowlisted beyond them and one not allowlisted give every way a projection can be accepted or refused. The proofs remove the bound.
* *Activation.* Five values hold two standard activations, a rollback, a second rollback racing it and an aborted draw. Three connections
  allow three rows in flight. Five values are the smallest number at which every mutant of `PROJECT.json` is caught.
* *Retrieval.* Two values hold two standard activations, so the authority can move between the two transactions of a request or close by a retirement there; two requests race one repeat index. A rollback needs a third value, which liveness over two requests
  does not allow within minutes: to a request it is one more change of the authority, and the log's own races are checked by `activation`.
* *Assembly.* Three sequence values hold two standard activations and a rollback to the first. Two Cases are needed because the properties
  compare terminals of different Cases; they are symmetric.
* *Locks.* Five transactions hold every pair of conflicting locks, the chain of two locks in a preparation and the upgrade of two inserts. Two attempts let a retry meet locks that were
  not there before; the code has three. An assembly locks as a retirement does and reads as a preparation does; with it the run exceeds its time, and it is left to the proofs.
* *Review.* Cases share no row, so one Case is enough for the tables; the queue's failure is a
  consequence of one Case's. Two handlers hold every pair of racing commands, and a lost answer returns a handler to
  service, so retries of any length occur.
* *Migrations.* Races are between two images that read one ledger; the third is the one that finds the result. The fork differs from the second migration on, which gives a common prefix, a conflict at an order and a ledger that is longer
  than an image's own sequence. One lost connection falls on every await, COMMIT included. The proofs remove both bounds.
* *Provider.* With a cap of one byte a mode prints less than the cap, exactly it and one more. Two calls on one base are the contention for the flag and the directory. A group is a leader and one descendant, plain or resistant: the kill reaches a group as a whole.
* *Discovery.* The window constants are scaled down (20 to 2, 8 to 3, 40 to 6, 120 to 8, cooldown 6 to 2), keeping their order, on which `EngineAssumption` insists. Four bars after the history of six hold a breakout, its failure, the cooldown and its end. The shapes
  break out, come back, touch an edge exactly, span both sides, follow a gap, and close above their own high. The proofs of cooldown, admission, failure, repetition and symmetry remove the bounds.
* *Replay.* Windows of two and three bars are left-censored and full (`DetailBars` 2, `ContextBars` 3). The second stream begins with the shape of the first at twice the price, so inputs coincide, and goes on after a gap with a window of another shape and the same length, so that a decision may name one input and be validated on the bars of another. The live stream repeats a bar identifier. Records combine in pairs, and each pair occurs.
* *Multi-timeframe.* Six intervals hold a completed and a forming bar of each reference before and after the cutoff, and a gap inside and outside of them. Thirteen bits of significand make multiples of seven and eleven round as 53 do. One Case per behaviour, since a Case is read by nothing but its own input.
* *Intake.* Two commands race each step; a third runs again what one of them left. The fixtures are the pairs the store's identities can confuse: another stream that looks alike, a reused Case identifier, a second input, another review of one decision, wrong charts, no authority. One stop falls on any step. `MaxCommands` and `MaxStops` are the only bounds.

**Deadlock** is checked for ingestion, the review, the locks and the migrations. The other models stop when a bound is used up (sequence values, bars, calls, commands, one Case) and everything asked for is
answered, so there the check is off; where ending is a promise (`RequestsAreAnswered`, `EveryCallEnds`, `BootstrapsComplete`, `EveryRequestEnds`) a liveness property says so.

**Fairness.** `FairRetrieval` asks only that a submitted request keeps taking its own steps: the runner makes at most three attempts, its delay is a timer, and every await has
a failing continuation. Nobody is obliged to submit. `FairLocksSpec` of
`AuthorityLocks` asks weak fairness of each transaction's own steps, since statements end and PostgreSQL grants a free lock, and of the deadlock detector, which runs after `deadlock_timeout`. No other abort is obliged to happen: the code sets no `lock_timeout`, so a circle of
waits other than that of two inserters would last, and `EveryRequestEnds` says there is none. Without the detector TLC finds the two activations waiting for ever. `FairSpec` of
`MigrationRunner` says that statements end and that an operator whose bootstrap failed runs it again, which is what the deployment document asks; connections are lost at most `MaxFaults` times. `FairSpec` of `ProviderCall` says that the event loop runs what is ready, that both
timers run out, that the system delivers bytes and signals, and nothing of the fixture: it may hang for ever. Symmetry is used only for invariants and box properties, never with liveness.

### Where the code and its documents disagree
1. *A failed run answered as inserted.* `Persist` runs `INSERT .. ON CONFLICT DO NOTHING` and answers the row it meant to write. When another session wrote a succeeded run first, the operator
   holds a failed run the database does not. The Phase 4A contract says a conflicting natural identity is rejected.
2. *No replacement after retirement.* The quality suite accepts exactly the pilot units. When one is retired no snapshot can pass, so retrieval stays closed, although the contract tells the operator to activate a clean replacement.
3. *Two terminal records.* When the answer to COMMIT is lost the catch block appends failed evidence beside the matched one.
4. *A refused exact retry.* `appendIndependentAssessment` looks for a review before it looks for the same assessment, so the retry of what is stored is answered with a conflict.
5. *A superseded activation is bound.* An assembly, or a preparation, fixes its snapshot with its first statement and is then kept waiting for the table lock by an activation that is about
   to commit. When the lock is granted, service and trigger still read the older log (as the activation's trigger reads the retirements of its own snapshot): "Policy Assembly must bind the current activation" holds of the snapshot, not of the log at commit. There is a single
   read-write dependency, so serializability gives PostgreSQL no reason to abort.
6. *A valid Case is refused.* `normalizePrice` (`brooks-multi-timeframe-input-v1.ts:1285`) multiplies a price by the rounded `100 / base`, and the check of the market wants the first close to be exactly 100. For a base of 11, 22, 39, 44, 78, 83, 88, 91 or 97 the product is not 100, and the
   input of a valid Case is refused. `docs/contracts/PHASE3D_VERSIONED_BROOKS_MULTI_TIMEFRAME_CAPABILITY_V1.md:264` says the first close remains exactly 100. `MultiTimeframe` computes it; feeds in its run start at powers of two.
7. *Ambiguity of discovery.* The factor contract (`docs/contracts/DISCOVERY_FACTOR_V1.md:406`) rejects opposite premises of one bar as ambiguous; the code can emit candidates of both sides when their groups differ.
8. *A classification that is not kept.* A comment at `provider-process-supervisor-v1.ts:140` says a signal that fails leaves the status `transport_error`; signals are sent only after a limit or a timeout, and the code answers that.

Each was met while the models were written. The first, second, third and fifth follow from definitions above (`Persist`, `SuiteCovers`, `ExecuteBreaks`, `Begin`), the fourth from `AssessConflicts`, the others from
`NormalizePrice`, `CoreHits` and `TerminalStatus`. The runs state what does hold.

### Observations
None of these contradicts a document; each is a behaviour of the models that a reader may not expect.

* *Activation.* A standard activation that draws its number early and inserts late commits below the current one: it is answered as inserted and never becomes current; the documents define the current activation as the highest committed sequence, which is what
  `AuthorityAdvancesEligibly` is about.
* *Assembly.* A Case can keep a success and `ACTIVE_CORPUS_INELIGIBLE` under one activation, when it is asked for again after a retirement; `OneVerdictPerActivation` says exactly which pairs can coexist.
* *Provider.* The second kill comes only with a timeout or an output limit: a descendant of a process that exits by itself is left running. A crash of the lab process orphans the detached group. The base is checked before the directory is made, so two callers of one base can both pass.
* *Discovery.* The identity of a candidate does not cover its context: evaluated again with more history it may return with another context state. A breakout and its escalation are admissible at once, which `AdmissionsDoNotOverlap` excepts.
* *Schedule and replay.* A late bar is stale and never scheduled. A schedule state is a value: who resumes an older one gets the same calls again. A frozen result names a call and a decision, and no run or audit binds the two; a bundle's identity covers neither stream nor bar of a result. A
  decision made on another window of the same shape under the same Case identifier is accepted: `NoFutureReachesTheModel` and `ReplayIsCausal` hold because the market is then the same too. `createBrooksDecision` and the offline validators check the form of `inputHash` and never compare it with the
  bars or the Doctrine handed in beside it, and no later contract reads the validation's context: a decision may cite prices of a window it does not name and still be replayed, which is why `PlansQuoteTheMarket` speaks of the bars that were shown. A provenance's interval is not compared with the dataset it names.
* *Charts.* The policy inputs compare a chart with the market by bar identifiers, which are positions; an image is compared with nothing but its own hash. The deployment's allowlist is what keeps a wrong image out.
* *Intake.* A second authorised bundle of one Case with another input is refused with `IDENTITY_CONFLICT`: `sql/0007:3-4` makes the Case unique among the bindings, so the answer "ambiguous" of the reads is never given (`RefusalsAreExplained`). A chart file left half-written blocks every later command that draws the same picture. A command that
  meets a file still being written by another fails, although nothing is wrong.
* *Multi-timeframe.* The duration of a finished reference bar is not checked, and a provisional bar is not compared with the five-minute bars it covers. The claims of a plan (`collectPlanClaimIds`) do not include those of its side's setup and signal, which is why `PlansAvoidGaps` speaks of the former.

## 4. Proofs

Every theorem is of the form `Spec => []P`, `Spec => [][A]_vars` or a refinement, and holds for every value of the constants that satisfies their assumptions. Each proof has the same
shape: an inductive invariant, one step per action of the next-state relation, and under it one step per conjunct the action can disturb. Every safety invariant, action property and refinement the runs check is a theorem.

**`CorpusLedgerProofs`.** `LedgerSafe` proves `LedgerInv`: types, one run per natural identity, grounded runs. Its lemmas about ledger steps are what the next two build on.

**`DoctrineIngestionProofs`.** `IngestionSafe` proves the inductive invariant `TypeOK /\ RebuiltIsGrounded /\ OneRunPerAttempt /\ RunsAreGrounded /\ SuccessRepliesAreStored`. From it follow
`RunsAreUnique`, `SuccessRepliesHold`, `OutcomesStay` (no step changes a recorded outcome) and `IngestionRefinesLedger` (the specification implements `LedgerSpec`). `RebuiltIsGrounded` is the strengthening: `Persist` writes a
snapshot it read two awaits ago, and it is a ledger step only because that snapshot was buildable and approved then, and approval is never withdrawn. Without it neither `RunsAreGrounded` nor the refinement is preserved.

**`CorpusAuthorityProofs`**, everything that rests on the activation log.
* *The log.* `ActivationSafe` proves `ActivationInv`, which is `LedgerInv` with types, distinct sequences, linear rollbacks, one standard activation per run, and `RowsAreCausal`. The last is the strengthening: a rollback is checked when it begins
  and inserted later, so causality of the log needs it of the rows in flight, which already name rows of the log. From it follow `HistoryIsCausal`, `HistoryIsLinear`, `RetriesCollapse` and `AuthorityAdvances`.
* *Assembly.* `AssemblySafe` proves `AssemblyInv`, which adds that every activation's run had passed (`ActivationsPassed`), that every terminal names 0 or an activation of the log (`TerminalsAreNamed`), and that the reason for each terminal still holds
  (`TerminalsAreTrue`: a unit of that snapshot is retired, or the pilot is too large, or there was no activation). Comparing two terminals is then comparing reasons that cannot hold together: `VerdictsAgree`, `TerminalsAdvance`, `IneligibleIsFinal`.
  `PreparationOnlyReads` shows that preparation implements the assembly specification, which carries the invariant over to `PreparationFollows`.
* *Retrieval.* `RetrievalSafe` proves `RetrievalInv`, which adds to `ActivationInv` that a row of evidence names an activation of the log by sequence *and* snapshot and that no two rows share a repeat identity (`EvidenceIsNamed`). The second half is the unique repeat
  identity: the insert is a plain one, so `Record` is refused when the index is taken, and whoever is answered has written its own row. From it follow `AnswersStandInEvidence` and `EvidenceIsCurrent`.
* *Locks.* `LocksSafe` proves types and `HoldersAreAlone`: beside a transaction that holds the Doctrine lock, whichever way it took it, none has inserted. `LocksTyped` and `AuthorityStandsUnderLock` follow for any transactions, assemblies among them, and any number of attempts.

**`BlindReviewProofs`.** `ReviewSafe` proves `ReviewInv`: rows appear in the order of the workflow (`RowsInOrder`), whatever was shown was shown under a receipt (`ShownUnderReceipt`), what a handler committed is kept
(`CommittedIsKept`), and a conflict, once it is one, stays one (`ConflictsAreFinal`). From it follow `BindingsAreComplete`, `OnlyBypassesFail`, `CommittedRevealsStand`, `VerdictIsBlind` and `ReviewImplementsStages`, the refinement of `ReviewStages`.

**`MigrationProofs`.** `MigrationSafe` proves `MigrationInv`: the ledger is the beginning of one image's sequence (`LedgerIsOne`), a deployment that applies has its own prefix in the ledger (`WalksItsSequence`), what precedes the read has committed (`RolesComeFirst`). The second is the
strengthening: without it an insert at a free order could leave a gap. From it follow `SchemaFollowsLedger` and `CompletedStaysReady`, for any images and any number of lost connections, and the refinement `BootstrapImplementsHistory`: the ledger read back in its order is the history of `SchemaHistory`,
only `Apply` moves it, and it moves it by the next migration of one image.

**`ModelCallProofs`**, a model call from both ends.
* *The process.* `ProviderSafe` proves `ProviderInv`. The answer of a call is computed once, at `Settle`, from what the group left behind; `AnswerStands` says it is still what would be computed. That needs that nothing it was computed from changes later: no process starts before its call runs or after its leader is gone
  (`StartsOnce`, `ExitIsExplained`), the caps are known to be exceeded exactly when they are (`LimitsAreKnown`), and one call is inside the supervisor at a time (`OneAtATime`). From it follow `CallsAreSerialized`, `GroupsAreEnded`, `LimitsAreExact`, `ResponsesAreComplete`, for any number of calls, any caps, any modes of the fixture.
* *The records.* `ReplaySafe` proves `ReplayInv`: the schedule is ahead of every continuous call (`ScheduleHolds`), a frozen result names an issued call (`ResultsHold`), an accepted decision cites prices of the bars its validator was shown (`QuotesAreShown`), and the two invariants of the run. Each contract compares contents, and each comparison carries one fact further: `WindowsShowTheStream` (a valid window
  is a stretch of its stream, whose last bar is the latest it knows), `CoverageFollowsTheCase` (the replay's range begins after it, on the same stream). `AuditsSeeNoFuture`, `ReplaysFollowDecisions` and `CallsKeepTheOrder` follow for any market and any mix of records. `PlansQuotePrintedPrices` says, of any window that looks like those bars, how far a
  cited price is from a printed one when the normalisation rounds: less than one unit of the normalised scale. Attempting it showed two things the small instance had hidden: the price of a limit entry has no anchor and is bound to nothing (`Cited`), and exactness needed a first close that divides all prices.

**`MarketDataProofs`**, what is read off market data.
* *Discovery.* `CooldownHolds` and `AdmissionsAreApart` hold for any bars, any history and any order of evaluation. The invariant adds to `ThreadsStayQuiet` that an escalation follows a candidate of the bar before it, and that candidates name bars that exist. The detectors are left abstract there: the cooldown does not depend on them.
  They are opened for `FailuresAreReported`. Its invariant adds `BreakoutsAreReal`, itself a theorem (`BreakoutsAreOfTheirBar`): a reported breakout broke out of the range of the bars before it *in the stream*, not only in the history the caller happened to supply. The lemmas `CutOfCut`, `RecentOfCut` and `RangeIsOfTheStream` show that range independent of the history, so the next evaluation computes the
  failure from the same edge whatever it was given, and finds its predecessor.
  `EvaluationsRepeat` puts two evaluations of one bar with different histories side by side: both see the same range and the same range before the previous bar, the same legs a pullback may return to (`PullbacksAreOfTheStream`), the same bars before the event (`ContextsAside`) and the same candidates a cooldown or
  an escalation asks for (`MemoriesAgree`). Each of them needs the minimum history to reach back far enough: beyond the window and the span of a pullback, that span and two bars, the lookback, the cooldown and one bar. That is what `EngineAssumption` says of the constants, and the code's (40 against 28, 10, 3 and 7) satisfy it.
  `SidesAreMirrored` turns the bars upside down: the range of the flipped bars is the opposite one (`MeasuredMirror`; its median is that of the same spreads), so each detector finds on one side what it found on the other (`BreakoutMirror`, `FailedMirror`, `BoundaryMirror`, `PullbackMirror`, `MagnetsMirror`), and `dedupeHits`
  hides a hit when it hides its reflection (`MergeMirror`). It holds of the bars that `isValidOhlc` accepts and of no others: with a low above its high a range can be broken on both sides at once, and then the upper side is asked first. That refusal had been left out of the model, and one shape of the run (`Crooked`) now meets it.
* *Multi-timeframe.* `TimeframeSafe` proves that a verdict was assessed on the input, the input is the market of the Case, and no bar of the Case knows more than its cutoff. From it follow `CasesEndAtTheCutoff` and `PlansRestOnData`, for any feeds and spans. The lemma behind the first, `FetchedBarsAreKnown`, is an induction over the feed, which is
  done by its least counterexample: `LeastNatural` derives a least element of a set of naturals from the well-foundedness of `<`, which needs no operator as a parameter.

**`CaseProofs`.** `IntakeSafe` proves `IntakeInv`. A request was sent when something was stored and is answered later, so the invariant says what a request in flight may count on (`StoredBefore`, `RequestHolds`: tables and whole files only grow) and that a command waits for its own request only (`RequestsAreAwaited`). Bindings are unique per Case, decisions and reviews per input
and per decision (`BindingsAreOne`, `DecisionsAreOne`, `ReviewsAreOne`), which makes the audit a command reads its own. From it follow `ChartsAreServable`, `AuditsAreTrue` and `RefusalsStandExplained`, for any fixtures, commands and stops.

The assumptions on constants are named beside their declarations, and TLC evaluates each in a passing run. Most give a constant its type. Those with more to say:
`EngineAssumption` keeps the order of the discovery windows; `IdentityAssumption`, `NoneAssumption`, `NoRunAssumption`, `IntakeAssumption` keep absence apart from values; `MarketAssumption` says the bars of a stream are numbered in the order they close, in whole ticks; `MultiTimeframeAssumption` that a five-minute bar is one interval and no span is empty;
`MigrationAssumption` that an image carries a migration.

Out of the prover's reach and left to TLC: liveness (`RequestsAreAnswered`, `EveryRequestEnds`, `EveryCallEnds`, `BootstrapsComplete`) and ENABLED. Two invariants are proved and not run, because a stronger statement is run beside them: `OneRunPerAttempt` and `RunsAreGrounded`
are parts of the invariant behind `ImplementsLedger`, `BoundReviewsAreComplete` of the one behind `ImplementsStages`.

## 5. Not modelled, and why

* PostgreSQL's conflict detection: a transaction is taken at its place in the serialization order, and `AuthorityLocks` has snapshots and locks where that order differs from the order of commits.
* Record shapes, recomputed hashes, canonical serialization, authentication, schemas, static files, pixel layout, React views: no property here tells their values apart.
* Lexical ranking and vector text: a question matches a set of units.
* Chart artifacts of an assembly: their bytes are validated before anything is written, and a failure of it is a failed transaction.
* Package rollback, which the approvals table makes impossible, and the sequence of the package log, which has one row.
* Invocation profile, request envelope and terminal evidence of a provider call: field checks and hashes without state.
* Loopback gateway and server: socket and configuration I/O. CLI commands other than `seed-synthetic`: one request, the beginning of `seed-synthetic`, or one request per pilot proposal, none of which reads an earlier answer.
* The research console: views over the work item; the tabs it opens are the handlers of `BlindReview`.
* Usage and cost of a model run audit; the priority with which one of several discovery candidates is called best; volume of bars. No caller of the discovery engine is in the repository, so `DiscoveryEngine` brings the most general one.
* Transport schemas and their generator: generated from types, without behaviour.

## 6. Plan

Done, in this order, because each composes with those before it: `CorpusLedger`, `DoctrineIngestion`, `CorpusActivation`, `DoctrineRetrieval`, `ReviewStages`, `BlindReview`, `PolicyAssembly`, `PreparedPayload`, `AuthorityLocks`, `ProviderCall`, `SchemaHistory`, `MigrationRunner`,
`DiscoveryFactors`, `DiscoveryEngine`, `BrooksDecision`, `PolicyInput`, `ModelCallSchedule`, `DecisionReplay`, `MultiTimeframe`, `CaseCharts`, `CaseIntake`, and the proofs of section 4.

What a team that goes on would add, in order: a module that derives the serialization order from read and write sets, with the constraint-based retries of `runPgTransaction`, of which the stores' actions would then be a refinement; the parts of section 5 that gain behaviour (a package log of more than
one row, the parallel supervisors of a second process); and, when another prover is at hand, the liveness properties that are left to TLC.
