# durable-phases: a TLA+ development

durable-phases runs workflows that are explicit state machines.  A workflow *instance* is always at a
*checkpoint*: a phase, its data, and the *waits* that may wake it (run now, a timer, a signal, the
outcome of a child).  When a wait becomes ready the engine makes a *task*; a worker that leases the
shard of the instance claims the task as an *activation*, runs the handler, and commits the next
checkpoint.  Everything the user is promised - a checkpoint is written once, a signal is consumed once
and together with a checkpoint, a completed activity is not run again, a run is never forgotten - has to
survive leases that expire, workers that crash, calls that come late and handlers that run twice.

This directory holds TLA+ modules of that machinery as the Rust crate implements it, TLC models of it, and
TLAPS proofs about it.  Below, `lib.rs`, `sqlite.rs` and `postgres.rs` are the files of
`src/crates/durable/src`; other paths are relative to the repository.

## 1. Inventory

| Component | Source | State it keeps | Operations | What makes it correct |
|---|---|---|---|---|
| Instances and runs | `lib.rs` 1090-1190, 4816, 7503-7545 | `instances` with waits, sequence, version, parent | create_instance, reuse and conflict policies, delete_instance_records | one running run per id; a run advances one checkpoint at a time |
| Signal inbox | `lib.rs` | `signals` with idempotency keys, wait cursors | append_signal, start_send_signal, consumption by a checkpoint | a key is one signal; consumed once, with a checkpoint; a future wait keeps its place |
| Ready tasks | `lib.rs` | `tasks`, their order by ready time | insert_task, delete_task, the refreshes, replace_tasks, next_wake_at | a ready wait has a task, a task has a reason |
| Shard leases, activation claims | `lib.rs` | `shard_leases`, `claimed_sequence_epochs`, the owner of each task | claim_shard, heartbeat, release, claim_tasks, release_activation, assert_activation_claim | an epoch has one owner; late owners are refused; claims are not lost |
| Checkpoint commit | `lib.rs` 1765 | all of the above | commit_checkpoint, the conflicts it answers | all or nothing; one commit per sequence |
| Children | `lib.rs` | `children`, the parent of an instance | buffered and eager starts, cancel_child, close policies | record and instance agree; the outcome is delivered once; nothing stays open under a stopped parent |
| Effect ledger | `lib.rs` | `effects` of an instance | reserve, heartbeat, complete, fail, expiry, record_activation_failures | only failures spend attempts; only the live attempt settles; retries wait |
| Migrations, versions | `lib.rs` | versions of instances, migration tasks | refresh_migration_tasks, claim by version | no way back in a deployment |
| Handlers, worker loop | `lib.rs` (DurableContext, DurableRuntime) | what an execution buffered, the batch in hand | activities, child calls, run_worker, run_shard_step | claims end in a commit or a release |
| Shard router | `lib.rs` (ShardRouter, ShardActor) | actors, registry, directory, cache | ensure_actor, reset_from_store, split and merge of stores | one store per shard; a cache that is not behind |
| SQLite provider, journal | `sqlite.rs`, `lib.rs` (JournalOperation) | snapshots, journal | catch up, apply, append; replay | what was answered is in the journal, and the journal loads |
| Postgres provider | `postgres.rs` | partitions, head rows, the global write lock | the same, between processes | reads are current; an answer is durable |
| SQLite shard-file provider | `sqlite.rs` | one SQLite provider per shard | dispatch by shard | as SQLite |
| Definition API, macros | `lib.rs`, `src/crates/durable-macros` | none at run time | types, wrappers | - |
| Null provider, benchmarks, examples, tests | `lib.rs`, `bin/benchmark.rs`, `examples` | - | - | - |
| TypeScript and Go implementations | `src/src`, `src/go` | the same tables | the same calls | the same promises |

How they interact: clients call the provider (`start`, `signal`, `signal_with_start`); workers call it too
(claims, the ledger, commits).  A call goes through the router to the actor of its shard, which runs one engine
operation to its end before the next; the SQLite and Postgres providers first load the store from snapshot and journal,
and append the operation after it.  Inside the engine there is no concurrency: all of it is *between* calls, because a
handler makes several, and while it runs leases end, shards move, signals and child outcomes arrive and its own
activation is handed out again.  In the router and the providers a call itself has several steps between
which others run: a registry is unlocked, a store is read partition by partition, a transaction waits for a lock.

What is hard here: late and repeated calls; two activations of one sequence in two hands; claims that
outlive a lease, a worker or a rebuilt task; two records that must agree (task and wait, child record and
child, marked sequence and claim, effect and attempt); clocks read by the caller; a tree of children closed
by one commit; workers of two versions; a journal of operations that are applied again under other checks.
`PROJECT.json` lists each under "hazards" with its line.

## 2. Modules

| Module | What it is |
|---|---|
| `ShardTypes` | the parameters with their assumptions, the engine's records, inputs, and pure functions |
| `ShardTables` | the engine's `Store` as one record `db`, and its helper functions as operators from tables to tables: tasks and their refreshes, signals, runs, children, closing a tree |
| `ShardEffects` | the effect ledger: expiry, reservation, failure, release |
| `ShardEngine` | the state machine: one action per provider call and per step of a worker |
| `ShardProperties` | the type invariant, the safety and action properties, the refinement of `DurableRuns` |
| `DurableRuns` | the abstract specification: runs that advance by checkpoints and an inbox, without shards, leases, tasks or workers |
| `ShardLiveness` | the environment and fairness of a worker loop, and what then eventually happens |
| `ShardJournal` | the engine behind the SQLite provider: every operation is applied to the live store and, if it is recorded, again to the store that loads compute |
| `ShardProviders` | the router in memory (actors, registry, directory, cache) and over Postgres (catching up, the transaction), with an engine reduced to runs, signals and checkpoints |
| `MCWorkflows`, `MCClaims`, `MCMailbox`, `MCChildren`, `MCEffects`, `MCLiveness`, `MCJournal`, `MCProviders` | small instances: the workflow definitions and callers TLC runs |
| `ShardTableProofs`, `ShardEngineProofs` | lemmas about the table operators; types, claims, fencing, keys, marks, forgotten claims |
| `ShardWakeUpProofs` | waits and tasks: no wake-up is lost and no task outlives its reason; what each kind of step makes of the runs |
| `ShardRunProofs` | what a user relies on: commits, signals, outcomes, closing, versions, the waits and runs of an id, and the refinement of `DurableRuns` |
| `ShardEffectProofs` | the ledger: who may complete an activity, that a completed one stays, what spends attempts, and that retries wait |
| `ShardChildProofs` | runs and their records, and the keys of starts |
| `ShardJournalProofs` | the journal: it can be replayed, and what was answered is in it |
| `ShardProviderProofs` | the Postgres processes: what a caller was told is stored, and a read is current |

State and code of `ShardEngine`:

* `db` holds the maps of `Store`: `inst` (instances by workflow id and run id), `tasks`, `claimed`
  (claimed_sequence_epochs), `signals`, `children`, `effects`, `completed` (the accepted commits).  The
  index by ready time is derived and left out; where its order decides, the model uses the order.
* `leases` is the lease of each shard; `sessions` the epoch of each shard session a worker has open.
* `held` is what workers have in hand: the activations a claim call returned and that have not been
  committed or released, with what the execution remembers (buffered starts and failures).  A claim in
  hand is *running*, *refused* (its commit was) or *forgotten*: `run_worker` has returned an error and dropped it.
  `attempts` are the activity attempts that execute.  Both live outside the provider and vanish with a `Crash`.
* A call carries `now`, the instant its caller read before making it: one of the last `Lag` + 1.  A commit carries
  the instant at which its handler ended, as `prepare_activation_commit` does.
* A handler is the calls it may make, in any order: reserve, heartbeat, complete and fail activities, buffer,
  start and cancel children, and one commit, an error, or nothing at all.  What it decides (next phase, waits, end) is any
  of the `Results` the instance allows.
* A worker may have several loops, each with a batch: `examples/custom-runner.rs` shares a worker id among
  loops.  `ClaimLimit` bounds what a worker has in hand, a superset of one loop's prefetch.  The commits of
  a batch are separate steps here, since the engine applies them one by one; as one call they are in `ShardJournal`.
* `release_claimed_activation` releases the claim, then the shard session.  A refusal that can be retried leads to a
  release; one that cannot (`existing_child_instance`) ends the loop.  `record_activation_failures` is an action of its own
  because the provider offers it, although the runtime sends the failures with the commit.
* Wait names, payloads, results and errors are identities.  Ids are numbers, ordered as the code orders
  their strings as long as they have one digit.  `ActivationRunOutcome::Skipped` is never constructed and left out.

`ShardJournal` extends this with `kept` (the store a load computes), `loads` (whether it can) and `answered`
(the checkpoints whose workers were told of success).  An entry is an operation and not a change, so every action applies its
operation twice: to `db` with the checks of the session, to `kept` with those of `apply_journal_operation`.  A snapshot
makes the live store the kept one.  A worker that crashed is one that does nothing more.

`ShardProviders` has the steps of a call as actions (`calls` holds the stage of each).  `journal` is the sequence of entries
by global id, `snapshot` the latest one, `writer` the holder of the global write lock; `actors`, `engines`, `initial`,
`directory` and `cache` belong to each process and vanish with it; `told` is what callers were told.

Some definitions have a sibling whose comment begins with "Mutant": a plausible bug in the same code.  The
properties are run against these siblings too, to show that each would notice.

## 3. What is checked

All runs are exhaustive on their instance.  None checks deadlock: the clock and the
counters are bounded, and a system whose runs have all ended really has nothing left to do.

| Run | Instance | Question |
|---|---|---|
| `claims` | one run (run, then timer and signal), 2 workers of versions 1 and 2, one may crash, the handlers of the other may fail, clocks 1 apart, 2 activations per worker (115 k states) | whatever expires, is taken over, crashes or comes late: is a sequence committed once, by the worker that has the task; does no task, mark, claim or wake-up get lost; does no commit go back a version |
| `mailbox` | three runs of one id that begin in order, 3 signals through both calls with and without keys, mailbox and future waits, replacement by terminate_existing (217 k) | is no signal lost or taken twice, does a key stay one signal, does a future wait keep its place, has the id one running run, and do the engine's steps implement `DurableRuns` |
| `children` | a parent, two children, a grandchild; buffered and eager starts; handlers that fail; complete, cancel, close with cancel and abandon (90 k) | do record and child agree, is a start repeated by a second execution answered by the first, is the outcome delivered once, in the step that accepts the checkpoint it woke or that stops the parent or a run above it, is nothing left open under a stopped run; refinement again, over trees |
| `effects` | one activation, an eager activity with both timeouts and a checkpoint activity, 2 workers, signals that rebuild the tasks (564 k) | are attempts spent by failures only, whatever is lost, replaced or late; does a retry wait, can a late attempt settle, does a completed effect stay |
| `liveness` | timer and signal, 2 workers, one may crash | is every due activation eventually executed, every receivable signal consumed |
| `journal` | one run with a signal and an eager activity, 2 workers, commits sent one by one (468 k) | is every answered checkpoint in the store that a load computes; does the journal always load |
| `providers` | 2 Postgres processes that may crash inside a call, one run, a snapshot every 2 entries (384 k) | does a read return the latest committed run, is nothing forgotten that a caller was told |
| `fenced`, `forgotten`, `batch`, `lost`, `reads` | as above | five statements of `SPEC.md` the code does not keep: section 6 |

Bounds and why they suffice.  `MaxTime` and the leases (1 or 2 ticks) let a lease and a task claim
end, be renewed and end again within a run.  `MaxEpoch` 2 is a takeover; `liveness` needs 3, a takeover, a crash and one
more.  `MaxSequence` 2 is a checkpoint that re-arms waits and one that follows.  `MaxSignals` 3 puts an unkeyed
signal beside two keyed ones.  `MaxChildren` 3 fills a tree of depth two.  `ClaimLimit` 2 gives one worker two
activations of one sequence at once.  `MaxAttemptIds` 2 is an attempt and one that replaces it; ids of attempts that
ended are free again.  `MaxBatch` is 1 in `journal` and 2 in `batch`, where two commits are enough to disagree.  `Lag` 1 in `claims` lets callers disagree about the time; it is 0 elsewhere to keep
the state space small.  The latest run of an id is the one with the greatest `created_at`, an instant of a caller's clock, and of
two of one instant the one with the greater name (`lib.rs` 7509).  A younger run can therefore count as an older one, and then the reuse
policies look at the wrong run: with three run names two runs of an id run side by side, even with `Lag` 0, if three begin in
one instant, and with clocks apart two names are enough.  No document excludes this (listed as a hazard).  `mailbox` leaves out steps that
begin a run no younger than another of its id (`RunsBeginInOrder`) and asks whether that is all that can go wrong.
`SnapshotInterval` 2 with 4 entries gives two snapshots and a tail; in `journal` a snapshot may follow every entry.
`ClientStarts`, `SendStarts`, `Appends`, `CheckpointStarts`, `EagerStarts` are the inputs of one instance, all of which
the client and handler APIs can produce.  `effects` and `journal` use the symmetry of two workers, `providers` that of two
processes: they differ in nothing, and these runs check no liveness.

Most invariants are relations between tables, or between a table and a
worker's hand, that no single operation establishes: `NoLostWakeUp` compares the waits of a run with
the tasks left after a commit, an append, a refresh, a release and a child's end; `OneCommitPerSequence`
counts the accepted commits of a run against its sequence.  `RetryWaits` compares an attempt with the delays of its whole
history.

### Fairness

`LiveSpec` assumes of each worker that is alive what `run_worker` does in its loop: it goes on claiming
shards and ready activations (strong fairness, since another worker holds the shard in between), it finishes
activations it has in hand (strong: a commit may be refused while the claim is gone), it is told when a commit is
refused and then releases the claim (weak); and time passes (weak).  A worker that crashed has no such steps.  `LiveNext`
restricts the environment to what the promise is made for: no handler returns an error, since in the code that ends the
whole loop; no worker is stopped; and a crash comes early enough for its leases to end before the model's clock stops at
`MaxTime` - an artefact of the bound.

## 4. What is proved

Everything below holds for every set of workers, shards, ids and signals, every wait, every input, every lease length, every
retry policy and every bound, under the named assumptions of `ShardTypes` and `ShardEngine`: absent values differ
from real ones, numbers are numbers, inputs have their types, and the waits of one phase have distinct signal types and
children.  The model itself lets a checkpoint buffer at most two starts.  Every module EXTENDS the one before it:
`ShardTableProofs`, `ShardEngineProofs`, `ShardWakeUpProofs`, `ShardRunProofs`, and on this `ShardEffectProofs`,
`ShardChildProofs` and `ShardJournalProofs`.  `ShardProviderProofs` stands alone, as `ShardProviders` does, under the assumptions
named there: each run has a shard, each shard a partition, and a Postgres process has one call at a time.  Every safety invariant
and action property of a passing run is the statement of a theorem.

### Hypotheses

Some theorems speak of callers that behave, and say so in their statement:

| Hypothesis | What it says, and why it is there |
|---|---|
| `RuntimeStarts` | buffered starts ask for `ConflictPolicy::Fail`.  `DurableContext::child_start` (`lib.rs` 7187) sends nothing else; a caller of the provider could |
| `NoSelfStart` | a handler buffers no start of its own workflow id under a policy that may keep a run.  Without it `NoLostWakeUp` is false: section 6 |
| `NobodyTerminates` | no client uses `terminate_existing`, which deletes a run and lets its id begin again at sequence 0; statements about the history of a *run* are about one life of it.  Where it is absent the theorem holds with terminated runs too |
| `OneDurability` | no activity is both eager and a checkpoint activity: `record_activation_failures` overwrites what it is told about |
| `ChildrenAreNew` | as `[][ChildrenAreNew]_vars`: every record a step adds is of a run that was not there, and of one of its own.  A start that keeps a run (`lib.rs` 1976) adds a record that the kept run knows nothing of (a hazard in `PROJECT.json`).  `AlwaysStartsAreNew` proves it of all behaviours if every start asks for `Always`; TLC finds it to hold in the instance of `children`, whose starts ask for `NotRunning`, as `child_start` does by default |
| `KeysApart` | a handler gives no key both to a start it buffers and to one it sends at once.  `child_start` looks for a key among the buffered starts, `create_child_instance` among the records, and a checkpoint writes its records without looking (`lib.rs` 7154, 1192, 1974) |
| `NobodyStartsAlways`, and `[][RunsBeginInOrder]_vars` | nobody asks for a second run beside the first, and a run that begins is younger than the runs of its id: see the bounds in section 3.  The second is about the clocks and is what `mailbox` checks under |
| `Failing = {}`, `CheckpointStarts = {}` | no handler returns an error, and none buffers starts, whose refusal at the commit may be one.  Either ends `run_worker` with claims in hand, and `NoClaimIsForgotten` is false: `forgotten`, section 6 |
| `Lag = 0` | workers read one clock; without it a retry may be early, by no more than `RetryWaitsUpToLag` says |
| `MaxBatch = 1` | commits are sent one by one.  For batches the statement is false: `batch`, section 6 |
| `Journaled`, `Partitions = 1` | the provider is Postgres; all shards are in one partition of the journal.  Without the one `ToldIsStored`, without the other `ReadsAreLatest` is false: `lost` and `reads`, section 6 |

Each run satisfies the hypotheses of the theorems whose properties it checks, but for `mailbox`, which
terminates runs; what it checks does not ask for `NobodyTerminates`.

### Theorems

| Theorem | Statement | Under |
|---|---|---|
| `InvariantHolds`, `TypeCorrect` | `[]Inv`, the first inductive invariant; `[]TypeOK` | |
| `ClaimsAreNotLost` | `[]OwnedTaskIsHeld`: a task owned by a live worker is a claim of that worker, under the same epoch | |
| `CommitsAreFenced` | `FencedByClaim`: a commit is accepted only from the worker that has the activation and to whom its task belongs | |
| `EpochsNameOneOwner` | `EpochNamesOneOwner`: epochs never shrink, and never pass to another owner without growing | |
| `KeysAreUnique` | `[]IdempotencyKeysAreUnique` | |
| `MarksAreHeld` | `[]MarkedSequenceIsHeld`: a sequence marked in the present epoch is in a claim of the live owner, neither committed nor released - but perhaps forgotten | |
| `NoClaimIsForgotten` | `[]` of `QueuedClaimsAreReleased`, `MarkedSequenceIsHeld` and that no claim is forgotten: then no mark keeps a run from every worker | `Failing = {}`, `CheckpointStarts = {}` |
| `WorkHolds`, `WakeUpsAreKept`, `TasksHaveReasons` | `[]WorkInv`; `[]NoLostWakeUp`, `[]NoPhantomTask` | `RuntimeStarts`, `NoSelfStart` |
| `SignalsAreTakenOnce` | `[]SignalsConsumedWithCheckpoint` | the same |
| `ReportsHold`, `OutcomesAreDeliveredOnce` | `[]ReportInv`; `DeliveredOnce` | the same |
| `ClosingReachesChildren` | `CloseReachesChildren` | the same |
| `EngineKeepsItsPromise` | `ImplementsDurableRuns`: the engine refines `DurableRuns` | the same |
| `OnlyLiveAttemptsComplete` | `OnlyTheLiveAttemptCompletes` | the same |
| `FutureWaitsKeepPlace` | `FutureWaitKeepsPlace` | the same |
| `RetryWaitsUpToLagHolds` | `[]RetryWaitsUpToLag`: an attempt is early by at most `Lag` for each attempt so far | the same |
| `RetryWaitsHolds` | `[]RetryWaits` | and `Lag = 0` |
| `FailuresSpendAttempts` | `OnlyFailuresSpendAttempts`: only a failure or timeout of the recorded attempt spends an attempt, within the policy; attempts lost with a claim are free | and `OneDurability` |
| `OneRunningRun` | `[]OneRunningRunPerId` | and `NobodyStartsAlways`, `[][RunsBeginInOrder]_vars` |
| `CommitsAreOnePerSequence` | `[]OneCommitPerSequence` | and `NobodyTerminates` |
| `ClosedRunsStayClosed`, `RunsDoNotGoBack` | `ClosedStaysClosed`, `NoDowngrade` | and `NobodyTerminates` |
| `OutcomesAreDeliveredByCheckpoints` | `ChildrenDeliveredWithCheckpoint`: delivered in the step that accepts the checkpoint it woke, or dropped in the one that stops the parent or a run above it | and `NobodyTerminates` |
| `CompletedActivitiesStay` | `CompletedEffectStays` | and `NobodyTerminates`, `OneDurability` |
| `OneChildIsStartedPerKey` | `[]OneChildPerKey` | and `NobodyTerminates`, `KeysApart` |
| `FamiliesHold`, `StartedChildrenRun`, `ChildrenAreKnown` | `[]FamilyInv`; `[]StartedChildIsRunning`, `[]ChildKnownToParent` | and `NobodyTerminates`, `ChildrenAreNew` |
| `AlwaysStartsAreNew` | `[][ChildrenAreNew]_vars` | and `NobodyTerminates`, `StartsAlways` |
| `JournalHolds`, `LoadSucceedsHolds` | `[]JournalInv`; `[]LoadSucceeds`: no entry of the kinds `ShardJournal` has is ever refused when it is replayed, with batches of any size | |
| `AnsweredIsKeptHolds` | `[]AnsweredIsKept`: a checkpoint that was answered is in what a load computes | `MaxBatch = 1` |
| `ProvidersHold`, `ToldIsStoredHolds` | `[]ProviderInv`; `[]ToldIsStored` | `Journaled` |
| `ReadsAreLatestHolds` | `[]ReadsAreLatest` | `Journaled`, `Partitions = 1` |

### The arguments

*Tables.*  `ShardTableProofs` has one lemma per table operator.  Each keeps the tables well-formed; each keeps them *sound*
(`Sound`: unique keys, attempts within the policy, signals and records numbered below their counters, marks that
belong to claimed tasks, no waits in a stopped run); and each is *safe*: `Safe(d, e)` says that a step from tables `d` to
`e` accepts no checkpoint and creates no claimed task - every task in `e` that has an owner was there in `d` with the same
owner, epoch and activation.

*Claims.*  `Inv == TypeOK /\ HeldIsAlive /\ OwnedTaskIsHeld /\ OwnedInEpoch /\ Sound(db)`.  Types alone are not enough for
fencing: the commit compares the worker with the owner and epoch written in the *task*, and that this worker was
handed the activation under this epoch is `OwnedTaskIsHeld`.  It is inductive because a claim is created only by
`ClaimTasks`, which puts it in the worker's hands (every other operator is `Safe`), and leaves the hands only with a
commit or a release, which take the claim from the task, or with a crash, which takes the owner from the living;
`HeldIsAlive` carries the last case.  `OwnedInEpoch` - no task is claimed under an epoch its shard has not reached,
and one of the present epoch is claimed by the present owner - together with `Sound`'s marks gives `MarkedSequenceIsHeld`.
That invariant counts forgotten claims as held.  `NothingForgotten` - no claim carries starts, none is forgotten - is inductive when no
handler fails and none buffers starts, because then a refused commit can always be retried, and `NoClaimIsForgotten` follows.

*Wake-ups.*  `NoLostWakeUp` is about the oldest event of a wait and is not inductive.  `WorkInv` states both directions for
*all* waits and tasks in the terms the operators use: a run's waits are all `Woken` (for every task the code would derive
for the wait from the tables, there is one), and its tasks all have `Reasons` (their run is running, at this sequence, in this
version, and their event is not yet taken).  `Keeps(d, e, r)` says that tables `e` are as good as `d` for run `r`.  One lemma
per operator shows that it keeps every run, the runs it does not rebuild because their inbox and reports are the same, the
others because it rebuilds them.  A checkpoint is taken in six pieces (consume, advance, start children, tell the parent,
close the children, replace the tasks): between them some kind of task of the run is missing (`WakesBut`, `ReasonsBut`),
which the later pieces add.  `HeldStarts` says that the starts in a worker's hands are for distinct runs, not for the
committing one.

*Runs.*  `EngineStep` is all that `ShardRunProofs` uses of the engine: every step leaves the runs as they are, or brings a run or a
signal, starts children, cancels a run, or is a checkpoint of a claim in somebody's hands at the present sequence of
a running run (`Advanced`).  From `BaseInv` (`WorkInv`, and a run that has not started is at sequence 0) follow the
theorems about commits, signals, closing and the refinement.  `CommitsCounted` needs that the commits of a run are finite.
Versions need `HeldVersions`: a claim in hand is for a run no newer than its worker, *or* for a sequence the run has left -
a task's version is copied from the run when the task is made, and `NoPhantomTask` carries it to the moment of the claim.
`ReportInv` says that claims for an outcome are held only for settled records, which makes delivery final.  *Where* an outcome is delivered is a
statement about a step: a record that a step marks is either the one the checkpoint of its parent took, or was taken along when
a run was stopped.  `ClosePolicyCancels` stops the runs a checkpoint reaches through records with the policy `cancel`; `Lineage` is that
relation read upwards, so the runs whose children are dropped have the committing one in their lineage (`ClosedBelow`), and stay so
while the step goes on, which only adds records (`LineageGrows`).  That the sequence of the mark is the one after the committed activation needs `OneCommitPerSequence`, which
makes the commit a new one.  The refinement is proved step by step: with the mapping of `ShardProperties` every kind of step is `Promise!Next` or
leaves what `DurableRuns` sees unchanged.

*Ledger.*  `LedgerInv`: an effect belongs to a run that is there, what has completed is an eager activity's, and executing
attempts carry a token that was given out (`TokensReal`; a record without an attempt has token 0, so a late attempt
matches none of those).  Each operator either lets no effect complete or leaves completed ones alone.
What spends attempts (`FailuresSpendAttempts`) is a statement about an effect and what it follows: each operator of the ledger leaves number and
status alone, or raises the number by one or fails the effect, for an attempt that is late or that ends in this step.  A reservation
that finds a lost attempt hands it out under the same number (`lib.rs` 1587), so the number does not bound how often the activity is executed.

*Children.*  `FamilyInv` joins three facts that fail one by one inside a checkpoint and hold again at its end: runs with a parent
and records name each other (`Linked`, which makes the record of a run unique), a record agrees with the status of its run
(`Agrees`), and the starts in a worker's hand have distinct keys.  The checkpoint of a run that ends
leaves exactly its own record behind (`AgreeBut`) until the parent's record is told (`lib.rs` 2051), and closing takes runs
and records together.  `KeyInv` adds that a record is of an activation that was committed, or was sent at once by it:
so the records of a checkpoint meet none of their activation and key, and a start sent at once adds one only if there is none.

*Waits.*  `FutureWaitKeepsPlace` compares two waits by name and type, but the code copies the cursor of the *first* future wait it
finds of the same name and type.  That there is one follows from `TypesApart`: the waits of a run have distinct types
in every reachable state.  A checkpoint stamps the new waits before it looks at the inbox again, so what a wait can take afterwards is what it
could take before without what the checkpoint consumed (`CommitRearms`); no other step advances a run (`OnlyCommitsAdvance`).

*Runs of an id.*  `OneRunningRunPerId` is not inductive: the policies look at the *latest* run only, and an older one that
runs would go unseen.  `OnlyYoungestRun` adds what is needed: a running run is younger than all others of its id, so it is the one
the policies look at.  `Succeeded(d, e, S)` says of a step that the runs `S` began, one per id, where none was running at that moment.
Buffered starts decide when a handler makes them and take effect at the commit, after other runs may have begun: the
commit decides again (`lib.rs` 1976), and `HeldSuccessors` says that the starts of one commit are for distinct ids.

*Retries.*  `Paced` says of each effect that its present attempt began, or may begin (`next`), no earlier than its *due* instant: the first
attempt and all delays so far.  `RetryWaits` speaks of attempts that execute; between them the knowledge is in `next`, and `Paced`
carries it there and back through failures, timeouts, releases and rebuilt tasks.  The due instant is a sum over the delays of the policy,
a recursive function; `BackoffSteps` shows by induction over sets of numbers (`FromZeroUp`, since the library's induction takes an
operator) that it grows by one delay per attempt.  With `Lag`, each attempt adds at most one `Lag`.

*Journal.*  `JournalInv` has at its heart `db = Reloaded(kept)`: between two calls the live store is what a load computes, which
has lost the marks of claims.  An entry is an operation and is applied twice, to `db` and to `kept`; a replayed claim may even hand out
other tasks.  But a commit, once the session has checked its claim, reads only instances, signals and records, and these are
the same in both (`SameData`): it finds the same conflicts or none, the same next instance, the same children to close and the same
parent to tell (`SameConflict` to `SameCheckpoint`), so its replay is accepted exactly if it was.  A batch is taken commit by commit, by induction
over its length (`FromZeroUp`): as long as all were accepted, the two stores agree in what the next commit reads (`Agree`, `CommitAgrees`).  A batch
is recorded only if all were accepted, which is why no entry is refused when it is replayed, and why with more than one commit
an answer may be of something that was not recorded.

*Providers.*  The history of a journal is the sequence of stores that its entries make.  `LogInv` says that the journal is one in which each entry
could be applied where it stands, and that the snapshot is a point of its history; from this `LatestIsNow`: a load gives the present store.
`ActorsApart` keeps each process to its own engines.  `SlotInv` says at each stage of each call what the call and the routers of
its process know: a writer that is inside its transaction has the parts of the *present* store in its routers, since it holds the lock
(`Transaction`), so what it executes is what it records; a reader has some version of the history no older than the head it saw when it was asked
(`Reads`), *if* one query brings all entries, which needs the one partition.  A crash empties a process and leaves the journal, which `ToldInv`
compares with what was told.

## 5. What is only model-checked, and what is not modelled

Only model-checked:

* Liveness (`EveryWakeUpIsServed`, `EverySignalIsServed`) rests on fairness and ENABLED, which are out of the prover's reach.
* Where a hypothesis of section 4 fails, TLC is all there is: `RetryWaits` is proved exactly for `Lag` 0 only; the
  theorems under `NobodyTerminates` are about ids whose runs nobody deletes; `ChildrenAreNew` is proved for `Always` starts and
  checked in `children` for those under `NotRunning`; nothing is stated of reads from several partitions.
* The lemmas use that the waits of a phase have distinct types and that a checkpoint buffers at most two starts, as the model says.

Not modelled, with reasons, in `PROJECT.json`: the shard-file provider (each file is a SQLite provider), macros,
benchmarks, examples and tests, and the TypeScript and Go implementations, which are engines of their own with
differences from the crate (leases checked again at commit, a commit batcher).  Partly modelled:

* Handlers: no child_result, no wait metadata, no values; the functions that migrate data are absent, so a migration
  changes the version and stays in its phase.  A handler buffers at most two starts in one commit.
  `ParentClosePolicy::Wait` is treated as `Cancel`, as `apply_parent_close_policy` does.
* Children: a parent that waits twice for one child has one task for both waits (`lib.rs` 4770 names it by the child);
  `DistinctChildren` excludes this.  A child that ends looks up its record and refreshes the tasks of its
  parent (`lib.rs` 2051); if the record has gone, with a parent that was terminated, the code refreshes the tasks of the run that
  has the parent's id by now, and the model leaves the tables as they are.  The starts of a checkpoint are applied in
  any order, as the hash map of the code may; a start under `Always` and one that may keep a run, of one id, are not
  buffered together, since their order would then decide.
* Worker loop: no sleeping, no max_activations, no cancellation, no lease renewal intervals.  `next_wake_at`, the answer of `run_shard_step`
  to a runner that sleeps (`README.md:268` of the repository), is left out with it: `run_worker` does not read it (a hazard without a property).
* `record_activation_failures` does not look whether the caller owns the activation, which `SPEC.md:1336-1340` asks for.  The model has the
  action without the check, and the properties of `effects` hold nevertheless; no run states the disagreement.
* Journal: no child operations, start_send_signal, heartbeats or recorded failures; `ShardEngine` has these without it.
  `batch` takes two runs and batches of two instead of one run with activities: there the property of `journal` fails at once.
* Router and Postgres: no bounded channels, no claims and effects, no lost connection inside one call.

## 6. Where code and documents disagree

* `fenced`: `SPEC.md:1140` has any late commit from the old owner of a shard fail.  A commit is checked against the claim in the
  task alone.  When the shard has passed on but the activation was not claimed again, the late commit is accepted.
  (`OneCommitPerSequence` and `FencedByClaim` hold nevertheless.)  `OneLoopSpec` restricts workers to one loop each, so
  that the counterexample needs nothing unusual.
* `forgotten`: `SPEC.md:1038` has queued claims released on a fatal handler error.  `run_worker` releases the claim of the
  handler that failed, and returns with the rest of the batch claimed.
* `batch`: `SPEC.md:1046` has a conflict discard only its own activation while siblings commit.  The SQLite and Postgres
  sessions journal a batch only if every commit of it was accepted.
* `lost`: `SPEC.md:1351` has one authoritative state per run.  Two first calls to a shard may each start an actor
  for it.
* `reads`: `SPEC.md:938` has `loadInstance` return the latest committed snapshot.  A Postgres read is one query per partition
  without a transaction, sees some later entries and not some earlier ones, and may fail.

One more disagreement was met in a proof and has no run, since no document speaks of it.  `commit_checkpoint` decides about child
starts (`lib.rs` 1976) after it has written the new status of the committing run.  A handler that starts its own workflow id under
`NotRunning` or `FailedOnly` (the latest run is itself, running) and ends its run in the same checkpoint has decided to keep the
run; the commit, where the run has ended, creates a run of the same run id in its place, and replaces that run's tasks by those of
the one that ended, which are none: it is never woken.  TLC finds `NoLostWakeUp` violated
after seven steps on the instance of `children` with such a start.  `NoSelfStart` excludes this.

## 7. Plan

Done: everything in section 2, with the theorems of section 4.  Next, in this order:

1. Proofs: `ChildrenAreNew` for ids that only one activation starts; what, if anything, a read from several partitions can
   be relied on for.
2. `ShardJournal` with child operations, start_send_signal, heartbeats and recorded failures; several shards in one
   store, where ids are counted anew after a split.
3. `ShardProviders` with shard sessions, claims and effects over Postgres; a connection lost between BEGIN and COMMIT.
4. The shard-file provider: a batch over several files.
5. A runner that stores the `next_wake_at` of its last step and sleeps until then; a run for the owner check of `SPEC.md:1336`.
6. The TypeScript and Go engines, by their differences from `ShardEngine`, each against `DurableRuns`.
7. More runs of the present modules: two shards in `children`, `Lag` 1 in `effects`, ids ordered as strings past nine.
