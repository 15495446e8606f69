---------------------------- MODULE ShardProperties ---------------------------
(***************************************************************************)
(* What the shard engine promises, stated over ShardEngine.                *)
(***************************************************************************)
EXTENDS ShardEngine

\* Every table holds records of its kind and every actor holds well-formed claims.
TypeOK ==
    /\ db \in Tables
    /\ leases \in [Shards -> ShardLease]
    /\ sessions \in [Workers -> [Shards -> Nat]]
    /\ held \subseteq Claim
    /\ attempts \subseteq Attempt
    /\ alive \subseteq Workers
    /\ clock \in Nat

-------------------------------------------------------------------------------
(* Waits and tasks. *)

\* No wake-up is lost: whatever makes a wait of a running instance ready - its time,
\* an unconsumed signal it accepts, an undelivered child outcome - there is a task for
\* that wait at the current sequence, and it carries the oldest such event
\* (insert_task_for_wait and every refresh of the tasks around it).
TaskCarries(r, w, n) ==
    \E t \in db.tasks : t.act.ref = r /\ t.act.seq = db.inst[r].seq /\ t.wait = w.name
                        /\ t.act.kind = w.kind /\ t.act.n = n
NoLostWakeUp ==
    \A r \in Refs : Running(db, r) => \A w \in db.inst[r].waits :
        /\ w.kind = "run" => TaskCarries(r, w, 0)
        /\ w.kind = "timer" => TaskCarries(r, w, w.at)
        /\ w.kind = "signal" =>
             \A s \in db.signals :
                 s.ref = r /\ s.type = w.type /\ s.consumed = 0 /\ (w.future => s.id > w.cursor) =>
                     \E o \in db.signals : o.at <= s.at /\ o.type = s.type /\ TaskCarries(r, w, o.id)
        /\ w.kind = "child" =>
             \A c \in db.children :
                 c.parent = r /\ c.ref = w.child /\ c.status \in {"completed", "failed"} /\ c.delivered = 0 =>
                     \E o \in db.children : o.completedAt <= c.completedAt /\ TaskCarries(r, w, o.id)

\* No task outlives its reason: a task belongs to a running instance at its current
\* sequence, and a signal or child task to an event nobody has consumed yet, so a
\* worker that claims it can commit it.
NoPhantomTask ==
    \A t \in db.tasks :
        /\ Running(db, t.act.ref) /\ db.inst[t.act.ref].seq = t.act.seq
        /\ t.act.kind = "signal" =>
             \E s \in db.signals : s.id = t.act.n /\ s.ref = t.act.ref /\ s.consumed = 0
        /\ t.act.kind = "child" =>
             \E c \in db.children : c.id = t.act.n /\ c.parent = t.act.ref /\ c.delivered = 0

-------------------------------------------------------------------------------
(* Checkpoints. *)

\* Every checkpoint of a run is the work of one activation: the accepted commits of a
\* run are exactly one for each sequence it has left behind, whoever raced for it
\* (commit_checkpoint: stale_sequence, lost_activation_lease).
CommitsOf(r) == {c \in db.completed : c.act.ref = r}
OneCommitPerSequence ==
    \A r \in Refs :
        /\ {c.act.seq : c \in CommitsOf(r)} = 0..(db.inst[r].seq - 1)
        /\ Cardinality(CommitsOf(r)) = db.inst[r].seq

\* A signal is consumed together with the checkpoint of the activation it woke, and no
\* other way: consumed signals and accepted signal activations are the same thing.
SignalsConsumedWithCheckpoint ==
    /\ \A s \in db.signals : s.consumed # 0 =>
         \E c \in db.completed : /\ c.act.ref = s.ref /\ c.act.kind = "signal"
                                 /\ c.act.n = s.id /\ c.act.seq + 1 = s.consumed
    /\ \A c \in db.completed : c.act.kind = "signal" =>
         \E s \in db.signals : s.id = c.act.n /\ s.ref = c.act.ref /\ s.consumed = c.act.seq + 1

\* A worker commits only what it was handed and what has not been handed to another since:
\* an accepted commit is of an activation in its hands whose task, if the activation still
\* has one, is claimed by this worker, under the epoch of this claim, until no earlier than
\* the instant of the commit (assert_activation_claim_sync).
FencedByClaim ==
    [][\A x \in db'.completed \ db.completed :
           \E c \in held :
               /\ c.worker = x.owner /\ c.act = x.act /\ c.state = "running"
               /\ \A t \in TasksOfActivation(db, x.act) :
                      t.owner = c.worker /\ t.epoch = c.epoch /\ t.until + Lag >= clock]_vars

\* If a worker loses its shard, another worker may claim it, increment the epoch and reclaim
\* unfinished tasks; any late commit from the old owner must fail (SPEC.md, Activation
\* selection): a commit is accepted only from the last owner of the shard.
FencedByEpoch ==
    [][\A x \in db'.completed \ db.completed : leases[ShardOfRef(x.act.ref)].owner = x.owner]_vars

\* An epoch of a shard belongs to one worker: it never passes to another owner without
\* growing, and it never shrinks (claim_shard_sync).
EpochNamesOneOwner ==
    [][\A s \in Shards :
           /\ leases'[s].epoch >= leases[s].epoch
           /\ leases'[s].epoch = leases[s].epoch => leases'[s].owner = leases[s].owner]_vars

\* A mark of a claimed sequence is never the engine's own mistake: a sequence marked in the
\* present epoch was handed to the owner of the lease, if it lives, and the owner has neither
\* committed nor released it since.  It may have forgotten it: such a mark does keep the
\* activations of a healthy run from every worker until the next epoch.
MarkedSequenceIsHeld ==
    \A m \in db.claimed :
        LET lease == leases[ShardOfRef(m.ref)]
        IN  m.epoch = lease.epoch /\ lease.owner \in alive =>
              \E c \in held : c.worker = lease.owner /\ c.epoch = m.epoch /\ SameSequence(m, c.act)

\* A claim is never lost by the engine: a task that a live worker owns is an activation that
\* was handed to this worker under the same epoch and that it has neither committed nor
\* released since.
OwnedTaskIsHeld ==
    \A t \in db.tasks : t.owner \in alive =>
        \E c \in held : c.worker = t.owner /\ c.act = t.act /\ c.epoch = t.epoch

\* Queued claims are released on shutdown, abort, or fatal handler error (SPEC.md, Sharding):
\* what a live worker owns it has in hand, to commit or to release.
QueuedClaimsAreReleased ==
    \A t \in db.tasks : t.owner \in alive =>
        \E c \in held : c.worker = t.owner /\ c.act = t.act /\ c.state # "forgotten"

-------------------------------------------------------------------------------
(* Signals. *)

\* An idempotency key names one signal of a run and type, whichever call brought it.
IdempotencyKeysAreUnique ==
    \A s, o \in db.signals :
        s.key # NoKey /\ s.key = o.key /\ s.ref = o.ref /\ s.type = o.type => s.id = o.id

\* A future wait that is armed again by a checkpoint keeps its place: a signal it could
\* take before and that was not consumed it can still take, and no older one.
FutureWaitKeepsPlace ==
    [][\A r \in Refs :
         Running(db, r) /\ Running(db', r) /\ db'.inst[r].seq = db.inst[r].seq + 1 =>
         \A w \in {x \in db.inst[r].waits : x.kind = "signal" /\ x.future},
            v \in {x \in db'.inst[r].waits : x.kind = "signal" /\ x.future} :
             v.name = w.name /\ v.type = w.type =>
                 Deliverable(db', r, v) =
                     {s \in db'.signals : s.consumed = 0 /\ \E o \in Deliverable(db, r, w) : o.id = s.id}]_vars

\* A run that begins is younger than every other run of its id.  The latest run of an id is the one
\* with the greatest created_at, the instant of the caller that started it, and of two runs of one
\* instant the one with the greater name: nothing in the code makes this so.
RunsBeginInOrder ==
    \A r, q \in Refs :
        r # q /\ r[1] = q[1] /\ ~ Running(db, r) /\ Running(db', r) /\ db.inst[q].status # "absent" =>
            db.inst[q].createdAt < db'.inst[r].createdAt

\* A workflow id has at most one running run, through every way a run can start, when
\* nobody asks for the "always" policy and the runs of an id begin in order.
OneRunningRunPerId ==
    \A r, q \in Refs : r[1] = q[1] /\ Running(db, r) /\ Running(db, q) => r = q

-------------------------------------------------------------------------------
(* Children. *)

\* A child record that says "started" is about an instance that is running, while no
\* two records share a child.
StartedChildIsRunning ==
    \A c \in db.children : c.status = "started" => Running(db, c.ref)

\* However often an activation is executed, and by whom, it starts the child of a key once
\* (create_child_instance answers a repeated start from its record).
OneChildPerKey ==
    \A c, o \in db.children : c.act = o.act /\ c.key = o.key => c.id = o.id

\* A run that has closed stays as it closed, whatever its parent, its clients and the
\* handlers that still execute for it do.
ClosedStaysClosed ==
    [][\A r \in Refs : db.inst[r].status \in Closed =>
           db'.inst[r].status = db.inst[r].status /\ db'.inst[r].seq = db.inst[r].seq]_vars

\* An instance with a parent is known to it: while it runs its record is started, or
\* abandoned by a parent that closed; once it has closed its record says so.
ChildKnownToParent ==
    \A r \in Refs : db.inst[r].parent # 0 =>
        \E c \in db.children : /\ c.id = db.inst[r].parent /\ c.ref = r
                               /\ IF Running(db, r) THEN c.status \in {"started", "abandoned"}
                                  ELSE c.status # "started"

\* A run, and the runs above it: whoever has a record of a run that is canceled with its parent.
Lineage(d, r) ==
    {q \in Refs : \A S \in SUBSET Refs :
        r \in S /\ (\A y \in d.children : y.policy = "cancel" /\ y.ref \in S => y.parent \in S) => q \in S}

Stopped(d, r) == d.inst[r].status \in {"failed", "canceled"}

\* The outcome of a child is delivered in the step that accepts the checkpoint of the activation
\* it woke, or dropped in the step that accepts the checkpoint with which its parent, or a run
\* above its parent, stops: with the sequence of that checkpoint, and in no other step.  And no
\* checkpoint of an activation is accepted without the outcome that woke it being delivered.
Pending(d, id) == \A o \in d.children : o.id = id => o.delivered = 0
DeliveredWith(c, x) ==
    /\ x.act.seq + 1 = c.delivered
    /\ \/ x.act.ref = c.parent /\ x.act.kind = "child" /\ x.act.n = c.id
       \/ Stopped(db', x.act.ref) /\ x.act.ref \in Lineage(db', c.parent)
ChildrenDeliveredWithCheckpoint ==
    [][LET accepted == db'.completed \ db.completed
       IN  /\ \A c \in db'.children : c.delivered # 0 /\ Pending(db, c.id) =>
                \E x \in accepted : DeliveredWith(c, x)
           /\ \A x \in accepted : x.act.kind = "child" =>
                \E c \in db'.children : /\ c.id = x.act.n /\ c.parent = x.act.ref
                                       /\ c.delivered = x.act.seq + 1]_vars

\* An outcome that has been delivered, or dropped, is never touched again.
DeliveredOnce ==
    [][\A c \in db.children : c.delivered # 0 => c \in db'.children]_vars

\* A checkpoint that fails or cancels a run leaves no child open under any run it closes:
\* each child is closed with its parent, or abandoned to run on by its own policy.
CloseReachesChildren ==
    [][\A r \in Refs : Stopped(db', r) /\ Running(db, r) /\ db'.completed # db.completed =>
           OpenUnder(db', r) = {}]_vars

-------------------------------------------------------------------------------
(* Activities. *)

\* An activity that completed is not executed again in its activation: its record stays
\* until the activation commits, whatever timeouts, retries and other workers do.
CompletedEffectStays ==
    [][\A e \in db.effects : e.status = "completed" =>
           \/ e \in db'.effects
           \/ db'.inst[e.act.ref].seq # e.act.seq]_vars

\* Every retry waits for its backoff, whatever becomes of the claims meanwhile (a signal that
\* arrives has the tasks of a run rebuilt, unblocked): the attempts before an attempt and the
\* delays between them all lie behind it when it starts.
BackoffBefore(e) ==
    LET waited[n \in 0..Len(Effect[e.key].delays)] == IF n = 0 THEN 0 ELSE waited[n - 1] + Effect[e.key].delays[n]
    IN  waited[e.attempt - 1]
RetryWaits == \A e \in db.effects : e.token # NoToken => e.begun >= e.first + BackoffBefore(e)

\* The attempts a policy allows are spent by failures alone: a pending effect moves on to its next
\* attempt, one more and within the policy, or fails for good only when the attempt that is
\* recorded in it is late or ends.  An attempt that was timed out or replaced spends nothing when
\* it fails at last.  Nor does one that is lost with its claim or its worker: the activity is
\* executed again under the same number, so executions have no bound.
Ends(e) == \E x \in attempts \ attempts' : x.act = e.act /\ x.key = e.key /\ x.token = e.token
OnlyFailuresSpendAttempts ==
    [][\A e \in db.effects, f \in db'.effects :
           /\ e.act = f.act /\ e.key = f.key /\ e.status = "pending"
           /\ f.attempt # e.attempt \/ f.status = "failed"
           => /\ e.token # NoToken
              /\ (\E now \in Instants : Late(e, now)) \/ Ends(e)
              /\ f.status = "failed" => f.attempt = e.attempt
              /\ f.status # "failed" => f.attempt = e.attempt + 1 /\ f.attempt <= MaxAttempts(e.key)]_vars

\* An attempt that was timed out, failed or replaced cannot settle the effect: an effect
\* completes only by the executing attempt that is recorded in it.
OnlyTheLiveAttemptCompletes ==
    [][\A e \in db.effects, f \in db'.effects :
           e.act = f.act /\ e.key = f.key /\ e.status = "pending" /\ f.status = "completed" =>
               \E x \in attempts : x \notin attempts' /\ x.act = e.act /\ x.key = e.key /\ x.token = e.token]_vars

-------------------------------------------------------------------------------
(* Versions. *)

\* During a deployment workers of several versions take turns, and a run never goes back:
\* no checkpoint is accepted from a worker that is older than the run it would replace,
\* however long ago it claimed the activation.
NoDowngrade ==
    [][\A x \in db'.completed \ db.completed : VersionOf[x.owner] >= db.inst[x.act.ref].version]_vars

-------------------------------------------------------------------------------
(* The engine implements what it promises its users. *)

Promise == INSTANCE DurableRuns
    WITH Runs <- Refs, SignalNumbers <- 1..MaxSignals,
         status <- [r \in Refs |-> db.inst[r].status],
         sequence <- [r \in Refs |-> db.inst[r].seq],
         unread <- {<<s.id, s.ref>> : s \in {x \in db.signals : x.consumed = 0}},
         read <- {<<s.id, s.ref, s.consumed>> : s \in {x \in db.signals : x.consumed # 0}}

\* Whatever shards, leases, claims, crashes and retries do, a user sees runs that advance
\* checkpoint by checkpoint, each taking at most one signal of the inbox and for good.
ImplementsDurableRuns == Promise!Spec
===============================================================================
