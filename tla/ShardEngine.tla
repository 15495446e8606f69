------------------------------ MODULE ShardEngine -----------------------------
(***************************************************************************)
(* The shard engine of the durable crate (crates/durable/src/lib.rs,       *)
(* ShardEngine), driven by clients that start and signal workflows and by  *)
(* workers (DurableRuntime: run_worker, run_shard_step) that lease shards, *)
(* claim ready activations, run their handlers and commit checkpoints.     *)
(*                                                                         *)
(* The engine belongs to one actor or one lock, so an operation runs to    *)
(* completion before the next one: it is one action.  Between the calls of *)
(* one worker every other actor may act: a handler runs while leases       *)
(* expire, shards move, signals arrive and children finish.  A call        *)
(* carries the instant its caller read before making it, which may be up   *)
(* to Lag behind the clock.                                                *)
(***************************************************************************)
EXTENDS ShardEffects

CONSTANTS
    InitialWaits,       \* [Ids -> a set of wait templates]: the first phase of a workflow
    NextWaits,          \* [Ids -> a set of sets of wait templates]: its later phases
    Outcomes,           \* how an instance may end: a subset of Closed
    ClientStarts,       \* the inputs of create_instance: [ref, version, reuse, conflict]
    SendStarts,         \* the inputs of start_send_signal: [ref, version, targeted, reuse, type, key]
    Appends,            \* the inputs of append_signal: [ref, type, key]
    CheckpointStarts,   \* the starts a handler buffers for its checkpoint: [id, seq, start]
    EagerStarts,        \* the starts a handler sends at once: [id, seq, start]
    CancelsChildren,    \* whether handlers cancel their children
    EagerKeys, CheckpointKeys,  \* the activities of each durability handlers run
    Crashing,           \* the workers that may crash
    Failing,            \* the workers whose handlers may return an error
    ClaimLimit,         \* activation_prefetch_limit: how many activations a worker claims at once
    MaxTime, Lag, MaxSignals, MaxChildren, MaxSequence, MaxEpoch, MaxAttemptIds    \* bounds

\* validate_materialized_waits: no two signal waits of one type.
DistinctTypes(W) ==
    \A v, w \in W : v.kind = "signal" /\ w.kind = "signal" /\ v.type = w.type => v = w

\* insert_task: two waits for one child have one task id between them, and the later wait of the
\* handler's list would get the task.  No order of waits is kept here: a child has one wait.
DistinctChildren(W) ==
    \A v, w \in W : v.kind = "child" /\ w.kind = "child" /\ v.child = w.child => v = w

ASSUME InputAssumption ==
    /\ InitialWaits \in [Ids -> SUBSET Wait] /\ NextWaits \in [Ids -> SUBSET SUBSET Wait]
    /\ \A id \in Ids : \A W \in NextWaits[id] \cup {InitialWaits[id]} : DistinctTypes(W) /\ DistinctChildren(W)
    /\ Outcomes \subseteq Closed
    /\ ClientStarts \subseteq [ref : Refs, version : Versions, reuse : ReusePolicies \cup {NoPolicy},
                              conflict : ConflictPolicies]
    /\ Appends \subseteq [ref : Refs, type : SignalTypes, key : Keys \cup {NoKey}]
    /\ SendStarts \subseteq [ref : Refs, version : Versions, targeted : BOOLEAN, reuse : ReusePolicies,
                            type : SignalTypes, key : Keys \cup {NoKey}]
    /\ CheckpointStarts \cup EagerStarts \subseteq [id : Ids, seq : Nat, start : ChildStart]
    /\ EagerKeys \cup CheckpointKeys \subseteq EffectKeys
    /\ ClaimLimit \in Nat \ {0} /\ Lag \in Nat
    /\ {MaxTime, MaxSignals, MaxChildren, MaxSequence, MaxEpoch, MaxAttemptIds} \subseteq Nat

VARIABLES
    db,         \* the tables of the engine
    leases,     \* shard_leases
    sessions,   \* the lease epoch of each shard session a worker has open, 0 for none
    held,       \* the activations handed to workers and not committed or released since
    attempts,   \* the eager activity attempts that are executing
    alive,      \* the workers that have not crashed
    clock

vars == <<db, leases, sessions, held, attempts, alive, clock>>

\* ReadyActivation and its DurableContext: the activation, the epoch of its claim, updated_at
\* of the snapshot it was claimed with, the starts and failed activities its handler has
\* buffered (commit_child_starts, commit_effects), and what has become of it.  A forgotten
\* claim is one its worker has dropped without telling the provider.
Claim == [worker : Workers, act : Activation, epoch : Nat, at : Nat, starts : SUBSET ChildStart,
          failed : SUBSET EffectKeys, state : {"running", "refused", "forgotten"}]
Attempt == [act : Activation, key : EffectKeys, token : Token]

Init ==
    /\ db = EmptyTables
    /\ leases = [s \in Shards |-> NoLease]
    /\ sessions = [w \in Workers |-> [s \in Shards |-> 0]]
    /\ held = {}
    /\ attempts = {}
    /\ alive = Workers
    /\ clock = 1

Instants == {t \in 1..clock : t + Lag >= clock}
ShardOfRef(r) == ShardOf[r[1]]

Owns(w, s, now) == leases[s].owner = w /\ leases[s].until >= now
\* The activations whose timeouts a call by w expires: claimed by it, for a while yet.
Expirable(d, w, now) == {t.act : t \in {u \in d.tasks : u.owner = w /\ u.until >= now}}

-------------------------------------------------------------------------------
(* Clients. *)

\* create_instance
StartWorkflow(in, now) ==
    /\ in.reuse # NoPolicy =>
          \A r \in Latest(db, in.ref[1]) : ShouldCreate(in.reuse, db.inst[r].status)
    /\ db.inst[in.ref].status # "absent" => in.conflict = "terminate_existing"
    /\ db' = CreateInstance(db, in.ref, in.version, Materialize(InitialWaits[in.ref[1]], now, now), now)
    /\ UNCHANGED <<leases, sessions, held, attempts, alive, clock>>

\* append_signal
Signals(in, now) ==
    /\ db.signalCounter < MaxSignals
    /\ Running(db, in.ref)
    /\ db' = AppendSignal(db, in.ref, in.type, in.key, now)
    /\ UNCHANGED <<leases, sessions, held, attempts, alive, clock>>

\* start_send_signal: a signal already there under its key is returned; else the
\* target run gets it, or the latest running run, or a new run that is created.
NewToTheRun(in) == SignalsWithKey(db, in.ref, in.type, in.key) = {}
SendToTarget(in, now) ==
    /\ NewToTheRun(in)
    /\ in.targeted /\ Running(db, in.ref)
    /\ db' = AppendSignal(db, in.ref, in.type, in.key, now)
SendToRunning(in, now) ==
    /\ NewToTheRun(in)
    /\ ~ in.targeted /\ db.inst[in.ref].status \in {"absent", "running"}
    /\ \E r \in LatestRunning(db, in.ref[1]) : db' = AppendSignal(db, r, in.type, in.key, now)
SendAndStart(in, now) ==
    /\ NewToTheRun(in)
    /\ db.inst[in.ref].status = "absent"
    /\ LatestRunning(db, in.ref[1]) = {}
    /\ \A r \in Latest(db, in.ref[1]) : ShouldCreate(in.reuse, db.inst[r].status)
    /\ LET d1 == CreateInstance(db, in.ref, in.version, Materialize(InitialWaits[in.ref[1]], now, now), now)
       IN  db' = AppendSignal(d1, in.ref, in.type, in.key, now)
StartSendSignal(in, now) ==
    /\ db.signalCounter < MaxSignals
    /\ SendToTarget(in, now) \/ SendToRunning(in, now) \/ SendAndStart(in, now)
    /\ UNCHANGED <<leases, sessions, held, attempts, alive, clock>>

-------------------------------------------------------------------------------
(* Shard leases. *)

\* Mutant: a lease that changes hands keeps its epoch.
ClaimShardInEpoch(w, s, now) ==
    LET epoch == IF leases[s].epoch = 0 THEN 1 ELSE leases[s].epoch
    IN  /\ leases[s].owner \in {w, NoWorker} \/ leases[s].until <= now
        /\ leases' = [leases EXCEPT ![s] = [owner |-> w, until |-> now + ShardLeaseMs, epoch |-> epoch]]
        /\ sessions' = [sessions EXCEPT ![w][s] = epoch]
        /\ UNCHANGED <<db, held, attempts, alive, clock>>

\* claim_shard_sync, and the session that is opened with the lease.
ClaimShard(w, s, now) ==
    LET lease   == leases[s]
        renewed == lease.owner = w /\ lease.until > now
        epoch   == IF renewed THEN lease.epoch ELSE lease.epoch + 1
    IN  /\ lease.owner \in {w, NoWorker} \/ lease.until <= now
        /\ epoch <= MaxEpoch
        /\ leases' = [leases EXCEPT ![s] = [owner |-> w, until |-> now + ShardLeaseMs, epoch |-> epoch]]
        /\ sessions' = [sessions EXCEPT ![w][s] = epoch]
        /\ UNCHANGED <<db, held, attempts, alive, clock>>

HeartbeatShard(w, s, now) ==
    /\ sessions[w][s] # 0
    /\ Owns(w, s, now)
    /\ leases' = [leases EXCEPT ![s].until = now + ShardLeaseMs]
    /\ UNCHANGED <<db, sessions, held, attempts, alive, clock>>

ReleaseShard(w, s) ==
    /\ sessions[w][s] # 0
    /\ sessions' = [sessions EXCEPT ![w][s] = 0]
    /\ leases' = [leases EXCEPT ![s].until = IF leases[s].owner = w THEN 0 ELSE @]
    /\ UNCHANGED <<db, held, attempts, alive, clock>>

-------------------------------------------------------------------------------
(* Claims. *)

\* Mutant: a worker takes the activations of newer versions too.
CandidatesOfAnyVersion(d, s, now, version) ==
    {t \in d.tasks : ShardOfRef(t.act.ref) = s /\ t.at <= now /\ t.blocked <= now}

\* The tasks claim_tasks_for_session may hand out.
Candidates(d, s, now, version) ==
    {t \in d.tasks : /\ ShardOfRef(t.act.ref) = s
                     /\ t.at <= now /\ t.blocked <= now
                     /\ t.version <= version}

\* A sequence that is marked in this epoch is left alone; a mark of an earlier epoch does not
\* count, and is forgotten.
Competing(d, t, epoch) == \E m \in d.claimed : SameSequence(m, t.act) /\ m.epoch = epoch
\* has_unexpired_claim: any task of the sequence is claimed, in whatever epoch.
Taken(d, t, now) == \E u \in d.tasks : SameSequence(u.act, t.act) /\ u.owner # NoWorker /\ u.until > now
Current(d, t) == Running(d, t.act.ref) /\ d.inst[t.act.ref].seq = t.act.seq

\* The candidates the loop takes, the first of each sequence, or deletes because they are stale.
Winners(d, s, now, version, epoch) ==
    LET ready == Candidates(d, s, now, version)
    IN  {t \in ready : /\ ~ Competing(d, t, epoch) /\ ~ Taken(d, t, now)
                       /\ Current(d, t) => ~ \E u \in ready : SameSequence(u.act, t.act) /\ SortsBefore(u, t)}

TakeClaims(d, T, w, epoch, until) ==
    [d EXCEPT !.tasks = {IF t \in T THEN [t EXCEPT !.owner = w, !.epoch = epoch, !.until = until] ELSE t : t \in @},
              !.claimed = UnmarkedFor(@, T) \cup {[ref |-> t.act.ref, seq |-> t.act.seq, epoch |-> epoch] : t \in T}]

\* What the call does before it looks for candidates: the timeouts of this worker's activations
\* and the migrations of the shard.
Prepared(d, w, s, now) ==
    LET here == {a \in Expirable(d, w, now) : ShardOfRef(a.ref) = s}
    IN  RefreshMigrations(ExpireTimeouts(d, here, now), s, now, VersionOf[w])

\* The first winners in the order of their tasks, as many as there are slots; those of them that
\* are stale take no slot.
Live(d, T) == {t \in T : Current(d, t)}
Batches(d, s, now, version, epoch, slots) ==
    LET winners == Winners(d, s, now, version, epoch)
    IN  {T \in SUBSET winners :
           /\ \A t \in T, u \in winners : SortsBefore(u, t) => u \in T
           /\ Cardinality(Live(d, T)) <= slots
           /\ T = winners \/ Cardinality(Live(d, T)) = slots}

\* The loop over a batch: stale tasks are deleted, the others claimed; the marks of sequences
\* that it passes over because they are taken are forgotten.
HandOut(d, batch, w, s, now, epoch) ==
    LET winners == Winners(d, s, now, VersionOf[w], epoch)
        passed  == {t \in Candidates(d, s, now, VersionOf[w]) :
                        /\ Taken(d, t, now) /\ ~ Competing(d, t, epoch)
                        /\ batch = winners \/ \E u \in batch : SortsBefore(t, u)}
        cleared == DeleteTasks(d, batch \ Live(d, batch))
    IN  TakeClaims([cleared EXCEPT !.claimed = UnmarkedFor(@, passed)],
                   Live(d, batch), w, epoch, now + TaskLeaseMs)

\* claim_tasks_for_session.  The activations a worker has in hand leave it so many slots.
NewClaim(d, t, w, epoch) ==
    [worker |-> w, act |-> t.act, epoch |-> epoch, at |-> d.inst[t.act.ref].updatedAt,
     starts |-> {}, failed |-> {}, state |-> "running"]
Slots(w) == ClaimLimit - Cardinality({c \in held : c.worker = w /\ c.state # "forgotten"})
ClaimTasks(w, s, now) ==
    LET epoch == leases[s].epoch
        d1    == Prepared(db, w, s, now)
    IN  /\ sessions[w][s] # 0 /\ Slots(w) > 0
        /\ Owns(w, s, now) /\ sessions[w][s] = epoch
        /\ \E batch \in Batches(d1, s, now, VersionOf[w], epoch, Slots(w)) :
               /\ db' = HandOut(d1, batch, w, s, now, epoch)
               /\ held' = held \cup {NewClaim(d1, t, w, epoch) : t \in Live(d1, batch)}
        /\ UNCHANGED <<leases, sessions, attempts, alive, clock>>

\* The attempts of a handler go with it.
AttemptsOf(c) == {x \in attempts : x.act = c.act /\ x.token.worker = c.worker}

\* Mutant: a claim whose task lease has run out is not given back.
ReleaseClaimInTime(c) ==
    LET T == {t \in TasksOfActivation(db, c.act) : t.owner = c.worker /\ t.until >= clock}
    IN  /\ c.state = "refused"
        /\ db' = Freed(db, T, [t \in T |-> t.blocked])
        /\ held' = held \ {c}
        /\ UNCHANGED <<leases, sessions, attempts, alive, clock>>

\* release_claimed_activation, after a commit that was refused.
ReleaseClaim(c) ==
    LET T == {t \in TasksOfActivation(db, c.act) : t.owner = c.worker}
    IN  /\ c.state = "refused"
        /\ db' = Freed(db, T, [t \in T |-> t.blocked])
        /\ held' = held \ {c}
        /\ UNCHANGED <<leases, sessions, attempts, alive, clock>>

\* run_worker returns with an error: what the worker has not settled is dropped.
Forgotten(w, claims) == {IF c.worker = w THEN [c EXCEPT !.state = "forgotten"] ELSE c : c \in claims}

\* run_worker when a handler returns an error: the commits that were ready have been sent, its
\* own claim is released, and the claims behind it in the batch are dropped.
HandlerFails(c) ==
    LET T == {t \in TasksOfActivation(db, c.act) : t.owner = c.worker}
    IN  /\ c.worker \in Failing /\ c.state = "running"
        /\ db' = Freed(db, T, [t \in T |-> t.blocked])
        /\ held' = Forgotten(c.worker, held \ {c})
        /\ attempts' = {x \in attempts : x.token.worker # c.worker}
        /\ UNCHANGED <<leases, sessions, alive, clock>>

-------------------------------------------------------------------------------
(* Checkpoint commit. *)

\* Mutant: only the end of the claim is compared.
LostClaimInTime(d, c, now) == \E t \in TasksOfActivation(d, c.act) : t.until < now

\* assert_activation_claim_sync: whether the claim is no longer the one of the task, if there
\* still is a task.
LostClaim(d, c, now) ==
    \E t \in TasksOfActivation(d, c.act) : t.owner # c.worker \/ t.epoch # c.epoch \/ t.until < now

\* Mutant: whether the run still goes on is not checked.
ConflictUnlessStale(d, c) == IF d.inst[c.act.ref].seq # c.act.seq THEN "stale_sequence" ELSE "none"

\* commit_checkpoint: why the tables refuse the checkpoint of a claim, or "none".
Conflict(d, c) ==
    LET r == c.act.ref
    IN  IF ~ Running(d, r) THEN "not_running"
        ELSE IF d.inst[r].seq # c.act.seq THEN "stale_sequence"
        ELSE IF /\ c.act.kind = "signal"
                /\ ~ \E s \in d.signals : s.id = c.act.n /\ s.ref = r /\ s.consumed = 0
             THEN "signal_not_consumable"
        ELSE IF /\ c.act.kind = "child"
                /\ ~ \E x \in d.children : x.id = c.act.n /\ x.parent = r /\ x.delivered = 0
             THEN "child_not_consumable"
        ELSE StartConflict(d, c.starts)

\* EngineOperation::CommitCheckpoint of a session: the claim is asserted first.
Refusal(d, c, now) == IF LostClaim(d, c, now) THEN "lost_activation_lease" ELSE Conflict(d, c)

\* Mutant: a checkpoint that ends the run does not count.
NextInstanceUncounted(d, i, next, waits, version, now) ==
    [i EXCEPT !.status = next, !.seq = IF next = "running" THEN @ + 1 ELSE @, !.version = version,
              !.waits = IF next = "running" THEN StampWaits(d, waits, i.waits) ELSE {}, !.updatedAt = now]

\* The instance after an accepted checkpoint.
NextInstance(d, i, next, waits, version, now) ==
    [i EXCEPT !.status = next, !.seq = @ + 1, !.version = version,
              !.waits = IF next = "running" THEN StampWaits(d, waits, i.waits) ELSE {}, !.updatedAt = now]

\* Mutants: every signal of the run is consumed; the checkpoint is numbered one too low.
ConsumedAll(d, a, seq) ==
    [d EXCEPT !.signals = {IF s.ref = a.ref THEN [s EXCEPT !.consumed = seq] ELSE s : s \in @}]
ConsumedBefore(d, a, seq) ==
    [d EXCEPT !.signals = {IF a.kind = "signal" /\ s.id = a.n THEN [s EXCEPT !.consumed = seq - 1] ELSE s : s \in @},
              !.children = {IF a.kind = "child" /\ x.id = a.n THEN [x EXCEPT !.delivered = seq - 1] ELSE x : x \in @}]

\* The signal or child outcome that woke the activation is taken by the checkpoint.
Consumed(d, a, seq) ==
    [d EXCEPT !.signals = {IF a.kind = "signal" /\ s.id = a.n THEN [s EXCEPT !.consumed = seq] ELSE s : s \in @},
              !.children = {IF a.kind = "child" /\ x.id = a.n THEN [x EXCEPT !.delivered = seq] ELSE x : x \in @}]

\* The starts of a checkpoint come out of a hash map: in any order.
Orders(S) == {q \in UNION {[1..n -> S] : n \in 0..2} :
                  /\ {q[i] : i \in DOMAIN q} = S
                  /\ \A i, j \in DOMAIN q : q[i] = q[j] => i = j}
Started(d, c, start, now) ==
    WriteChildStart(d, c.act, start, VersionOf[c.worker],
                    Materialize(InitialWaits[start.ref[1]], start.at, start.at), now)
StartedAll(d, c, starts, now) ==
    CASE Len(starts) = 0 -> d
      [] Len(starts) = 1 -> Started(d, c, starts[1], now)
      [] OTHER           -> Started(Started(d, c, starts[1], now), c, starts[2], now)

\* The effects of the activation stay, unless a checkpoint activity failed in its handler.
Settled(effects, c) ==
    IF c.failed = {} THEN effects
    ELSE {e \in effects : e.act # c.act} \cup FailureRecords(c.act, c.failed)

\* The tables after an accepted checkpoint.
Checkpoint(d, c, next, waits, starts, now) ==
    LET r   == c.act.ref
        i   == d.inst[r]
        seq == i.seq + 1
        d1  == [d EXCEPT !.inst[r] = NextInstance(d, i, next, waits, VersionOf[c.worker], now)]
        d2  == [Consumed(d1, c.act, seq) EXCEPT !.effects = Settled(@, c)]
        d3  == StartedAll(d2, c, starts, now)
        d4  == ApplyClosePolicy(UpdateParentRecord(d3, i, next, now), r, next, seq, now)
    IN  [ReplaceTasksAs(d4, r, d1.inst[r]) EXCEPT !.completed = @ \cup {[act |-> c.act, owner |-> c.worker]}]

\* prepare_activation_commit: a migration stays in its phase.
Results(c) ==
    {[next |-> "running", template |-> W] : W \in NextWaits[c.act.ref[1]]}
      \cup {[next |-> o, template |-> {}] : o \in Outcomes}
Allowed(c, res) ==
    /\ c.act.kind = "migration" => res.next = "running"
    /\ res.next = "running" => c.act.seq < MaxSequence
    /\ db.childCounter + Cardinality(c.starts) <= MaxChildren
Commit(c, res, now) ==
    /\ c.state = "running"
    /\ Allowed(c, res)
    /\ Refusal(db, c, now) = "none"
    /\ \E starts \in Orders(c.starts) :
           db' = Checkpoint(db, c, res.next, Materialize(res.template, c.at, now), starts, now)
    /\ held' = held \ {c}
    /\ attempts' = attempts \ AttemptsOf(c)
    /\ UNCHANGED <<leases, sessions, alive, clock>>

\* A refused commit changes nothing; the worker is left to release the claim, but if the
\* refusal is final run_worker returns at once.
CommitRefused(c, now) ==
    /\ c.state = "running"
    /\ Refusal(db, c, now) \notin {"none", "existing_child_instance"}
    /\ held' = (held \ {c}) \cup {[c EXCEPT !.state = "refused"]}
    /\ attempts' = attempts \ AttemptsOf(c)
    /\ UNCHANGED <<db, leases, sessions, alive, clock>>
CommitRejected(c, now) ==
    /\ c.state = "running"
    /\ Refusal(db, c, now) = "existing_child_instance"
    /\ held' = Forgotten(c.worker, held)
    /\ attempts' = {x \in attempts : x.token.worker # c.worker}
    /\ UNCHANGED <<db, leases, sessions, alive, clock>>

-------------------------------------------------------------------------------
(* Children started and canceled by a handler.  A migration runs no handler. *)

Executing(c) == c.state = "running" /\ c.act.kind # "migration"

\* DurableContext::child_start.  The run of a start is decided when the handler asks: the one
\* the reuse policy keeps, or a new one, whose name nobody has.
Decided(start, now) ==
    LET kept == KeptRun(db, start)
    IN  [start EXCEPT !.at = now, !.ref = IF kept = {} THEN @ ELSE CHOOSE r \in kept : TRUE]
BufferStart(c, start, now) ==
    LET decided == Decided(start, now)
    IN  /\ Executing(c)
        /\ \A x \in c.starts : x.key # start.key /\ x.ref # decided.ref
        /\ start.reuse # "always" => \A x \in c.starts : x.ref[1] # start.ref[1]
        /\ KeptRun(db, start) = {} => db.inst[start.ref].status = "absent"
        /\ held' = (held \ {c}) \cup {[c EXCEPT !.starts = @ \cup {decided}]}
        /\ UNCHANGED <<db, leases, sessions, attempts, alive, clock>>

\* create_child_instance: a start that has a record already is answered from it.
CreateChild(c, start, now) ==
    /\ Executing(c)
    /\ db.childCounter < MaxChildren
    /\ RecordsForKey(db, c.act, start.key) = {}
    /\ KeptRun(db, start) = {} => db.inst[start.ref].status = "absent"
    /\ db' = Started(db, c, [start EXCEPT !.at = now, !.conflict = "fail"], now)
    /\ UNCHANGED <<leases, sessions, held, attempts, alive, clock>>

\* DurableContext::child_cancel of a child that is buffered, or else of a run.
CancelBuffered(c, start) ==
    /\ CancelsChildren /\ Executing(c) /\ start \in c.starts
    /\ held' = (held \ {c}) \cup {[c EXCEPT !.starts = @ \ {start}]}
    /\ UNCHANGED <<db, leases, sessions, attempts, alive, clock>>
CancelChild(c, r, now) ==
    /\ CancelsChildren /\ Executing(c)
    /\ \A x \in c.starts : x.ref # r
    /\ db' = CancelChildRun(db, c.act.ref, r, now)
    /\ UNCHANGED <<leases, sessions, held, attempts, alive, clock>>

-------------------------------------------------------------------------------
(* Activities. *)

UsedIds == {x.token.n : x \in attempts} \cup {e.token.n : e \in db.effects}
FreshIds == {n \in 1..MaxAttemptIds : n \notin UsedIds /\ \A m \in 1..(n - 1) : m \in UsedIds}

\* A terminal effect is answered from the ledger, and one whose retry is not due is an error,
\* after the timeouts the call expired.
ReserveEffect(c, key, now) ==
    LET d1   == ExpireTimeouts(db, Expirable(db, c.worker, now), now)
        open == \A e \in EffectFor(d1, c.act, key) : e.status = "pending" /\ e.next <= now
    IN  /\ Executing(c) /\ db.inst[c.act.ref].status # "absent"
        /\ \A x \in AttemptsOf(c) : x.key # key
        /\ IF open
           THEN \E n \in FreshIds :
                    LET token == [n |-> n, worker |-> c.worker]
                    IN  /\ db' = Reserve(d1, c.act, key, token, now)
                        /\ attempts' = attempts \cup {[act |-> c.act, key |-> key, token |-> token]}
           ELSE db' = d1 /\ attempts' = attempts
        /\ UNCHANGED <<leases, sessions, held, alive, clock>>

\* The calls of an executing attempt.  One that is no longer the pending attempt is
\* refused, after the timeouts it expired.
HeartbeatEffect(x, now) ==
    LET d1 == ExpireTimeouts(db, Expirable(db, x.token.worker, now), now)
        E  == PendingAttempt(d1, x.act, x.key, x.token)
    IN  /\ db' = IF E = {} THEN d1 ELSE Beat(d1, CHOOSE e \in E : TRUE, now)
        /\ UNCHANGED <<leases, sessions, held, attempts, alive, clock>>

CompleteEffect(x, now) ==
    LET d1 == ExpireTimeouts(db, Expirable(db, x.token.worker, now), now)
        E  == PendingAttempt(d1, x.act, x.key, x.token)
    IN  /\ db' = IF E = {} THEN d1 ELSE Complete(d1, CHOOSE e \in E : TRUE)
        /\ attempts' = attempts \ {x}
        /\ UNCHANGED <<leases, sessions, held, alive, clock>>

FailEffect(x, retryable, now) ==
    LET d1 == ExpireTimeouts(db, Expirable(db, x.token.worker, now), now)
        E  == PendingAttempt(d1, x.act, x.key, x.token)
    IN  /\ db' = IF E = {} THEN d1 ELSE Fail(d1, CHOOSE e \in E : TRUE, now, retryable)
        /\ attempts' = attempts \ {x}
        /\ UNCHANGED <<leases, sessions, held, alive, clock>>

\* An activity of commit durability that fails is only noted by its handler ...
FailLocally(c, key) ==
    /\ Executing(c)
    /\ held' = (held \ {c}) \cup {[c EXCEPT !.failed = @ \cup {key}]}
    /\ UNCHANGED <<db, leases, sessions, attempts, alive, clock>>

\* ... unless its runner reports it, whoever holds the claim by now.
RecordActivationFailure(c, key, release) ==
    /\ Executing(c) /\ db.inst[c.act.ref].status # "absent"
    /\ db' = RecordFailures(db, c.act, {key}, release)
    /\ UNCHANGED <<leases, sessions, held, attempts, alive, clock>>

-------------------------------------------------------------------------------
(* The environment. *)

\* A worker dies with its claims, leases and attempts in hand, and does not come back: its
\* successor is another worker.
Crash(w) ==
    /\ w \in Crashing \cap alive
    /\ alive' = alive \ {w}
    /\ sessions' = [sessions EXCEPT ![w] = [s \in Shards |-> 0]]
    /\ held' = {c \in held : c.worker # w}
    /\ attempts' = {x \in attempts : x.token.worker # w}
    /\ UNCHANGED <<db, leases, clock>>

Tick ==
    /\ clock < MaxTime
    /\ clock' = clock + 1
    /\ UNCHANGED <<db, leases, sessions, held, attempts, alive>>

-------------------------------------------------------------------------------

Clients == \E now \in Instants :
    \/ \E in \in ClientStarts : StartWorkflow(in, now)
    \/ \E in \in Appends : Signals(in, now)
    \/ \E in \in SendStarts : StartSendSignal(in, now)

Shard(w, s) ==
    \/ ReleaseShard(w, s)
    \/ \E now \in Instants : ClaimShard(w, s, now) \/ HeartbeatShard(w, s, now) \/ ClaimTasks(w, s, now)

Settles(c) ==
    \/ ReleaseClaim(c)
    \/ HandlerFails(c)
    \/ \E now \in Instants :
         \/ \E res \in Results(c) : Commit(c, res, now)
         \/ CommitRefused(c, now)
         \/ CommitRejected(c, now)

At(inputs, c) == {x.start : x \in {y \in inputs : y.id = c.act.ref[1] /\ y.seq = c.act.seq}}
Handler(c) ==
    \/ \E start \in c.starts : CancelBuffered(c, start)
    \/ \E key \in CheckpointKeys : FailLocally(c, key)
    \/ \E key \in CheckpointKeys, release \in BOOLEAN : RecordActivationFailure(c, key, release)
    \/ \E now \in Instants :
         \/ \E start \in At(CheckpointStarts, c) : BufferStart(c, start, now)
         \/ \E start \in At(EagerStarts, c) : CreateChild(c, start, now)
         \/ \E r \in Refs : CancelChild(c, r, now)
         \/ \E key \in EagerKeys : ReserveEffect(c, key, now)

Activity(x) == \E now \in Instants :
    \/ HeartbeatEffect(x, now)
    \/ CompleteEffect(x, now)
    \/ \E retryable \in BOOLEAN : FailEffect(x, retryable, now)

Next ==
    \/ Clients
    \/ \E w \in alive, s \in Shards : Shard(w, s)
    \/ \E c \in held : Settles(c) \/ Handler(c)
    \/ \E x \in attempts : Activity(x)
    \/ \E w \in Workers : Crash(w)
    \/ Tick

Spec == Init /\ [][Next]_vars
===============================================================================
