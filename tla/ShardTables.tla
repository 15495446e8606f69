------------------------------ MODULE ShardTables -----------------------------
(***************************************************************************)
(* The Store of the shard engine as one record of tables, and the          *)
(* functions that change it, each as an operator from tables to tables.    *)
(* An operation of the engine is a composition of these; it has the Store  *)
(* to itself while it runs, so an operation is one step.                   *)
(***************************************************************************)
EXTENDS ShardTypes

Tables == [inst : [Refs -> Instance], signals : SUBSET Signal, children : SUBSET Child,
           tasks : SUBSET Task, claimed : SUBSET Marker, effects : SUBSET EffectRecord,
           completed : SUBSET CompletedClaim, signalCounter : Nat, childCounter : Nat]

EmptyTables == [inst |-> [r \in Refs |-> NoInstance], signals |-> {}, children |-> {},
                tasks |-> {}, claimed |-> {}, effects |-> {}, completed |-> {},
                signalCounter |-> 0, childCounter |-> 0]

Running(d, r) == d.inst[r].status = "running"
TasksOf(d, r) == {t \in d.tasks : t.act.ref = r}
TasksOfActivation(d, a) == {t \in d.tasks : t.act = a}

SameSequence(m, a) == m.ref = a.ref /\ m.seq = a.seq
UnmarkedFor(markers, T) == {m \in markers : ~ \E t \in T : SameSequence(m, t.act)}
Unclaimed(t) == [t EXCEPT !.owner = NoWorker, !.epoch = 0, !.until = 0]

-------------------------------------------------------------------------------
(* Runs of a workflow id, ordered by created_at and then run id. *)

RunsOf(d, id) == {r \in Refs : r[1] = id /\ d.inst[r].status # "absent"}
RunOrder(d, r, q) == \/ d.inst[r].createdAt < d.inst[q].createdAt
                     \/ d.inst[r].createdAt = d.inst[q].createdAt /\ r[2] <= q[2]
\* The last of a set of runs: empty, or a singleton.
LastOf(d, S) == {r \in S : \A q \in S : RunOrder(d, q, r)}
Latest(d, id) == LastOf(d, RunsOf(d, id))
LatestRunning(d, id) == LastOf(d, {r \in RunsOf(d, id) : Running(d, r)})

-------------------------------------------------------------------------------
(* Tasks.  delete_task always forgets that the sequence is claimed. *)

DeleteTasks(d, T) == [d EXCEPT !.tasks = @ \ T, !.claimed = UnmarkedFor(@, T)]

\* insert_task: a task replaces the one with its task id, which is the activation
\* id, and the wait name too for a signal.
InsertTasks(d, new) ==
    LET old == {t \in d.tasks : \E n \in new : t.act = n.act /\ (t.act.kind = "signal" => t.wait = n.wait)}
    IN  [DeleteTasks(d, old) EXCEPT !.tasks = @ \cup new]

\* Mutant: the task of a signal is labelled with its task kind, "event".
TaskForEvent(d, r, kind, name, n, wait, at) ==
    [act |-> [ref |-> r, seq |-> d.inst[r].seq, kind |-> IF kind = "signal" THEN "event" ELSE kind,
              name |-> name, n |-> n],
     wait |-> wait, version |-> d.inst[r].version, at |-> at,
     owner |-> NoWorker, epoch |-> 0, until |-> 0, blocked |-> 0]

TaskFor(d, r, kind, name, n, wait, at) ==
    [act |-> [ref |-> r, seq |-> d.inst[r].seq, kind |-> kind, name |-> name, n |-> n],
     wait |-> wait, version |-> d.inst[r].version, at |-> at,
     owner |-> NoWorker, epoch |-> 0, until |-> 0, blocked |-> 0]

\* The signals a wait can take: unconsumed, of its type, after a future wait's cursor.
Deliverable(d, r, w) ==
    {s \in d.signals : /\ s.ref = r /\ s.type = w.type /\ s.consumed = 0
                       /\ w.future => s.id > w.cursor}
\* The child records a wait can take.
Finished(d, r, w) ==
    {c \in d.children : /\ c.parent = r /\ c.ref = w.child
                        /\ c.status # "started" /\ c.delivered = 0}

\* insert_task_for_wait: the task of a wait, if the wait is ready.
TasksForWait(d, r, w) ==
    CASE w.kind = "run"    -> {TaskFor(d, r, "run", w.name, 0, w.name, w.at)}
      [] w.kind = "timer"  -> {TaskFor(d, r, "timer", w.name, w.at, w.name, w.at)}
      [] w.kind = "signal" -> {TaskFor(d, r, "signal", 0, s.id, w.name, s.at) :
                                   s \in Earliest(Deliverable(d, r, w), "at")}
      [] OTHER             -> {TaskFor(d, r, "child", 0, c.id, w.name, c.completedAt) :
                                   c \in Earliest(Finished(d, r, w), "completedAt")}

DerivedTasks(d, r) == UNION {TasksForWait(d, r, w) : w \in d.inst[r].waits}

\* Mutant: a run that is no longer running keeps its tasks.
ReplaceTasksOfRunning(d, r) ==
    LET cleared == DeleteTasks(d, TasksOf(d, r))
    IN  IF Running(d, r) THEN InsertTasks(cleared, DerivedTasks(cleared, r)) ELSE d

\* replace_tasks_for_instance
ReplaceTasks(d, r) ==
    LET cleared == DeleteTasks(d, TasksOf(d, r))
    IN  IF Running(d, r) THEN InsertTasks(cleared, DerivedTasks(cleared, r)) ELSE cleared

\* The same for the instance i as the caller remembers it: a copy, whatever has become of it.
ReplaceTasksAs(d, r, i) == [ReplaceTasks([d EXCEPT !.inst[r] = i], r) EXCEPT !.inst = d.inst]

\* refresh_signal_tasks_for_instance, refresh_child_tasks_for_instance
RefreshTasks(d, r, kind) ==
    LET cleared == DeleteTasks(d, {t \in TasksOf(d, r) : t.act.seq = d.inst[r].seq /\ t.act.kind = kind})
        waits   == {w \in d.inst[r].waits : w.kind = kind}
    IN  InsertTasks(cleared, UNION {TasksForWait(cleared, r, w) : w \in waits})

\* Mutant: the migration task takes the place of the tasks of the run.
RefreshMigrationsReplacing(d, shard, now, version) ==
    LET stale == {r \in Refs : ShardOf[r[1]] = shard /\ Running(d, r) /\ d.inst[r].version < version}
    IN  InsertTasks(DeleteTasks(d, {t \in d.tasks : t.act.ref \in stale}),
                    {TaskFor(d, r, "migration", 0, version, 0, now) : r \in stale})

\* refresh_migration_tasks: an older instance gets a migration task only when it has
\* no task of its current sequence; one that is up to date loses its migration task.
CurrentTasks(d, r) == {t \in TasksOf(d, r) : t.act.seq = d.inst[r].seq}
RefreshMigrations(d, shard, now, version) ==
    LET here  == {r \in Refs : ShardOf[r[1]] = shard /\ Running(d, r)}
        done  == {t \in d.tasks : /\ t.act.kind = "migration" /\ t.act.ref \in here
                                  /\ t.act.seq = d.inst[t.act.ref].seq
                                  /\ d.inst[t.act.ref].version >= version}
        stale == {r \in here : d.inst[r].version < version /\ CurrentTasks(d, r) = {}}
    IN  InsertTasks(DeleteTasks(d, done),
                    {TaskFor(d, r, "migration", 0, version, 0, now) : r \in stale})

-------------------------------------------------------------------------------
(* Waits. *)

\* Mutant: a future wait that is armed again starts after every signal so far.
StampedAnew(d, w, previous) ==
    IF w.kind # "signal" THEN w ELSE [w EXCEPT !.cursor = IF w.future THEN d.signalCounter ELSE 0]

\* stamp_signal_waits: a future wait keeps the cursor of the wait it continues, and
\* otherwise starts after every signal accepted so far.
Continues(w, p) == p.kind = "signal" /\ p.future /\ p.name = w.name /\ p.type = w.type
Stamped(d, w, previous) ==
    IF w.kind # "signal" THEN w
    ELSE IF ~ w.future THEN [w EXCEPT !.cursor = 0]
    ELSE IF \E p \in previous : Continues(w, p)
         THEN [w EXCEPT !.cursor = (CHOOSE p \in previous : Continues(w, p)).cursor]
         ELSE [w EXCEPT !.cursor = d.signalCounter]
StampWaits(d, waits, previous) == {Stamped(d, w, previous) : w \in waits}

\* materialize_waits: a run wait is ready at the instant the runtime passes; the instant of a
\* timer is computed by the handler.
Materialize(template, ready, now) ==
    {CASE w.kind = "run"   -> [w EXCEPT !.at = ready]
       [] w.kind = "timer" -> [w EXCEPT !.at = now + w.at]
       [] OTHER            -> w : w \in template}

-------------------------------------------------------------------------------
(* Instances and signals. *)

\* The instance record of a new run replaces one of the same name, with its effects.
NewInstance(d, r, version, waits, parent, now) ==
    LET i == [status |-> "running", seq |-> 0, version |-> version,
              waits |-> StampWaits(d, waits, {}), parent |-> parent, createdAt |-> now, updatedAt |-> now]
    IN  [d EXCEPT !.inst[r] = i, !.effects = {e \in @ : e.act.ref # r}]

\* Mutant: the tasks of the new run are not derived.
CreateInstanceWithoutTasks(d, r, version, waits, now) == NewInstance(d, r, version, waits, 0, now)

\* create_instance, once it is clear that a run is created.
CreateInstance(d, r, version, waits, now) == ReplaceTasks(NewInstance(d, r, version, waits, 0, now), r)

\* delete_instance_records
DeleteInstance(d, r) ==
    [DeleteTasks(d, TasksOf(d, r)) EXCEPT !.inst[r] = NoInstance,
                                          !.signals = {s \in @ : s.ref # r},
                                          !.children = {c \in @ : c.parent # r /\ c.ref # r},
                                          !.effects = {e \in @ : e.act.ref # r}]

\* find_signal_by_idempotency_key
SignalsWithKey(d, r, type, key) ==
    {s \in d.signals : key # NoKey /\ s.ref = r /\ s.type = type /\ s.key = key}

\* Mutants: the tasks of the run are not refreshed; the idempotency key is ignored.
AppendSignalQuietly(d, r, type, key, now) ==
    LET s == [id |-> d.signalCounter + 1, ref |-> r, type |-> type, key |-> key, at |-> now, consumed |-> 0]
    IN  IF SignalsWithKey(d, r, type, key) # {} THEN d
        ELSE [d EXCEPT !.signalCounter = @ + 1, !.signals = @ \cup {s}]
AppendSignalTwice(d, r, type, key, now) ==
    LET s  == [id |-> d.signalCounter + 1, ref |-> r, type |-> type, key |-> key, at |-> now, consumed |-> 0]
        d1 == [d EXCEPT !.signalCounter = @ + 1, !.signals = @ \cup {s}]
    IN  IF Running(d, r) THEN RefreshTasks(d1, r, "signal") ELSE d1

\* append_signal_to_instance_unsaved: the tasks of the run's signal waits are built anew.
AppendSignal(d, r, type, key, now) ==
    LET s  == [id |-> d.signalCounter + 1, ref |-> r, type |-> type, key |-> key,
               at |-> now, consumed |-> 0]
        d1 == [d EXCEPT !.signalCounter = @ + 1, !.signals = @ \cup {s}]
    IN  IF SignalsWithKey(d, r, type, key) # {} THEN d
        ELSE IF Running(d, r) THEN RefreshTasks(d1, r, "signal")
        ELSE d1

-------------------------------------------------------------------------------
(* Children. *)

\* Why the starts of a checkpoint cannot be written, or "none": a run that exists and is not
\* the one the reuse policy keeps.
KeptRun(d, start) ==
    {r \in Latest(d, start.ref[1]) : ~ ShouldCreate(start.reuse, d.inst[r].status)}
\* Mutant: a start that is repeated is not recognised.
RecordsForKeyNever(d, a, key) == {}
RecordsForKey(d, a, key) == {c \in d.children : c.parent = a.ref /\ c.act = a /\ c.key = key}
StartConflict(d, starts) ==
    IF \E x \in starts : /\ d.inst[x.ref].status # "absent"
                       /\ x.conflict # "terminate_existing"
                       /\ x.ref \notin KeptRun(d, x)
    THEN "existing_child_instance" ELSE "none"

\* The record of a start that is accepted.
ChildRecord(d, a, start, r) ==
    [id |-> d.childCounter + 1, parent |-> a.ref, act |-> a, key |-> start.key, ref |-> r,
     status |-> "started", policy |-> start.policy, completedAt |-> 0, delivered |-> 0]
WithRecord(d, a, start, r) ==
    [d EXCEPT !.childCounter = @ + 1, !.children = @ \cup {ChildRecord(d, a, start, r)}]

\* Mutant: the child is linked to the record before its own.
StartChildMislinked(d, a, start, version, waits, now) ==
    ReplaceTasks(WithRecord(NewInstance(d, start.ref, version, waits, d.childCounter, now), a, start, start.ref),
                 start.ref)

\* The run of a start that is accepted, and its record.
StartChild(d, a, start, version, waits, now) ==
    ReplaceTasks(WithRecord(NewInstance(d, start.ref, version, waits, d.childCounter + 1, now), a, start, start.ref),
                 start.ref)

\* A child start of a checkpoint: a record for the run the reuse policy keeps, or a new run,
\* for which a run of that name may be deleted first.
WriteChildStart(d, a, start, version, waits, now) ==
    LET d1 == IF start.conflict = "terminate_existing" THEN DeleteInstance(d, start.ref) ELSE d
    IN  IF KeptRun(d, start) # {}
        THEN WithRecord(d, a, start, CHOOSE r \in KeptRun(d, start) : TRUE)
        ELSE StartChild(d1, a, start, version, waits, now)

\* Mutants: the tasks of the parent are not rebuilt; only completed children are reported.
UpdateParentRecordQuietly(d, previous, next, now) ==
    [d EXCEPT !.children =
        {IF next # "running" /\ c.id = previous.parent /\ c.status = "started"
         THEN [c EXCEPT !.status = IF next = "completed" THEN next ELSE "failed", !.completedAt = now]
         ELSE c : c \in @}]
UpdateParentOfCompleted(d, previous, next, now) ==
    IF next # "completed" THEN d ELSE UpdateParentRecordQuietly(d, previous, next, now)

\* The record of a child that closes takes its outcome, and the child tasks of the parent
\* are built anew.  previous is the instance before it closed.
UpdateParentRecord(d, previous, next, now) ==
    LET mine == {c \in d.children : c.id = previous.parent}
        outcome == IF next = "completed" THEN "completed" ELSE "failed"
        d1 == [d EXCEPT !.children = {IF c \in mine /\ c.status = "started"
                                      THEN [c EXCEPT !.status = outcome, !.completedAt = now]
                                      ELSE c : c \in @}]
    IN  IF next = "running" \/ mine = {} THEN d
        ELSE RefreshTasks(d1, (CHOOSE c \in mine : TRUE).parent, "child")

\* Mutant: records that are already settled are closed again.
ClosedAgain(d, r) ==
    LET Reaching(S) == \A c \in d.children :
            c.parent = r \/ (\E x \in S : x.policy = "cancel" /\ x.ref = c.parent) => c \in S
    IN  {c \in d.children : \A S \in SUBSET d.children : Reaching(S) => c \in S}

\* The started records of a run.
OpenUnder(d, r) == {c \in d.children : c.parent = r /\ c.status = "started"}

\* Mutant: only the run's own children are reached.
ClosedDirectly(d, r) == OpenUnder(d, r)

\* The started records under a run that closing it reaches: its own, and below each
\* record that is canceled rather than abandoned, the records of that child.
ClosedWith(d, r) ==
    LET open == {c \in d.children : c.status = "started"}
        Reaching(S) == \A c \in open :
            c.parent = r \/ (\E x \in S : x.policy = "cancel" /\ x.ref = c.parent) => c \in S
    IN  {c \in open : \A S \in SUBSET open : Reaching(S) => c \in S}

\* Mutant: a record is settled with the sequence of its own parent.
ApplyClosePolicyByLevel(d, r, next, seq, now) ==
    LET hit    == ClosedWith(d, r)
        killed == {c.ref : c \in {x \in hit : x.policy = "cancel" /\ Running(d, x.ref)}}
        close(c) == IF c.policy = "abandon" THEN [c EXCEPT !.status = "abandoned", !.delivered = d.inst[c.parent].seq]
                    ELSE [c EXCEPT !.status = "failed", !.completedAt = now, !.delivered = d.inst[c.parent].seq]
        d1 == DeleteTasks(d, {t \in d.tasks : t.act.ref \in killed})
    IN  IF next \notin {"failed", "canceled"} THEN d
        ELSE [d1 EXCEPT !.children = {IF c \in hit THEN close(c) ELSE c : c \in @},
                        !.inst = [q \in Refs |-> IF q \in killed
                                                 THEN [d.inst[q] EXCEPT !.status = "canceled", !.waits = {}, !.updatedAt = now]
                                                 ELSE d.inst[q]]]

\* apply_parent_close_policy and cancel_child_tree_for_parent_close
ApplyClosePolicy(d, r, next, seq, now) ==
    LET hit    == ClosedWith(d, r)
        killed == {c.ref : c \in {x \in hit : x.policy = "cancel" /\ Running(d, x.ref)}}
        close(c) == IF c.policy = "abandon" THEN [c EXCEPT !.status = "abandoned", !.delivered = seq]
                    ELSE [c EXCEPT !.status = "failed", !.completedAt = now, !.delivered = seq]
        d1 == DeleteTasks(d, {t \in d.tasks : t.act.ref \in killed})
    IN  IF next \notin {"failed", "canceled"} THEN d
        ELSE [d1 EXCEPT !.children = {IF c \in hit THEN close(c) ELSE c : c \in @},
                        !.inst = [q \in Refs |-> IF q \in killed
                                                 THEN [d.inst[q] EXCEPT !.status = "canceled", !.waits = {}, !.updatedAt = now]
                                                 ELSE d.inst[q]]]

\* Mutant: a canceled child counts as completed.
CancelChildCompleted(d, p, r, now) ==
    DeleteTasks([d EXCEPT !.inst[r].status = IF Running(d, r) THEN "completed" ELSE @], TasksOf(d, r))

\* cancel_child_in_state: the first record of the child that is still started is closed.  The
\* children of the child stay as they are.
CancelChildRun(d, p, r, now) ==
    LET started == {x \in d.children : x.parent = p /\ x.ref = r /\ x.status = "started"}
        first   == {x \in started : \A y \in started : x.id <= y.id}
        i       == [d.inst[r] EXCEPT !.status = "canceled", !.waits = {}, !.updatedAt = now]
        closed  == [d EXCEPT !.inst[r] = i]
        d1 == IF Running(d, r) THEN DeleteTasks(closed, TasksOf(d, r)) ELSE d
        d2 == [d1 EXCEPT !.children = {IF x \in first THEN [x EXCEPT !.status = "failed", !.completedAt = now]
                                       ELSE x : x \in @}]
    IN  IF started = {} THEN d
        ELSE IF Running(d2, p) THEN RefreshTasks(d2, p, "child") ELSE d2
===============================================================================
