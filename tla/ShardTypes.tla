------------------------------ MODULE ShardTypes ------------------------------
(***************************************************************************)
(* The vocabulary of the shard engine (crates/durable/src/lib.rs): the     *)
(* parameters of the model, the records of its Store, and the pure         *)
(* functions it computes on them.                                          *)
(*                                                                         *)
(* Instants are natural numbers: 0 is both None and the Unix epoch, which  *)
(* precedes every instant a call can carry.  Names, payloads and user data *)
(* are abstracted to the identity the engine compares.                     *)
(***************************************************************************)
EXTENDS Naturals, Sequences, FiniteSets

CONSTANTS
    Workers,        \* worker ids (lease owners)
    NoWorker,       \* an absent owner
    Shards,         \* dispatch shards
    Ids,            \* workflow ids
    RunIds,         \* run ids, numbers: their order is the string order of run ids
    ShardOf,        \* workflow_partition_shard: a function of the workflow id only
    Names,          \* wait names, positive numbers: their order is the string order
    SignalTypes,
    Keys,           \* idempotency keys
    NoKey,
    EffectKeys,     \* activity keys, numbers in the order a handler first uses them
    Effect,         \* [EffectKeys -> EffectOptions]: the options of each activity
    Versions,       \* workflow versions, numbers
    VersionOf,      \* [Workers -> Versions]: the version a worker registered
    StartKeys,      \* the keys of child starts
    ShardLeaseMs, TaskLeaseMs

Refs == Ids \X RunIds

ASSUME WorkerAssumption == NoWorker \notin Workers
ASSUME KeyAssumption == NoKey \notin Keys
ASSUME NumberAssumption ==
    /\ RunIds \subseteq Nat /\ Names \subseteq Nat \ {0} /\ EffectKeys \subseteq Nat
    /\ Versions \subseteq Nat
    /\ ShardLeaseMs \in Nat \ {0} /\ TaskLeaseMs \in Nat \ {0}
ASSUME RoutingAssumption ==
    /\ ShardOf \in [Ids -> Shards]
    /\ VersionOf \in [Workers -> Versions]

-------------------------------------------------------------------------------
(* The records of the engine. *)

Closed == {"completed", "failed", "canceled"}

RunWait    == [kind : {"run"}, name : Names, at : Nat]
TimerWait  == [kind : {"timer"}, name : Names, at : Nat]
SignalWait == [kind : {"signal"}, name : Names, type : SignalTypes, future : BOOLEAN, cursor : Nat]
ChildWait  == [kind : {"child"}, name : Names, child : Refs]
Wait == RunWait \cup TimerWait \cup SignalWait \cup ChildWait

\* PersistedInstance; parent is the number of the child record that started it, 0 for none.
Instance == [status : {"absent", "running"} \cup Closed, seq : Nat, version : Nat,
             waits : SUBSET Wait, parent : Nat, createdAt : Nat, updatedAt : Nat]
NoInstance == [status |-> "absent", seq |-> 0, version |-> 0, waits |-> {}, parent |-> 0,
               createdAt |-> 0, updatedAt |-> 0]

\* An activation id: ref/sequence/kind/event id.  The event id is the wait name of
\* a run, the name and time of a timer, the number of a signal or child record,
\* the target version of a migration.
Kinds == {"child", "migration", "run", "signal", "timer"}
Activation == [ref : Refs, seq : Nat, kind : Kinds, name : Nat, n : Nat]

\* MemoryTask: the activation, the wait that made it ready, and its claim.
Task == [act : Activation, wait : Nat, version : Nat, at : Nat,
         owner : Workers \cup {NoWorker}, epoch : Nat, until : Nat, blocked : Nat]

\* claimed_sequence_epochs: the sequences that are claimed, each with the shard epoch.
Marker == [ref : Refs, seq : Nat, epoch : Nat]

\* SignalRecord; consumed is consumed_by_sequence.
Signal == [id : Nat, ref : Refs, type : SignalTypes, key : Keys \cup {NoKey}, at : Nat, consumed : Nat]

\* ChildRecord; delivered is delivered_by_sequence.  The close policy "wait" is treated as
\* "cancel".
ClosePolicies == {"cancel", "abandon"}
Child == [id : Nat, parent : Refs, act : Activation, key : StartKeys, ref : Refs,
          status : {"started", "completed", "failed", "abandoned"}, policy : ClosePolicies,
          completedAt : Nat, delivered : Nat]

\* EffectRecord.  The token is the attempt id, a fresh uuid, with attempt_owner_id; begun
\* is attempt_started_at.
Token == [n : Nat, worker : Workers \cup {NoWorker}]
NoToken == [n |-> 0, worker |-> NoWorker]
EffectRecord == [act : Activation, key : EffectKeys, status : {"pending", "completed", "failed"},
                 attempt : Nat \ {0}, token : Token, begun : Nat, start : Nat, hb : Nat,
                 first : Nat, next : Nat]

\* CompletedActivationClaim.  The owner is for the properties: the code stores None.
CompletedClaim == [act : Activation, owner : Workers]

ShardLease == [owner : Workers \cup {NoWorker}, until : Nat, epoch : Nat]
NoLease == [owner |-> NoWorker, until |-> 0, epoch |-> 0]

-------------------------------------------------------------------------------
(* Inputs. *)

ReusePolicies == {"always", "not_running", "failed_only"}
NoPolicy == "none"
ConflictPolicies == {"fail", "use_existing", "terminate_existing"}

\* CheckpointChildStart, CreateChildInstanceInput: a child start that is buffered for the
\* checkpoint or sent at once; at is the instant its waits were computed.
ChildStart == [key : StartKeys, ref : Refs, policy : ClosePolicies, reuse : ReusePolicies,
               conflict : ConflictPolicies, at : Nat]

\* ActivityOptions: timeouts and the elapsed limit are 0 when the activity has none; delays
\* are the waits before its second attempt, its third and so on.
EffectOptions == [start : Nat, hb : Nat, delays : Seq(Nat), elapsed : Nat]
ASSUME EffectAssumption == Effect \in [EffectKeys -> EffectOptions]

-------------------------------------------------------------------------------
(* Pure functions. *)

\* Mutant: a run that is still running does not prevent another.
ShouldCreateOverRunning(policy, status) == policy \in {"always", "not_running"} \/ status \in {"failed", "canceled"}

\* should_create_workflow_run
ShouldCreate(policy, status) ==
    CASE policy = "always"      -> TRUE
      [] policy = "not_running" -> status # "running"
      [] OTHER                  -> status \in {"failed", "canceled"}

\* task_sort_key: the time a task is ready, its kind, the wait name, the event id.
KindRank == [child |-> 1, migration |-> 2, run |-> 3, signal |-> 4, timer |-> 5]
SortKey(t) == <<t.at, KindRank[t.act.kind], t.wait, t.act.n>>
SortsBefore(t, u) ==
    \E i \in 1..4 : /\ SortKey(t)[i] < SortKey(u)[i]
                    /\ \A j \in 1..(i - 1) : SortKey(t)[j] = SortKey(u)[j]

\* The earliest of a set of signals or child records, by the time in field at and then by
\* id.  The code orders ids as strings: the order of their numbers while these have one digit.
Earliest(S, at) == {x \in S : \A y \in S : x[at] < y[at] \/ (x[at] = y[at] /\ x.id <= y.id)}

\* retry_decision_for_effect: whether the policy grants another attempt, and when.
Lesser(a, b) == IF a <= b THEN a ELSE b
Backoff(initial, coefficient, cap, attempt) == Lesser(cap, initial * coefficient ^ (attempt - 1))
MaxAttempts(key) == Len(Effect[key].delays) + 1
RetryAt(e, now) == now + Effect[e.key].delays[e.attempt]
RetryGranted(e, now, retryable) ==
    LET o == Effect[e.key]
    IN  /\ retryable
        /\ e.attempt < MaxAttempts(e.key)
        /\ o.elapsed # 0 => RetryAt(e, now) <= e.first + o.elapsed

\* deadline_from
Deadline(now, timeout) == IF timeout = 0 THEN 0 ELSE now + timeout
===============================================================================
