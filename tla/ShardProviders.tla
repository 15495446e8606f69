----------------------------- MODULE ShardProviders ---------------------------
(***************************************************************************)
(* How a call reaches the store of its shard (crates/durable/src/lib.rs,   *)
(* ShardRouter, and crates/durable/src/postgres.rs).                       *)
(*                                                                         *)
(* A router gives every shard an actor that owns the shard's store, knows  *)
(* the shard of each run (its directory) and caches the runs.  In memory   *)
(* any number of calls go through one router at the same time, each in     *)
(* several steps.  Over Postgres a process has one call at a time, but     *)
(* several processes share the journal: a read first loads the store from  *)
(* the latest snapshot and the journal after it, one partition after       *)
(* another; a write does so too, and then again in a transaction that no   *)
(* other writer enters, before it executes and is recorded.                *)
(*                                                                         *)
(* The engine is reduced to what the routing can spoil: a run that exists, *)
(* receives signals and makes checkpoints that consume them.               *)
(***************************************************************************)
EXTENDS Naturals, Sequences, FiniteSets

CONSTANTS
    Processes, NoProcess,
    Runs, Shards, ShardOf,      \* the runs and the shard of each
    Journaled,                  \* whether the provider is Postgres rather than memory
    Partitions, PartitionOf,    \* the numbers of the physical partitions, from 0, and that of each shard
    SnapshotInterval,           \* the entries of a shard from one snapshot to the next, 0 for no snapshots
    Asks,                       \* the operations that the callers of each process ask for
    Calls,                      \* how many calls a process has under way at most
    MaxSignals, MaxSequence, MaxActors, MaxEntries      \* bounds

ASSUME RoutingAssumption == ShardOf \in [Runs -> Shards] /\ PartitionOf \in [Shards -> 0..(Partitions - 1)]
ASSUME CallAssumption == Journaled \in BOOLEAN /\ (Journaled => Calls = 1)
ASSUME NumberAssumption ==
    NoProcess \notin Processes /\ Partitions \in Nat /\ Calls \in Nat /\ SnapshotInterval \in Nat /\ MaxActors \in Nat

VARIABLES
    actors,     \* the actor of each shard in each process, 0 for none
    engines,    \* the store of each actor that lives
    initial,    \* initial_shards: the stores of shards that have no actor yet
    directory,  \* the runs whose shard a process knows
    cache,      \* instance_cache: the sequence of each run, 0 for none
    calls,      \* the calls under way
    told,       \* the highest sequence of each run that a caller was told of
    journal,    \* the entries of all partitions in the order of their global entry ids
    snapshot,   \* the latest snapshot: a store and the entries it covers
    writer      \* the process whose transaction holds the global write lock

vars == <<actors, engines, initial, directory, cache, calls, told, journal, snapshot, writer>>

-------------------------------------------------------------------------------
(* Stores.  The sequence of a run starts at 1; 0 is a run that does not exist. *)

Store == [counter : Nat, seq : [Runs -> Nat], inbox : SUBSET (Runs \X Nat)]
EmptyStore == [counter |-> 0, seq |-> [r \in Runs |-> 0], inbox |-> {}]

\* Operations: a run is created; a signal arrives, whose id is the next number; a checkpoint
\* consumes a signal; a run is read.
Creates == [kind : {"create"}, run : Runs, id : {0}]
Appends == [kind : {"signal"}, run : Runs, id : {0}]
Commits == [kind : {"commit"}, run : Runs, id : 1..MaxSignals]
Loads   == [kind : {"load"}, run : Runs, id : {0}]
Operations == Creates \cup Appends \cup Commits \cup Loads
ASSUME AskAssumption == Asks \in [Processes -> SUBSET Operations]

\* Whether an operation changes the store, and so is recorded.
Mutates(d, op) ==
    CASE op.kind = "create" -> d.seq[op.run] = 0
      [] op.kind = "signal" -> d.seq[op.run] # 0
      [] op.kind = "commit" -> d.seq[op.run] # 0 /\ <<op.run, op.id>> \in d.inbox
      [] OTHER              -> FALSE
Apply(d, op) ==
    CASE op.kind = "create" -> [d EXCEPT !.seq[op.run] = 1]
      [] op.kind = "signal" -> [d EXCEPT !.counter = @ + 1, !.inbox = @ \cup {<<op.run, d.counter + 1>>}]
      [] OTHER              -> [d EXCEPT !.seq[op.run] = @ + 1, !.inbox = @ \ {<<op.run, op.id>>}]

\* split_store_by_shard: a shard with nothing in it gets no store, and starts to count anew.
PartOf(d, s) ==
    [d EXCEPT !.seq = [r \in Runs |-> IF ShardOf[r] = s THEN d.seq[r] ELSE 0],
              !.inbox = {x \in d.inbox : ShardOf[x[1]] = s}]
Split(d) == [s \in Shards |-> IF \A r \in Runs : ShardOf[r] = s => d.seq[r] = 0 THEN EmptyStore ELSE PartOf(d, s)]
\* merge_shard_stores
Highest(S) == CHOOSE x \in S : \A y \in S : y <= x
Merge(parts) ==
    [counter |-> Highest({parts[s].counter : s \in Shards}),
     seq |-> [r \in Runs |-> parts[ShardOf[r]].seq[r]],
     inbox |-> UNION {parts[s].inbox : s \in Shards}]

\* apply_journal_operation for the entries, in the order of their numbers, of a set of them.  An
\* entry that conflicts makes the load fail.
Replay(d, entries) ==
    LET ran[n \in 0..Len(journal)] ==
            IF n = 0 THEN [store |-> d, ok |-> TRUE]
            ELSE IF n \notin entries THEN ran[n - 1]
            ELSE [store |-> Apply(ran[n - 1].store, journal[n]),
                  ok |-> ran[n - 1].ok /\ Mutates(ran[n - 1].store, journal[n])]
    IN  ran[Len(journal)]
Stored(n) == Replay(EmptyStore, 1..n).store
Latest == Replay(snapshot.store, (snapshot.upto + 1)..Len(journal))

-------------------------------------------------------------------------------
(* Calls. *)

Idle == [stage |-> "idle"]
Slots == Processes \X (1..Calls)
NoSnapshot == [store |-> EmptyStore, upto |-> 0]
NewCall(op) ==
    [stage |-> "asked", op |-> op, since |-> IF op.kind = "load" THEN Len(journal) ELSE 0,
     base |-> NoSnapshot, next |-> 0, rows |-> {}, actor |-> 0, mutated |-> FALSE, outcome |-> "none", seq |-> 0]
At(k, stage) == calls[k].stage = stage
Step(k, stage) == [calls EXCEPT ![k].stage = stage]
Loaded(k, stage) == [calls EXCEPT ![k] = [@ EXCEPT !.stage = stage, !.base = NoSnapshot, !.rows = {}]]
Answered(k, outcome, seq) ==
    [calls EXCEPT ![k] = [@ EXCEPT !.stage = "answered", !.base = NoSnapshot, !.rows = {}, !.outcome = outcome, !.seq = seq]]

Init ==
    /\ actors = [p \in Processes |-> [s \in Shards |-> 0]]
    /\ engines = [a \in {} |-> EmptyStore]
    /\ initial = [p \in Processes |-> [s \in Shards |-> EmptyStore]]
    /\ directory = [p \in Processes |-> {}]
    /\ cache = [p \in Processes |-> [r \in Runs |-> 0]]
    /\ calls = [k \in Slots |-> Idle]
    /\ told = [r \in Runs |-> 0]
    /\ journal = <<>>
    /\ snapshot = NoSnapshot
    /\ writer = NoProcess

routers == <<actors, engines, initial, directory, cache>>
stored  == <<journal, snapshot, writer>>

Ask(k, op) ==
    /\ At(k, "idle")
    /\ calls' = [calls EXCEPT ![k] = IF Journaled THEN [NewCall(op) EXCEPT !.stage = "loading", !.base = snapshot] ELSE NewCall(op)]
    /\ UNCHANGED <<routers, told, stored>>

-------------------------------------------------------------------------------
(* Postgres: catching up. *)

\* The actors of a process, registered or in the hand of a call.
Of(p) == {actors[p][s] : s \in Shards} \cup {calls[<<p, i>>].actor : i \in {j \in 1..Calls : calls[<<p, j>>].stage # "idle"}}

\* Mutant: the cache outlives the reset.
ResetKeepingCache(p, d) ==
    /\ actors' = [actors EXCEPT ![p] = [s \in Shards |-> 0]]
    /\ engines' = [a \in DOMAIN engines \ Of(p) |-> engines[a]]
    /\ initial' = [initial EXCEPT ![p] = Split(d)]
    /\ directory' = [directory EXCEPT ![p] = {r \in Runs : d.seq[r] # 0}]
    /\ cache' = [cache EXCEPT ![p] = [r \in Runs |-> IF @[r] = 0 THEN d.seq[r] ELSE @[r]]]

\* reset_from_store: the actors are shut down, and with them their stores; the directory and the
\* cache are those of the loaded store.
Reset(p, d) ==
    /\ actors' = [actors EXCEPT ![p] = [s \in Shards |-> 0]]
    /\ engines' = [a \in DOMAIN engines \ Of(p) |-> engines[a]]
    /\ initial' = [initial EXCEPT ![p] = Split(d)]
    /\ directory' = [directory EXCEPT ![p] = {r \in Runs : d.seq[r] # 0}]
    /\ cache' = [cache EXCEPT ![p] = d.seq]

\* load_postgres_store: the journal is read partition by partition, with no transaction around.
ReadPartition(k) ==
    LET c    == calls[k]
        rows == {n \in (c.base.upto + 1)..Len(journal) : PartitionOf[ShardOf[journal[n].run]] = c.next}
    IN  /\ At(k, "loading") /\ c.next < Partitions
        /\ calls' = [calls EXCEPT ![k].rows = @ \cup rows, ![k].next = @ + 1]
        /\ UNCHANGED <<routers, told, stored>>

\* catch_up_postgres_unlocked; a write whose run is unknown by then is turned away by
\* postgres_shard_for_operation.
CatchUp(k) ==
    LET c      == calls[k]
        loaded == Replay(c.base.store, c.rows)
        known  == c.op.kind \in {"create", "load"} \/ loaded.store.seq[c.op.run] # 0
    IN  /\ At(k, "loading") /\ c.next = Partitions
        /\ IF loaded.ok
           THEN /\ Reset(k[1], loaded.store)
                /\ calls' = IF ~ known THEN Answered(k, "refused", 0)
                            ELSE Loaded(k, IF c.op.kind = "load" THEN "asked" ELSE "begun")
           ELSE calls' = Answered(k, "error", 0) /\ UNCHANGED routers
        /\ UNCHANGED <<told, stored>>

\* Mutant: the store is not loaded again in the transaction.
EnterStale(k) ==
    /\ At(k, "begun") /\ writer = NoProcess
    /\ writer' = k[1]
    /\ calls' = Step(k, "asked")
    /\ UNCHANGED <<routers, told, journal, snapshot>>

\* write_postgres_caught_up_locked: BEGIN, the locks, and the store once more.
Enter(k) ==
    /\ At(k, "begun") /\ writer = NoProcess
    /\ writer' = k[1]
    /\ Reset(k[1], Latest.store)
    /\ calls' = Step(k, "asked")
    /\ UNCHANGED <<told, journal, snapshot>>

-------------------------------------------------------------------------------
(* Routing. *)

Handle(k) == actors[k[1]][ShardOf[calls[k].op.run]]

\* cache_get
ReadCache(k) ==
    LET c == calls[k]
    IN  /\ At(k, "asked") /\ c.op.kind = "load" /\ cache[k[1]][c.op.run] # 0
        /\ calls' = Answered(k, "ok", cache[k[1]][c.op.run])
        /\ UNCHANGED <<routers, told, stored>>

\* shard_for_ref, load_instance_internal: a run that the directory does not know is looked for in
\* the stores of all known shards.
Holds(p, r) ==
    LET s == ShardOf[r]
    IN  IF actors[p][s] = 0 THEN initial[p][s].seq[r] # 0 ELSE engines[actors[p][s]].seq[r] # 0
LookUp(k) ==
    LET c == calls[k]
        p == k[1]
    IN  /\ At(k, "asked") /\ c.op.kind # "create"
        /\ c.op.kind = "load" => cache[p][c.op.run] = 0
        /\ c.op.run \notin directory[p]
        /\ IF Holds(p, c.op.run)
           THEN directory' = [directory EXCEPT ![p] = @ \cup {c.op.run}] /\ calls' = calls
           ELSE calls' = Answered(k, IF c.op.kind = "load" THEN "ok" ELSE "refused", 0) /\ UNCHANGED directory
        /\ UNCHANGED <<actors, engines, initial, cache, told, stored>>

\* ensure_actor: the registry is asked and unlocked ...
Routed(k) == \/ calls[k].op.kind = "create"
             \/ calls[k].op.run \in directory[k[1]] /\ (calls[k].op.kind = "load" => cache[k[1]][calls[k].op.run] = 0)
FindActor(k) ==
    /\ At(k, "asked") /\ Routed(k)
    /\ calls' = IF Handle(k) = 0 THEN Step(k, "spawning")
                ELSE [calls EXCEPT ![k].stage = "ready", ![k].actor = Handle(k)]
    /\ UNCHANGED <<routers, told, stored>>

\* ... without an actor the initial store of the shard, if it is still there, is taken, and an
\* actor started with it ...
FreeActors == (1..MaxActors) \ DOMAIN engines
SpawnActor(k) ==
    LET p == k[1]
        s == ShardOf[calls[k].op.run]
        a == CHOOSE x \in FreeActors : \A y \in FreeActors : x <= y
    IN  /\ At(k, "spawning") /\ FreeActors # {}
        /\ engines' = [x \in DOMAIN engines \cup {a} |-> IF x = a THEN initial[p][s] ELSE engines[x]]
        /\ initial' = [initial EXCEPT ![p][s] = EmptyStore]
        /\ calls' = [calls EXCEPT ![k].stage = "registering", ![k].actor = a]
        /\ UNCHANGED <<actors, directory, cache, told, stored>>

\* ... and registered, whoever is registered by now.
Register(k) ==
    /\ At(k, "registering")
    /\ actors' = [actors EXCEPT ![k[1]][ShardOf[calls[k].op.run]] = calls[k].actor]
    /\ calls' = Step(k, "ready")
    /\ UNCHANGED <<engines, initial, directory, cache, told, stored>>

\* An actor that is registered no more lives until the last call that has its handle.
Kept(k) == {actors[p][s] : p \in Processes, s \in Shards}
               \cup {calls[j].actor : j \in {i \in Slots \ {k} : calls[i].stage # "idle"}}

\* run_shard_actor, EngineOperation::apply
Execute(k) ==
    LET c == calls[k]
        d == engines[c.actor]
        m == Mutates(d, c.op)
        e == IF m THEN Apply(d, c.op) ELSE d
    IN  /\ At(k, "ready")
        /\ c.op.kind = "signal" => d.counter < MaxSignals
        /\ c.op.kind = "commit" => d.seq[c.op.run] < MaxSequence
        /\ engines' = [a \in DOMAIN engines \cap Kept(k) |-> IF a = c.actor THEN e ELSE engines[a]]
        /\ calls' = [calls EXCEPT ![k] = [@ EXCEPT
                         !.stage = "executed", !.actor = 0, !.mutated = m, !.seq = e.seq[c.op.run],
                         !.outcome = IF m \/ c.op.kind \in {"create", "load"} THEN "ok" ELSE "refused"]]
        /\ UNCHANGED <<actors, initial, directory, cache, told, stored>>

-------------------------------------------------------------------------------
(* Answering. *)

\* What the call learned goes into the directory and the cache, when its caller's task gets to it.
Learn(k) ==
    LET c == calls[k]
        p == k[1]
        known == c.op.kind \in {"create", "commit", "load"} /\ c.outcome = "ok" /\ c.seq # 0
    IN  /\ At(k, "executed")
        /\ directory' = [directory EXCEPT ![p] = IF known THEN @ \cup {c.op.run} ELSE @]
        /\ cache' = [cache EXCEPT ![p][c.op.run] = IF known THEN c.seq ELSE @]
        /\ calls' = Step(k, IF Journaled /\ c.op.kind # "load" THEN "recording" ELSE "answered")
        /\ UNCHANGED <<actors, engines, initial, told, stored>>

\* append_postgres_operation_for_shard_in_transaction and COMMIT.  With every so many entries of a
\* shard goes a snapshot of the whole router.
SnapshotDue(s) ==
    LET entry == Cardinality({n \in DOMAIN journal : ShardOf[journal[n].run] = s}) + 1
    IN  SnapshotInterval > 0 /\ entry % SnapshotInterval = 0
Whole(p) == Merge([s \in Shards |-> IF actors[p][s] = 0 THEN initial[p][s] ELSE engines[actors[p][s]]])
Record(k) ==
    /\ At(k, "recording")
    /\ IF calls[k].mutated
       THEN /\ Len(journal) < MaxEntries
            /\ journal' = Append(journal, calls[k].op)
            /\ snapshot' = IF SnapshotDue(ShardOf[calls[k].op.run])
                           THEN [store |-> Whole(k[1]), upto |-> Len(journal) + 1] ELSE snapshot
       ELSE UNCHANGED <<journal, snapshot>>
    /\ writer' = NoProcess
    /\ calls' = Step(k, "answered")
    /\ UNCHANGED <<routers, told>>

Return(k) ==
    LET c == calls[k]
    IN  /\ At(k, "answered")
        /\ told' = [told EXCEPT ![c.op.run] =
                       IF c.op.kind \in {"create", "commit"} /\ c.outcome = "ok" /\ c.seq > @ THEN c.seq ELSE @]
        /\ calls' = [calls EXCEPT ![k] = Idle]
        /\ UNCHANGED <<routers, stored>>

\* A process that crashes leaves its transaction to be rolled back, and starts anew.
Crash(p) ==
    /\ Journaled
    /\ \E i \in 1..Calls : calls[<<p, i>>].stage # "idle"
    /\ Reset(p, Latest.store)
    /\ calls' = [k \in Slots |-> IF k[1] = p THEN Idle ELSE calls[k]]
    /\ writer' = IF writer = p THEN NoProcess ELSE writer
    /\ UNCHANGED <<told, journal, snapshot>>

-------------------------------------------------------------------------------

Next ==
    \/ \E k \in Slots :
         \/ \E op \in Asks[k[1]] : Ask(k, op)
         \/ ReadPartition(k) \/ CatchUp(k) \/ Enter(k)
         \/ ReadCache(k) \/ LookUp(k) \/ FindActor(k) \/ SpawnActor(k) \/ Register(k) \/ Execute(k)
         \/ Learn(k) \/ Record(k) \/ Return(k)
    \/ \E p \in Processes : Crash(p)

Spec == Init /\ [][Next]_vars

-------------------------------------------------------------------------------

\* A read returns the latest committed instance visible to its caller (SPEC.md, Snapshot reads):
\* the run as it was at some instant of the call, whichever process wrote it.
ReadsAreLatest ==
    \A k \in Slots : At(k, "answered") /\ calls[k].op.kind = "load" =>
        /\ calls[k].outcome = "ok"
        /\ \E n \in calls[k].since..Len(journal) : calls[k].seq = Stored(n).seq[calls[k].op.run]

\* What a caller was told of is not forgotten: the provider guarantees a single-partition
\* authoritative state per workflow run (SPEC.md, Provider invariants), and every run that was
\* created and every checkpoint that was accepted is in it, or in a journal that loads.
ToldIsStored ==
    /\ Journaled => Latest.ok
    /\ \A p \in Processes, r \in Runs :
         LET d == IF Journaled THEN Latest.store ELSE Whole(p) IN told[r] <= d.seq[r]
===============================================================================
