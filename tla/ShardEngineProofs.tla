--------------------------- MODULE ShardEngineProofs ---------------------------
(***************************************************************************)
(* Theorems about the shard engine for every number of workers, shards,    *)
(* runs, signals, activities and checkpoints: type correctness, epochs     *)
(* that name one owner, claims that the engine never loses, sequences      *)
(* that are marked only while their claim is in hand, commits that are     *)
(* fenced by those claims, idempotency keys that name one signal,          *)
(* activities that are attempted no more often than their policies allow,  *)
(* and workers that do not sleep past what falls due.                      *)
(***************************************************************************)
EXTENDS ShardProperties, ShardTableProofs

LEMMA InstantsType ==
    ASSUME TypeOK, NEW now \in Instants
    PROVE  now \in Nat
  BY DEF TypeOK, Instants

LEMMA InitialWaitsType ==
    ASSUME NEW r \in Refs, NEW ready \in Nat, NEW now \in Nat
    PROVE  Materialize(InitialWaits[r[1]], ready, now) \in SUBSET Wait
<1>1. r[1] \in Ids
  BY DEF Refs
<1>2. InitialWaits[r[1]] \in SUBSET Wait
  BY <1>1, InputAssumption
<1> QED
  BY <1>2, MaterializeType

LEMMA VersionOfType ==
    ASSUME NEW w \in Workers PROVE VersionOf[w] \in Nat
  BY RoutingAssumption, NumberAssumption

LEMMA ClaimFields ==
    ASSUME NEW c \in Claim
    PROVE  /\ c.worker \in Workers
           /\ c.act \in Activation
           /\ c.act.ref \in Refs
           /\ c.act.seq \in Nat
           /\ c.act.kind \in Kinds
           /\ c.act.n \in Nat
           /\ c.epoch \in Nat
           /\ c.at \in Nat
           /\ c.starts \in SUBSET ChildStart
           /\ c.failed \in SUBSET EffectKeys
  BY DEF Claim, Activation

-------------------------------------------------------------------------------
(* The tables after a checkpoint. *)

LEMMA StartedSafe ==
    ASSUME NEW d \in Tables, NEW c \in Claim, NEW start \in ChildStart, NEW now \in Nat
    PROVE  Safe(d, Started(d, c, start, now))
<1>1. start.ref \in Refs /\ start.at \in Nat
  BY DEF ChildStart
<1>2. Materialize(InitialWaits[start.ref[1]], start.at, start.at) \in SUBSET Wait
  BY <1>1, InitialWaitsType
<1>3. VersionOf[c.worker] \in Nat
  BY VersionOfType, ClaimFields
<1> QED
  BY <1>2, <1>3, WriteChildStartSafe, ClaimFields DEF Started

LEMMA StartedAllSafe ==
    ASSUME NEW d \in Tables, NEW c \in Claim, NEW starts \in Seq(ChildStart), Len(starts) <= 2,
           NEW now \in Nat
    PROVE  Safe(d, StartedAll(d, c, starts, now))
<1>1. Len(starts) \in Nat /\ \A i \in 1..Len(starts) : starts[i] \in ChildStart
  OBVIOUS
<1>2. CASE Len(starts) = 0
  BY <1>2, SafeReflexive DEF StartedAll
<1>3. CASE Len(starts) = 1
  BY <1>1, <1>3, StartedSafe DEF StartedAll
<1>4. CASE Len(starts) = 2
  <2>1. starts[1] \in ChildStart /\ starts[2] \in ChildStart
    BY <1>1, <1>4
  <2> DEFINE d1 == Started(d, c, starts[1], now)
  <2>2. Safe(d, d1)
    BY <2>1, StartedSafe
  <2>3. StartedAll(d, c, starts, now) = Started(d1, c, starts[2], now)
    BY <1>4 DEF StartedAll
  <2> HIDE DEF d1
  <2>4. Safe(d1, Started(d1, c, starts[2], now))
    BY <2>1, <2>2, StartedSafe DEF Safe
  <2> QED
    BY <2>2, <2>3, <2>4, SafeTransitive
<1>5. \A n \in Nat : n <= 2 => n = 0 \/ n = 1 \/ n = 2
  OBVIOUS
<1> QED
  BY <1>1, <1>2, <1>3, <1>4, <1>5

LEMMA NextInstanceType ==
    ASSUME NEW d \in Tables, NEW i \in Instance, NEW next \in {"running"} \cup Closed,
           NEW waits \in SUBSET Wait, NEW version \in Nat, NEW now \in Nat
    PROVE  NextInstance(d, i, next, waits, version, now) \in Instance
<1>1. i.waits \in SUBSET Wait
  BY DEF Instance
<1>2. StampWaits(d, waits, i.waits) \in SUBSET Wait
  BY <1>1, StampWaitsType
<1> DEFINE ws == IF next = "running" THEN StampWaits(d, waits, i.waits) ELSE {}
<1>3. ws \in SUBSET Wait
  BY <1>2
<1>4. NextInstance(d, i, next, waits, version, now) =
        [i EXCEPT !.status = next, !.seq = i.seq + 1, !.version = version, !.waits = ws, !.updatedAt = now]
  BY DEF NextInstance
<1>5. i.seq + 1 \in Nat
  BY DEF Instance
<1> DEFINE n == i.seq + 1
<1> HIDE DEF ws, n
<1>6. [i EXCEPT !.status = next, !.seq = n, !.version = version, !.waits = ws, !.updatedAt = now] \in Instance
  BY <1>3, <1>5 DEF Instance, n
<1> QED
  BY <1>4, <1>6 DEF n

LEMMA ConsumedSafe ==
    ASSUME NEW d \in Tables, NEW a, NEW seq \in Nat
    PROVE  Safe(d, Consumed(d, a, seq))
<1> DEFINE signal(s) == IF a.kind = "signal" /\ s.id = a.n THEN [s EXCEPT !.consumed = seq] ELSE s
           child(x)  == IF a.kind = "child" /\ x.id = a.n THEN [x EXCEPT !.delivered = seq] ELSE x
           S == {signal(s) : s \in d.signals}
           C == {child(x) : x \in d.children}
           e == [d EXCEPT !.signals = S, !.children = C]
<1>1. Consumed(d, a, seq) = e
  BY DEF Consumed
<1>2. ASSUME NEW s \in d.signals
      PROVE  /\ signal(s) \in Signal
             /\ signal(s).id = s.id /\ signal(s).ref = s.ref
             /\ signal(s).type = s.type /\ signal(s).key = s.key
  <2>1. s \in Signal
    BY DEF Tables
  <2> QED
    BY <2>1 DEF Signal
<1>3. ASSUME NEW x \in d.children PROVE child(x) \in Child /\ child(x).id = x.id
  <2>1. x \in Child
    BY DEF Tables
  <2> QED
    BY <2>1 DEF Child
<1> HIDE DEF signal, child
<1>4. /\ C \in SUBSET Child
      /\ Numbered(d.children, d.childCounter) => Numbered(C, d.childCounter)
      /\ Numbered(d.signals, d.signalCounter) => Numbered(S, d.signalCounter)
  BY <1>2, <1>3 DEF Numbered
<1> HIDE DEF C
\* A signal that is consumed keeps its key.
<1>5. UniqueKeys(d.signals) => UniqueKeys(S)
  <2>1. SUFFICES ASSUME UniqueKeys(d.signals), NEW s \in S, NEW o \in S,
                        s.key # NoKey, s.key = o.key, s.ref = o.ref, s.type = o.type
                 PROVE  s.id = o.id
    BY DEF UniqueKeys
  <2>2. PICK s0 \in d.signals : s = signal(s0)
    OBVIOUS
  <2>3. PICK o0 \in d.signals : o = signal(o0)
    OBVIOUS
  <2>4. s0.key # NoKey /\ s0.key = o0.key /\ s0.ref = o0.ref /\ s0.type = o0.type
    BY <1>2, <2>1, <2>2, <2>3
  <2>5. s0.id = o0.id
    BY <2>1, <2>4 DEF UniqueKeys
  <2> QED
    BY <1>2, <2>2, <2>3, <2>5
<1>6. S \in SUBSET Signal
  BY <1>2
<1> HIDE DEF S
<1>7. /\ e \in Tables /\ e.tasks = d.tasks /\ e.completed = d.completed /\ e.claimed = d.claimed
      /\ e.signals = S /\ e.children = C /\ e.effects = d.effects /\ e.inst = d.inst
      /\ e.signalCounter = d.signalCounter /\ e.childCounter = d.childCounter
  BY <1>6, <1>4 DEF Tables
<1> HIDE DEF e
<1> QED
  BY <1>1, <1>5, <1>7, <1>4 DEF Safe, NoNewClaim, Sound

\* The tasks of a run are nobody's after they are rebuilt.
LEMMA RebuiltTasksAreFree ==
    ASSUME NEW d \in Tables, NEW r \in Refs
    PROVE  \A t \in ReplaceTasks(d, r).tasks : t.act.ref = r => t.owner = NoWorker
<1> DEFINE cleared == DeleteTasks(d, TasksOf(d, r))
           new == DerivedTasks(cleared, r)
<1>1. cleared \in Tables
  BY DeleteTasksSafe DEF Safe
<1>2. \A t \in cleared.tasks : t.act.ref # r
  BY DEF DeleteTasks, TasksOf, Tables
<1>3. ReplaceTasks(d, r) = IF Running(d, r) THEN InsertTasks(cleared, new) ELSE cleared
  BY DEF ReplaceTasks
<1> HIDE DEF cleared
<1>4. new \in SUBSET FreshTasks
  BY <1>1, InstanceFields, TasksForWaitFresh DEF DerivedTasks
<1> HIDE DEF new
<1>5. InsertTasks(cleared, new).tasks \subseteq cleared.tasks \cup new
  BY <1>1 DEF InsertTasks, DeleteTasks, Tables
<1> QED
  BY <1>2, <1>3, <1>4, <1>5 DEF FreshTasks

LEMMA RebuiltTasksAsAreFree ==
    ASSUME NEW d \in Tables, NEW r \in Refs, NEW i \in Instance
    PROVE  \A t \in ReplaceTasksAs(d, r, i).tasks : t.act.ref = r => t.owner = NoWorker
<1> DEFINE g == [d EXCEPT !.inst[r] = i]
           f == ReplaceTasks(g, r)
<1>1. g \in Tables
  BY DEF Tables
<1> HIDE DEF g
<1>2. f \in Tables /\ \A t \in f.tasks : t.act.ref = r => t.owner = NoWorker
  BY <1>1, ReplaceTasksSafe, RebuiltTasksAreFree DEF Safe
<1>3. ReplaceTasksAs(d, r, i) = [f EXCEPT !.inst = d.inst]
  BY DEF ReplaceTasksAs, g
<1> HIDE DEF f
<1> QED
  BY <1>2, <1>3 DEF Tables

\* An accepted checkpoint adds one claim to the completed ones, brings no new claim, and
\* frees every task of its run.
CommitsClaim(d, c, e) ==
    /\ e \in Tables
    /\ e.completed = d.completed \cup {[act |-> c.act, owner |-> c.worker]}
    /\ NoNewClaim(d, e)
    /\ \A t \in e.tasks : t.act.ref = c.act.ref => t.owner = NoWorker
    /\ Sound(d) => Sound(e)

LEMMA CheckpointTables ==
    ASSUME NEW d \in Tables, NEW c \in Claim, NEW next \in {"running"} \cup Closed,
           NEW waits \in SUBSET Wait, NEW starts \in Seq(ChildStart), Len(starts) <= 2,
           NEW now \in Nat
    PROVE  CommitsClaim(d, c, Checkpoint(d, c, next, waits, starts, now))
<1> DEFINE r   == c.act.ref
           i   == d.inst[r]
           seq == i.seq + 1
           d1  == [d EXCEPT !.inst[r] = NextInstance(d, i, next, waits, VersionOf[c.worker], now)]
           d1c == Consumed(d1, c.act, seq)
           E   == Settled(d1c.effects, c)
           d2  == [d1c EXCEPT !.effects = E]
           d3  == StartedAll(d2, c, starts, now)
           d4p == UpdateParentRecord(d3, i, next, now)
           d4  == ApplyClosePolicy(d4p, r, next, seq, now)
           n   == d1.inst[r]
           d5  == ReplaceTasksAs(d4, r, n)
           done == [act |-> c.act, owner |-> c.worker]
           e   == [d5 EXCEPT !.completed = d5.completed \cup {done}]
<1>1. Checkpoint(d, c, next, waits, starts, now) = e
  BY DEF Checkpoint
<1>2. r \in Refs /\ i \in Instance /\ seq \in Nat
  BY ClaimFields, InstanceFields
<1>3. Safe(d, d1) /\ n \in Instance /\ (n.status # "running" => n.waits = {})
  <2> DEFINE m == NextInstance(d, i, next, waits, VersionOf[c.worker], now)
             f == [d EXCEPT !.inst[r] = m]
  <2>1. m \in Instance
    BY <1>2, NextInstanceType, VersionOfType, ClaimFields
  <2>2. m.status = next /\ (next # "running" => m.waits = {})
    BY <1>2 DEF NextInstance, Instance
  <2> HIDE DEF m, n, r, d1
  <2>3. /\ f \in Tables /\ f.tasks = d.tasks /\ f.completed = d.completed /\ f.claimed = d.claimed
        /\ f.signals = d.signals /\ f.children = d.children /\ f.effects = d.effects
        /\ f.signalCounter = d.signalCounter /\ f.childCounter = d.childCounter
        /\ f.inst = [d.inst EXCEPT ![r] = m]
    BY <1>2, <2>1 DEF Tables
  <2> HIDE DEF f
  <2>4. StoppedWaitForNothing(d.inst) => StoppedWaitForNothing(f.inst)
    BY <2>2, <2>3 DEF StoppedWaitForNothing, Tables
  <2>5. Safe(d, f)
    BY <2>3, <2>4, SameTasksSafe
  <2>6. d1 = f
    BY DEF d1, f, m, r
  <2>7. n = m
    BY <1>2, <2>3, <2>6 DEF n, Tables
  <2> QED
    BY <2>1, <2>2, <2>5, <2>6, <2>7
<1> HIDE DEF r, i, seq, d1, n
<1>4. Safe(d1, d1c)
  BY <1>2, <1>3, ConsumedSafe DEF Safe
<1> HIDE DEF d1c
<1>5. Safe(d1c, d2)
  <2>1. d1c \in Tables
    BY <1>4 DEF Safe
  <2> DEFINE F == FailureRecords(c.act, c.failed)
  <2>2. /\ F \in SUBSET EffectRecord /\ WithinPolicy(F) /\ OneRecordEach(F)
        /\ \A f \in F : f.act = c.act
    BY FailureRecordsType, ClaimFields
  <2> HIDE DEF F
  <2>3. E = IF c.failed = {} THEN d1c.effects ELSE {f \in d1c.effects : f.act # c.act} \cup F
    BY DEF Settled, F
  <2>4. E \in SUBSET EffectRecord
    BY <2>1, <2>2, <2>3 DEF Tables
  <2> HIDE DEF E
  <2>5. /\ WithinPolicy(d1c.effects) => WithinPolicy(E)
        /\ OneRecordEach(d1c.effects) => OneRecordEach(E)
    BY <2>2, <2>3 DEF WithinPolicy, OneRecordEach
  <2> QED
    BY <2>1, <2>4, <2>5, NewEffects
<1> HIDE DEF E, d2
<1>6. Safe(d2, d3)
  BY <1>5, StartedAllSafe DEF Safe
<1> HIDE DEF d3
<1>7. Safe(d3, d4p)
  BY <1>2, <1>6, UpdateParentRecordSafe DEF Safe
<1> HIDE DEF d4p
<1>8. Safe(d4p, d4)
  BY <1>2, <1>7, ApplyClosePolicySafe DEF Safe
<1> HIDE DEF d4
<1>9. Safe(d4, d5)
  BY <1>2, <1>3, <1>8, ReplaceTasksAsSafe DEF Safe
<1>10. \A t \in d5.tasks : t.act.ref = r => t.owner = NoWorker
  BY <1>2, <1>3, <1>8, RebuiltTasksAsAreFree DEF Safe
<1> HIDE DEF d5
<1>11. Safe(d, d2)
  BY <1>3, <1>4, <1>5, SafeTransitive
<1>12. Safe(d, d4)
  <2>1. Safe(d, d3)
    BY <1>6, <1>11, SafeTransitive
  <2>2. Safe(d, d4p)
    BY <1>7, <2>1, SafeTransitive
  <2> QED
    BY <1>8, <2>2, SafeTransitive
<1>13. Safe(d, d5)
  BY <1>9, <1>12, SafeTransitive
<1>14. done \in CompletedClaim
  BY ClaimFields DEF CompletedClaim
<1> HIDE DEF done
<1>15. /\ e \in Tables
       /\ e.tasks = d5.tasks /\ e.claimed = d5.claimed /\ e.inst = d5.inst
       /\ e.completed = d5.completed \cup {done}
       /\ e.signals = d5.signals /\ e.children = d5.children /\ e.effects = d5.effects
       /\ e.signalCounter = d5.signalCounter /\ e.childCounter = d5.childCounter
  BY <1>13, <1>14 DEF Safe, Tables
<1> HIDE DEF e
<1>16. e.completed = d.completed \cup {done}
  BY <1>13, <1>15 DEF Safe
<1>17. NoNewClaim(d, e)
  BY <1>13, <1>15 DEF Safe, NoNewClaim
<1>18. \A t \in e.tasks : t.act.ref = c.act.ref => t.owner = NoWorker
  BY <1>10, <1>15 DEF r
<1>19. Sound(d) => Sound(e)
  BY <1>13, <1>15 DEF Safe, Sound
<1> QED
  BY <1>1, <1>15, <1>16, <1>17, <1>18, <1>19 DEF done, CommitsClaim

-------------------------------------------------------------------------------
(* The inductive invariant.  A claim is fenced because the task it was made on carries  *)
(* the worker and the epoch, so what must be carried along is that the tasks of live    *)
(* workers and the claims in their hands agree.                                         *)

\* A worker that crashed has nothing in hand.
HeldIsAlive == \A c \in held : c.worker \in alive

\* A task is owned under an epoch that its shard has had, and under the present one only by
\* the present owner of the shard.
OwnedInEpoch ==
    \A t \in db.tasks : t.owner # NoWorker =>
        /\ t.epoch <= leases[ShardOfRef(t.act.ref)].epoch
        /\ t.epoch = leases[ShardOfRef(t.act.ref)].epoch => t.owner = leases[ShardOfRef(t.act.ref)].owner

Inv == TypeOK /\ HeldIsAlive /\ OwnedTaskIsHeld /\ OwnedInEpoch /\ Sound(db)

\* No lease goes back to an epoch it had, or passes to another owner in the same epoch.
EpochsGrow ==
    \A s \in Shards :
        /\ leases'[s].epoch >= leases[s].epoch
        /\ leases'[s].epoch = leases[s].epoch => leases'[s].owner = leases[s].owner

LEMMA TaskFields ==
    ASSUME TypeOK, NEW t \in db.tasks
    PROVE  /\ t.act.ref \in Refs /\ ShardOfRef(t.act.ref) \in Shards
           /\ t.epoch \in Nat /\ leases[ShardOfRef(t.act.ref)].epoch \in Nat
<1>1. t \in Task
  BY DEF TypeOK, Tables
<1>2. t.act.ref \in Refs /\ t.epoch \in Nat
  BY <1>1 DEF Task, Activation
<1>3. ShardOfRef(t.act.ref) \in Shards
  BY <1>2, RoutingAssumption DEF ShardOfRef, Refs
<1> QED
  BY <1>2, <1>3 DEF TypeOK, ShardLease

LEMMA OwnedInEpochStep ==
    ASSUME Inv, NoNewClaim(db, db'), leases' = leases
    PROVE  OwnedInEpoch'
<1>1. SUFFICES ASSUME NEW t \in db'.tasks, t.owner # NoWorker
               PROVE  /\ t.epoch <= leases[ShardOfRef(t.act.ref)].epoch
                      /\ t.epoch = leases[ShardOfRef(t.act.ref)].epoch => t.owner = leases[ShardOfRef(t.act.ref)].owner
  BY DEF OwnedInEpoch
<1>2. PICK u \in db.tasks : u.act = t.act /\ u.owner = t.owner /\ u.epoch = t.epoch
  BY <1>1 DEF NoNewClaim
<1> QED
  BY <1>1, <1>2 DEF Inv, OwnedInEpoch

\* A step that accepts no checkpoint.
NoCommit == db'.completed = db.completed

\* What a step of a worker that stays alive leaves in its hands: the claims it had, with more
\* or less known about them, except those whose tasks it no longer owns.
LEMMA ClaimsStep ==
    ASSUME Inv, db' \in Tables, NoNewClaim(db, db'), Sound(db) => Sound(db'),
           alive' = alive, leases' = leases,
           \A b \in held' : b \in Claim /\ \E c \in held : b.worker = c.worker,
           \A c \in held : \/ \E b \in held' : b.worker = c.worker /\ b.act = c.act /\ b.epoch = c.epoch
                           \/ \A t \in db'.tasks : ~ (t.owner = c.worker /\ t.act = c.act)
    PROVE  /\ held' \subseteq Claim
           /\ HeldIsAlive'
           /\ OwnedTaskIsHeld'
           /\ OwnedInEpoch'
           /\ Sound(db)'
<1>1. held' \subseteq Claim /\ HeldIsAlive' /\ Sound(db)'
  BY DEF Inv, HeldIsAlive
<1>2. OwnedTaskIsHeld'
  <2>1. SUFFICES ASSUME NEW t \in db'.tasks, t.owner \in alive
                 PROVE  \E b \in held' : b.worker = t.owner /\ b.act = t.act /\ b.epoch = t.epoch
    BY DEF OwnedTaskIsHeld
  <2>2. t.owner # NoWorker
    BY <2>1, WorkerAssumption DEF Inv, TypeOK
  <2>3. PICK u \in db.tasks : u.act = t.act /\ u.owner = t.owner /\ u.epoch = t.epoch
    BY <2>2 DEF NoNewClaim
  <2>4. PICK c \in held : c.worker = t.owner /\ c.act = t.act /\ c.epoch = t.epoch
    BY <2>1, <2>3 DEF Inv, OwnedTaskIsHeld
  <2> QED
    BY <2>4
<1> QED
  BY <1>1, <1>2, OwnedInEpochStep

\* A step that only derives new tables, while claims and workers stay.
LEMMA TablesStep ==
    ASSUME Inv, Safe(db, db'), UNCHANGED <<held, alive, leases>>
    PROVE  db' \in Tables /\ HeldIsAlive' /\ OwnedTaskIsHeld' /\ OwnedInEpoch' /\ Sound(db)'
<1>1. \A b \in held' : b \in Claim /\ \E c \in held : b.worker = c.worker
  BY DEF Inv, TypeOK
<1> QED
  BY <1>1, ClaimsStep DEF Safe

\* A step that replaces a claim by the same claim with more known about it.
LEMMA SameClaimStep ==
    ASSUME Inv, Safe(db, db'), NEW c \in held, NEW b \in Claim,
           b.worker = c.worker, b.act = c.act, b.epoch = c.epoch,
           held' = (held \ {c}) \cup {b}, alive' = alive, leases' = leases
    PROVE  /\ db' \in Tables /\ held' \subseteq Claim
           /\ HeldIsAlive' /\ OwnedTaskIsHeld' /\ OwnedInEpoch' /\ Sound(db)'
<1>1. \A x \in held' : x \in Claim /\ \E y \in held : x.worker = y.worker
  BY DEF Inv, TypeOK
<1>2. \A x \in held : \E y \in held' : y.worker = x.worker /\ y.act = x.act /\ y.epoch = x.epoch
  OBVIOUS
<1> QED
  BY <1>1, <1>2, ClaimsStep DEF Safe

-------------------------------------------------------------------------------
(* Clients. *)

LEMMA StartWorkflowInv ==
    ASSUME Inv, NEW now \in Instants, NEW in \in ClientStarts, StartWorkflow(in, now)
    PROVE  Inv' /\ NoCommit
<1>1. now \in Nat /\ db \in Tables
  BY InstantsType DEF Inv, TypeOK
<1>2. in.ref \in Refs /\ in.version \in Nat
  BY InputAssumption, NumberAssumption
<1>3. Safe(db, db')
  BY <1>1, <1>2, CreateInstanceSafe, InitialWaitsType DEF StartWorkflow
<1>4. UNCHANGED <<leases, sessions, held, attempts, alive, clock>>
  BY DEF StartWorkflow
<1> QED
  BY <1>3, <1>4, TablesStep DEF Inv, TypeOK, Safe, NoCommit

LEMMA SignalsInv ==
    ASSUME Inv, NEW now \in Instants, NEW in \in Appends, Signals(in, now)
    PROVE  Inv' /\ NoCommit
<1>1. now \in Nat /\ db \in Tables
  BY InstantsType DEF Inv, TypeOK
<1>2. in.ref \in Refs /\ in.type \in SignalTypes /\ in.key \in Keys \cup {NoKey}
  BY InputAssumption
<1>3. Safe(db, db')
  BY <1>1, <1>2, AppendSignalSafe DEF Signals
<1>4. UNCHANGED <<leases, sessions, held, attempts, alive, clock>>
  BY DEF Signals
<1> QED
  BY <1>3, <1>4, TablesStep DEF Inv, TypeOK, Safe, NoCommit

LEMMA StartSendSignalInv ==
    ASSUME Inv, NEW now \in Instants, NEW in \in SendStarts, StartSendSignal(in, now)
    PROVE  Inv' /\ NoCommit
<1>1. now \in Nat /\ db \in Tables
  BY InstantsType DEF Inv, TypeOK
<1>2. /\ in.ref \in Refs /\ in.version \in Nat
      /\ in.type \in SignalTypes /\ in.key \in Keys \cup {NoKey}
  BY InputAssumption, NumberAssumption
<1>3. ASSUME SendToTarget(in, now) PROVE Safe(db, db')
  BY <1>1, <1>2, <1>3, AppendSignalSafe DEF SendToTarget
<1>4. ASSUME SendToRunning(in, now) PROVE Safe(db, db')
  <2>1. PICK r \in LatestRunning(db, in.ref[1]) : db' = AppendSignal(db, r, in.type, in.key, now)
    BY <1>4 DEF SendToRunning
  <2>2. r \in Refs
    BY DEF LatestRunning, LastOf, RunsOf
  <2> QED
    BY <1>1, <1>2, <2>1, <2>2, AppendSignalSafe
<1>5. ASSUME SendAndStart(in, now) PROVE Safe(db, db')
  <2> DEFINE d1 == CreateInstance(db, in.ref, in.version, Materialize(InitialWaits[in.ref[1]], now, now), now)
  <2>1. Safe(db, d1)
    BY <1>1, <1>2, CreateInstanceSafe, InitialWaitsType
  <2>2. db' = AppendSignal(d1, in.ref, in.type, in.key, now)
    BY <1>5 DEF SendAndStart
  <2> HIDE DEF d1
  <2>3. Safe(d1, db')
    BY <1>1, <1>2, <2>1, <2>2, AppendSignalSafe DEF Safe
  <2> QED
    BY <2>1, <2>3, SafeTransitive
<1>6. Safe(db, db')
  BY <1>3, <1>4, <1>5 DEF StartSendSignal
<1>7. UNCHANGED <<leases, sessions, held, attempts, alive, clock>>
  BY DEF StartSendSignal
<1> QED
  BY <1>6, <1>7, TablesStep DEF Inv, TypeOK, Safe, NoCommit

-------------------------------------------------------------------------------
(* Shard leases. *)

LEMMA LeaseStep ==
    ASSUME Inv, UNCHANGED <<db, held, attempts, alive, clock>>,
           leases' \in [Shards -> ShardLease], sessions' \in [Workers -> [Shards -> Nat]], EpochsGrow
    PROVE  Inv' /\ NoCommit
\* An epoch that is past cannot come back, and the present one keeps its owner.
<1>1. OwnedInEpoch'
  <2>1. SUFFICES ASSUME NEW t \in db.tasks, t.owner # NoWorker, NEW s \in Shards, s = ShardOfRef(t.act.ref)
                 PROVE  /\ t.epoch <= leases'[s].epoch
                        /\ t.epoch = leases'[s].epoch => t.owner = leases'[s].owner
    BY TaskFields DEF OwnedInEpoch, Inv
  <2>2. t.epoch <= leases[s].epoch /\ (t.epoch = leases[s].epoch => t.owner = leases[s].owner)
    BY <2>1 DEF Inv, OwnedInEpoch
  <2>3. leases'[s].epoch >= leases[s].epoch /\ (leases'[s].epoch = leases[s].epoch => leases'[s].owner = leases[s].owner)
    BY <2>1 DEF EpochsGrow
  <2>4. t.epoch \in Nat /\ leases[s].epoch \in Nat /\ leases'[s].epoch \in Nat
    BY <2>1, TaskFields DEF ShardLease, Inv
  <2> QED
    BY <2>2, <2>3, <2>4
<1> QED
  BY <1>1 DEF Inv, TypeOK, HeldIsAlive, OwnedTaskIsHeld, NoCommit

LEMMA ShardLeaseInv ==
    ASSUME Inv, NEW w \in alive, NEW s \in Shards, NEW now \in Instants,
           ClaimShard(w, s, now) \/ HeartbeatShard(w, s, now)
    PROVE  Inv' /\ NoCommit
<1>1. /\ now \in Nat /\ w \in Workers
      /\ leases[s] \in ShardLease /\ leases \in [Shards -> ShardLease]
      /\ sessions[w] \in [Shards -> Nat] /\ sessions \in [Workers -> [Shards -> Nat]]
  BY InstantsType DEF Inv, TypeOK
<1>2. now + ShardLeaseMs \in Nat
  BY <1>1, NumberAssumption
<1>3. ASSUME ClaimShard(w, s, now) PROVE Inv' /\ NoCommit
  <2> DEFINE epoch == IF leases[s].owner = w /\ leases[s].until > now THEN leases[s].epoch ELSE leases[s].epoch + 1
             lease == [owner |-> w, until |-> now + ShardLeaseMs, epoch |-> epoch]
  <2>1. epoch \in Nat
    BY <1>1 DEF ShardLease
  <2>2. leases' = [leases EXCEPT ![s] = lease] /\ sessions' = [sessions EXCEPT ![w][s] = epoch]
    BY <1>3 DEF ClaimShard
  <2>3. EpochsGrow
    <3>1. epoch >= leases[s].epoch /\ (epoch = leases[s].epoch => w = leases[s].owner)
      BY <1>1 DEF ShardLease
    <3>2. lease.epoch = epoch /\ lease.owner = w
      OBVIOUS
    <3> HIDE DEF epoch, lease
    <3>3. ASSUME NEW z \in Shards PROVE leases[z].epoch \in Nat
      BY <1>1 DEF ShardLease
    <3> QED
      BY <1>1, <2>2, <3>1, <3>2, <3>3 DEF EpochsGrow
  <2> HIDE DEF epoch
  <2>4. lease \in ShardLease
    BY <1>1, <1>2, <2>1 DEF ShardLease
  <2> HIDE DEF lease
  <2>5. leases' \in [Shards -> ShardLease] /\ sessions' \in [Workers -> [Shards -> Nat]]
    BY <1>1, <2>1, <2>2, <2>4
  <2> QED
    BY <1>3, <2>5, <2>3, LeaseStep DEF ClaimShard
<1>4. ASSUME HeartbeatShard(w, s, now) PROVE Inv' /\ NoCommit
  <2>1. [leases[s] EXCEPT !.until = now + ShardLeaseMs] \in ShardLease
    BY <1>1, <1>2 DEF ShardLease
  <2>2. leases' = [leases EXCEPT ![s] = [leases[s] EXCEPT !.until = now + ShardLeaseMs]]
    BY <1>4 DEF HeartbeatShard
  <2>3. leases' \in [Shards -> ShardLease]
    BY <1>1, <2>1, <2>2
  <2>4. EpochsGrow
    BY <1>1, <2>2 DEF EpochsGrow, ShardLease
  <2> QED
    BY <1>1, <1>4, <2>3, <2>4, LeaseStep DEF HeartbeatShard
<1> QED
  BY <1>3, <1>4

LEMMA ReleaseShardInv ==
    ASSUME Inv, NEW w \in alive, NEW s \in Shards, ReleaseShard(w, s)
    PROVE  Inv' /\ NoCommit
<1> DEFINE lease == [leases[s] EXCEPT !.until = IF leases[s].owner = w THEN 0 ELSE leases[s].until]
<1>1. lease \in ShardLease /\ lease.epoch = leases[s].epoch /\ lease.owner = leases[s].owner
  BY DEF ShardLease, Inv, TypeOK
<1>2. leases' = [leases EXCEPT ![s] = lease] /\ sessions' = [sessions EXCEPT ![w][s] = 0]
  BY DEF ReleaseShard
<1> HIDE DEF lease
<1>3. EpochsGrow
  BY <1>1, <1>2 DEF EpochsGrow, ShardLease, Inv, TypeOK
<1>4. leases' \in [Shards -> ShardLease] /\ sessions' \in [Workers -> [Shards -> Nat]]
  BY <1>1, <1>2 DEF Inv, TypeOK
<1> QED
  BY <1>4, <1>3, LeaseStep DEF ReleaseShard

-------------------------------------------------------------------------------
(* Claims. *)

\* Taking claims changes the owner, the epoch and the lease of the tasks taken, and no other.
LEMMA TakeClaimsTables ==
    ASSUME NEW d \in Tables, NEW T \in SUBSET d.tasks, NEW w \in Workers, NEW epoch \in Nat, NEW until \in Nat
    PROVE  /\ TakeClaims(d, T, w, epoch, until) \in Tables
           /\ TakeClaims(d, T, w, epoch, until).completed = d.completed
           /\ Sound(d) => Sound(TakeClaims(d, T, w, epoch, until))
           /\ \A t \in TakeClaims(d, T, w, epoch, until).tasks :
                  \/ t \in d.tasks
                  \/ \E u \in T : t.act = u.act /\ t.owner = w /\ t.epoch = epoch
<1> DEFINE new(t) == IF t \in T THEN [t EXCEPT !.owner = w, !.epoch = epoch, !.until = until] ELSE t
           N == {new(t) : t \in d.tasks}
           mark(t) == [ref |-> t.act.ref, seq |-> t.act.seq, epoch |-> epoch]
           M == UnmarkedFor(d.claimed, T) \cup {mark(t) : t \in T}
           e == [d EXCEPT !.tasks = N, !.claimed = M]
<1>1. TakeClaims(d, T, w, epoch, until) = e
  BY DEF TakeClaims
<1>2. d.tasks \in SUBSET Task
  BY DEF Tables
<1>3. N \in SUBSET Task
  <2>1. ASSUME NEW t \in d.tasks PROVE new(t) \in Task
    BY <1>2 DEF Task
  <2> QED
    BY <2>1
<1>4. M \in SUBSET Marker
  <2>1. UnmarkedFor(d.claimed, T) \in SUBSET Marker
    BY UnmarkedType DEF Tables
  <2>2. ASSUME NEW t \in T PROVE mark(t) \in Marker
    <3>1. t.act \in Activation
      BY <1>2 DEF Task
    <3> QED
      BY <3>1 DEF Activation, Marker
  <2> QED
    BY <2>1, <2>2
<1>5. \A t \in N : \/ t \in d.tasks
                   \/ \E u \in T : t.act = u.act /\ t.owner = w /\ t.epoch = epoch
  BY <1>2 DEF Task
\* A mark is an old one whose task is left alone, or of a task that is taken.
<1>6. MarksHaveTasks(d.claimed, d.tasks) => MarksHaveTasks(M, N)
  <2>1. SUFFICES ASSUME MarksHaveTasks(d.claimed, d.tasks), NEW m \in M
                 PROVE  \E t \in N : SameSequence(m, t.act) /\ t.owner # NoWorker /\ t.epoch = m.epoch
    BY DEF MarksHaveTasks
  <2>2. CASE m \in UnmarkedFor(d.claimed, T)
    <3>1. PICK t \in d.tasks : SameSequence(m, t.act) /\ t.owner # NoWorker /\ t.epoch = m.epoch
      BY <2>1, <2>2 DEF MarksHaveTasks, UnmarkedFor
    <3>2. new(t) = t
      BY <2>2, <3>1 DEF UnmarkedFor
    <3> QED
      BY <3>1, <3>2
  <2>3. ASSUME NEW t \in T, m = mark(t) PROVE SameSequence(m, new(t).act) /\ new(t).owner = w /\ new(t).epoch = m.epoch
    <3>1. t \in Task
      BY <1>2
    <3> QED
      BY <2>3, <3>1 DEF Task, SameSequence
  <2> HIDE DEF new, mark
  <2> QED
    BY <2>2, <2>3, WorkerAssumption
<1> HIDE DEF N, M
<1>7. /\ e \in Tables /\ e.tasks = N /\ e.completed = d.completed /\ e.claimed = M /\ e.inst = d.inst
      /\ e.signals = d.signals /\ e.children = d.children /\ e.effects = d.effects
      /\ e.signalCounter = d.signalCounter /\ e.childCounter = d.childCounter
  BY <1>3, <1>4 DEF Tables
<1> HIDE DEF e
<1> QED
  BY <1>1, <1>5, <1>7, <1>6 DEF Sound

\* The tables before the claims of a batch are taken: what is stale is gone, and so are the marks
\* of the sequences that were passed over.
LEMMA PreparedSafe ==
    ASSUME NEW d \in Tables, NEW w \in Workers, NEW s \in Shards, NEW now \in Nat
    PROVE  Safe(d, Prepared(d, w, s, now))
<1> DEFINE here == {a \in Expirable(d, w, now) : ShardOfRef(a.ref) = s}
           d1   == ExpireTimeouts(d, here, now)
<1>1. Safe(d, d1)
  BY ExpireTimeoutsSafe
<1>2. Prepared(d, w, s, now) = RefreshMigrations(d1, s, now, VersionOf[w])
  BY DEF Prepared
<1> HIDE DEF d1
<1>3. Safe(d1, RefreshMigrations(d1, s, now, VersionOf[w]))
  BY <1>1, VersionOfType, RefreshMigrationsSafe DEF Safe
<1> QED
  BY <1>1, <1>2, <1>3, SafeTransitive

\* A batch that is handed out: the claimed tasks are old ones, or of the batch and the worker's.
LEMMA HandOutTables ==
    ASSUME NEW d \in Tables, NEW w \in Workers, NEW s \in Shards, NEW now \in Nat, NEW epoch \in Nat,
           NEW batch \in SUBSET d.tasks
    PROVE  LET e == HandOut(d, batch, w, s, now, epoch)
           IN  /\ e \in Tables
               /\ e.completed = d.completed
               /\ Sound(d) => Sound(e)
               /\ \A t \in e.tasks :
                      \/ t \in d.tasks
                      \/ \E u \in Live(d, batch) : t.act = u.act /\ t.owner = w /\ t.epoch = epoch
<1> DEFINE T       == Live(d, batch)
           winners == Winners(d, s, now, VersionOf[w], epoch)
           passed  == {t \in Candidates(d, s, now, VersionOf[w]) :
                           /\ Taken(d, t, now) /\ ~ Competing(d, t, epoch)
                           /\ batch = winners \/ \E u \in batch : SortsBefore(t, u)}
           cleared == DeleteTasks(d, batch \ T)
           M       == UnmarkedFor(cleared.claimed, passed)
           d1      == [cleared EXCEPT !.claimed = M]
           until   == now + TaskLeaseMs
<1>1. HandOut(d, batch, w, s, now, epoch) = TakeClaims(d1, T, w, epoch, until)
  BY DEF HandOut
<1>2. Safe(d, cleared) /\ cleared.tasks = d.tasks \ (batch \ T)
  BY DeleteTasksSafe DEF DeleteTasks, Tables
<1> HIDE DEF cleared, passed
<1>3. M \in SUBSET Marker
  BY <1>2, UnmarkedType DEF Safe, Tables
<1>4. M \subseteq cleared.claimed
  BY DEF UnmarkedFor
<1> HIDE DEF M
<1>5. /\ d1 \in Tables /\ d1.tasks = cleared.tasks /\ d1.completed = cleared.completed
      /\ d1.claimed = M /\ d1.inst = cleared.inst
      /\ d1.signals = cleared.signals /\ d1.children = cleared.children /\ d1.effects = cleared.effects
      /\ d1.signalCounter = cleared.signalCounter /\ d1.childCounter = cleared.childCounter
  BY <1>2, <1>3 DEF Safe, Tables
<1>6. T \in SUBSET d1.tasks
  BY <1>2, <1>5 DEF Live
<1>7. until \in Nat
  BY NumberAssumption
<1>8. d1.completed = d.completed /\ (Sound(d) => Sound(d1)) /\ d1.tasks \subseteq d.tasks
  BY <1>2, <1>5, <1>4 DEF Safe, Sound, MarksHaveTasks
<1> HIDE DEF d1, T, until
<1> DEFINE e == TakeClaims(d1, T, w, epoch, until)
<1>9. /\ e \in Tables /\ e.completed = d1.completed /\ (Sound(d1) => Sound(e))
      /\ \A t \in e.tasks : \/ t \in d1.tasks
                            \/ \E u \in T : t.act = u.act /\ t.owner = w /\ t.epoch = epoch
  BY <1>5, <1>6, <1>7, TakeClaimsTables
<1> HIDE DEF e
<1>10. HandOut(d, batch, w, s, now, epoch) = e
  BY <1>1 DEF e
<1> QED
  BY <1>8, <1>9, <1>10 DEF T

LEMMA ClaimTasksInv ==
    ASSUME Inv, NEW w \in alive, NEW s \in Shards, NEW now \in Instants, ClaimTasks(w, s, now)
    PROVE  Inv' /\ NoCommit
<1> DEFINE epoch == leases[s].epoch
           d1    == Prepared(db, w, s, now)
<1>1. now \in Nat /\ db \in Tables /\ w \in Workers /\ epoch \in Nat
  BY InstantsType DEF Inv, TypeOK, ShardLease
<1>2. PICK batch \in Batches(d1, s, now, VersionOf[w], epoch, Slots(w)) :
         /\ db' = HandOut(d1, batch, w, s, now, epoch)
         /\ held' = held \cup {NewClaim(d1, t, w, epoch) : t \in Live(d1, batch)}
  BY DEF ClaimTasks
<1>3. UNCHANGED <<leases, sessions, attempts, alive, clock>>
  BY DEF ClaimTasks
<1>4. Safe(db, d1)
  BY <1>1, PreparedSafe
<1> DEFINE T == Live(d1, batch)
<1>5. Owns(w, s, now)
  BY DEF ClaimTasks
<1>6. leases[s].owner = w /\ leases[s].epoch = epoch
  BY <1>5 DEF Owns
<1>7. \A t \in batch : ShardOfRef(t.act.ref) = s
  BY <1>2 DEF Batches, Winners, Candidates
<1> HIDE DEF d1, epoch
<1>8. d1 \in Tables
  BY <1>4 DEF Safe
<1>9. batch \in SUBSET d1.tasks
  BY <1>2 DEF Batches, Winners, Candidates
<1>10. /\ db' \in Tables /\ db'.completed = d1.completed /\ (Sound(d1) => Sound(db'))
      /\ \A t \in db'.tasks : \/ t \in d1.tasks
                              \/ \E u \in T : t.act = u.act /\ t.owner = w /\ t.epoch = epoch
  BY <1>1, <1>2, <1>8, <1>9, HandOutTables
<1>11. ASSUME NEW t \in T
      PROVE  /\ NewClaim(d1, t, w, epoch) \in Claim
             /\ NewClaim(d1, t, w, epoch).worker = w
             /\ NewClaim(d1, t, w, epoch).act = t.act
             /\ NewClaim(d1, t, w, epoch).epoch = epoch
  <2>1. t \in Task
    BY <1>8, <1>9 DEF Live, Tables
  <2>2. t.act \in Activation /\ t.act.ref \in Refs
    BY <2>1 DEF Task, Activation
  <2>3. d1.inst[t.act.ref].updatedAt \in Nat
    BY <1>8, <2>2 DEF Tables, Instance
  <2> QED
    BY <1>1, <2>2, <2>3 DEF NewClaim, Claim
<1>12. held' = held \cup {NewClaim(d1, t, w, epoch) : t \in T}
  BY <1>2
<1>13. \A u \in T : ShardOfRef(u.act.ref) = s
  BY <1>7 DEF Live
<1> HIDE DEF T
<1>14. TypeOK'
  BY <1>3, <1>10, <1>11, <1>12 DEF Inv, TypeOK
<1>15. HeldIsAlive'
  BY <1>3, <1>11, <1>12 DEF Inv, HeldIsAlive
<1>16. OwnedTaskIsHeld'
  <2>1. SUFFICES ASSUME NEW t \in db'.tasks, t.owner \in alive
                 PROVE  \E c \in held' : c.worker = t.owner /\ c.act = t.act /\ c.epoch = t.epoch
    BY <1>3 DEF OwnedTaskIsHeld
  <2>2. CASE t \in d1.tasks
    <3>1. t.owner # NoWorker
      BY <2>1, WorkerAssumption DEF Inv, TypeOK
    <3>2. PICK u \in db.tasks : u.act = t.act /\ u.owner = t.owner /\ u.epoch = t.epoch
      BY <1>4, <2>2, <3>1 DEF Safe, NoNewClaim
    <3> QED
      BY <1>12, <2>1, <3>2 DEF Inv, OwnedTaskIsHeld
  <2>3. CASE \E u \in T : t.act = u.act /\ t.owner = w /\ t.epoch = epoch
    <3>1. PICK u \in T : t.act = u.act /\ t.owner = w /\ t.epoch = epoch
      BY <2>3
    <3>2. NewClaim(d1, u, w, epoch) \in held'
      BY <1>12
    <3> QED
      BY <1>11, <3>1, <3>2
  <2> QED
    BY <1>10, <2>2, <2>3
<1>17. Sound(db)' /\ NoCommit
  BY <1>4, <1>10 DEF Safe, Inv, NoCommit
\* The claims that are new are the owner's, under the epoch of its lease.
<1>18. OwnedInEpoch'
  <2>1. SUFFICES ASSUME NEW t \in db'.tasks, t.owner # NoWorker
                 PROVE  /\ t.epoch <= leases[ShardOfRef(t.act.ref)].epoch
                        /\ t.epoch = leases[ShardOfRef(t.act.ref)].epoch => t.owner = leases[ShardOfRef(t.act.ref)].owner
    BY <1>3 DEF OwnedInEpoch
  <2>2. CASE t \in d1.tasks
    <3>1. PICK u \in db.tasks : u.act = t.act /\ u.owner = t.owner /\ u.epoch = t.epoch
      BY <1>4, <2>1, <2>2 DEF Safe, NoNewClaim
    <3> QED
      BY <2>1, <3>1 DEF Inv, OwnedInEpoch
  <2>3. CASE \E u \in T : t.act = u.act /\ t.owner = w /\ t.epoch = epoch
    BY <1>1, <1>6, <1>13, <2>3
  <2> QED
    BY <1>10, <2>2, <2>3
<1> QED
  BY <1>14, <1>15, <1>16, <1>17, <1>18 DEF Inv

\* The claim of a worker on an activation is given up.
LEMMA FreedByWorker ==
    ASSUME NEW d \in Tables, NEW a, NEW w \in Workers
    PROVE  LET T == {t \in TasksOfActivation(d, a) : t.owner = w}
               e == Freed(d, T, [t \in T |-> t.blocked])
           IN  Safe(d, e) /\ \A t \in e.tasks : ~ (t.owner = w /\ t.act = a)
<1> DEFINE T == {t \in TasksOfActivation(d, a) : t.owner = w}
           blocked == [t \in T |-> t.blocked]
           new(t) == IF t \in T THEN [Unclaimed(t) EXCEPT !.blocked = blocked[t]] ELSE t
           e == Freed(d, T, blocked)
<1>1. d.tasks \in SUBSET Task
  BY DEF Tables
<1>2. \A t \in T \cap d.tasks : blocked[t] \in Nat
  BY <1>1 DEF Task
<1>3. e.tasks = {new(t) : t \in d.tasks}
  BY DEF Freed, Tables
<1>4. ASSUME NEW t \in d.tasks PROVE ~ (new(t).owner = w /\ new(t).act = a)
  <2>1. t \in Task
    BY <1>1
  <2>2. CASE t \in T
    <3>1. \A b : [Unclaimed(t) EXCEPT !.blocked = b].owner = NoWorker
      BY <2>1 DEF Unclaimed, Task
    <3> QED
      BY <2>2, <3>1, WorkerAssumption
  <2>3. CASE t \notin T
    BY <2>3 DEF TasksOfActivation
  <2> QED
    BY <2>2, <2>3
<1> HIDE DEF new
<1>5. \A t \in e.tasks : ~ (t.owner = w /\ t.act = a)
  BY <1>3, <1>4
<1>6. Safe(d, e)
  <2> HIDE DEF T, blocked
  <2> QED
    BY <1>2, FreedSafe
<1> QED
  BY <1>5, <1>6

LEMMA ReleaseClaimInv ==
    ASSUME Inv, NEW c \in held, ReleaseClaim(c)
    PROVE  Inv' /\ NoCommit
<1>1. c \in Claim /\ c.worker \in Workers /\ db \in Tables
  BY ClaimFields DEF Inv, TypeOK
<1>2. Safe(db, db') /\ \A t \in db'.tasks : ~ (t.owner = c.worker /\ t.act = c.act)
  BY <1>1, FreedByWorker DEF ReleaseClaim
<1>3. held' = held \ {c} /\ UNCHANGED <<leases, sessions, attempts, alive, clock>>
  BY DEF ReleaseClaim
<1>4. \A b \in held' : b \in Claim /\ \E y \in held : b.worker = y.worker
  BY <1>3 DEF Inv, TypeOK
<1>5. \A x \in held : \/ \E b \in held' : b.worker = x.worker /\ b.act = x.act /\ b.epoch = x.epoch
                      \/ \A t \in db'.tasks : ~ (t.owner = x.worker /\ t.act = x.act)
  BY <1>2, <1>3
<1> QED
  BY <1>2, <1>3, <1>4, <1>5, ClaimsStep DEF Inv, TypeOK, Safe, NoCommit

\* Claims a worker has forgotten are still the same claims.
LEMMA ForgottenClaims ==
    ASSUME NEW w, NEW H \in SUBSET Claim
    PROVE  /\ \A b \in Forgotten(w, H) : b \in Claim /\ \E c \in H : b.worker = c.worker
           /\ \A c \in H : \E b \in Forgotten(w, H) : b.worker = c.worker /\ b.act = c.act /\ b.epoch = c.epoch
<1> DEFINE new(c) == IF c.worker = w THEN [c EXCEPT !.state = "forgotten"] ELSE c
<1>1. ASSUME NEW c \in H
      PROVE  new(c) \in Claim /\ new(c).worker = c.worker /\ new(c).act = c.act /\ new(c).epoch = c.epoch
  BY DEF Claim
<1>2. Forgotten(w, H) = {new(c) : c \in H}
  BY DEF Forgotten
<1> HIDE DEF new
<1> QED
  BY <1>1, <1>2

LEMMA HandlerFailsInv ==
    ASSUME Inv, NEW c \in held, HandlerFails(c)
    PROVE  Inv' /\ NoCommit
<1>1. c \in Claim /\ c.worker \in Workers /\ db \in Tables /\ held \ {c} \in SUBSET Claim
  BY ClaimFields DEF Inv, TypeOK
<1>2. Safe(db, db') /\ \A t \in db'.tasks : ~ (t.owner = c.worker /\ t.act = c.act)
  BY <1>1, FreedByWorker DEF HandlerFails
<1>3. /\ held' = Forgotten(c.worker, held \ {c}) /\ attempts' \subseteq attempts
      /\ UNCHANGED <<leases, sessions, alive, clock>>
  BY DEF HandlerFails
<1>4. \A b \in held' : b \in Claim /\ \E y \in held : b.worker = y.worker
  BY <1>1, <1>3, ForgottenClaims
<1>5. \A x \in held : \/ \E b \in held' : b.worker = x.worker /\ b.act = x.act /\ b.epoch = x.epoch
                      \/ \A t \in db'.tasks : ~ (t.owner = x.worker /\ t.act = x.act)
  BY <1>1, <1>2, <1>3, ForgottenClaims
<1> QED
  BY <1>2, <1>3, <1>4, <1>5, ClaimsStep DEF Inv, TypeOK, Safe, NoCommit

-------------------------------------------------------------------------------
(* Commits. *)

\* What a handler may return.
LEMMA ResultsType ==
    ASSUME NEW c \in Claim, NEW res \in Results(c)
    PROVE  /\ res.next \in {"running"} \cup Closed
           /\ res.template \in SUBSET Wait
<1>1. c.act.ref[1] \in Ids
  BY ClaimFields DEF Refs
<1>2. NextWaits[c.act.ref[1]] \in SUBSET SUBSET Wait
  BY <1>1, InputAssumption
<1>3. ASSUME NEW W \in NextWaits[c.act.ref[1]], res = [next |-> "running", template |-> W]
      PROVE  res.next \in {"running"} \cup Closed /\ res.template \in SUBSET Wait
  BY <1>2, <1>3
<1>4. ASSUME NEW o \in Outcomes, res = [next |-> o, template |-> {}]
      PROVE  res.next \in {"running"} \cup Closed /\ res.template \in SUBSET Wait
  BY <1>4, InputAssumption
<1> QED
  BY <1>3, <1>4 DEF Results

\* The starts of a checkpoint, in whatever order, are a short sequence of starts.
LEMMA OrdersType ==
    ASSUME NEW S \in SUBSET ChildStart, NEW starts \in Orders(S)
    PROVE  starts \in Seq(ChildStart) /\ Len(starts) <= 2
<1>1. PICK n \in 0..2 : starts \in [1..n -> S]
  BY DEF Orders
<1> QED
  BY <1>1

LEMMA CommitEffect ==
    ASSUME Inv, NEW c \in held, NEW now \in Instants, NEW res \in Results(c), Commit(c, res, now)
    PROVE  CommitsClaim(db, c, db')
<1> DEFINE waits == Materialize(res.template, c.at, now)
<1>1. now \in Nat /\ db \in Tables /\ c \in Claim /\ c.starts \in SUBSET ChildStart
  BY InstantsType, ClaimFields DEF Inv, TypeOK
<1>2. res.next \in {"running"} \cup Closed /\ waits \in SUBSET Wait
  BY <1>1, ResultsType, ClaimFields, MaterializeType
<1>3. PICK starts \in Orders(c.starts) : db' = Checkpoint(db, c, res.next, waits, starts, now)
  BY DEF Commit
<1> HIDE DEF waits
<1>4. starts \in Seq(ChildStart) /\ Len(starts) <= 2
  BY <1>1, <1>3, OrdersType
<1> QED
  BY <1>1, <1>2, <1>3, <1>4, CheckpointTables

LEMMA CommitInv ==
    ASSUME Inv, NEW c \in held, NEW now \in Instants, NEW res \in Results(c), Commit(c, res, now)
    PROVE  Inv'
<1>1. /\ held' = held \ {c} /\ attempts' \subseteq attempts
      /\ UNCHANGED <<leases, sessions, alive, clock>>
  BY DEF Commit
<1>2. c \in Claim /\ c.worker \in Workers
  BY ClaimFields DEF Inv, TypeOK
<1>3. \A t \in db'.tasks : ~ (t.owner = c.worker /\ t.act = c.act)
  BY <1>2, CommitEffect, WorkerAssumption DEF CommitsClaim
<1>4. \A b \in held' : b \in Claim /\ \E y \in held : b.worker = y.worker
  BY <1>1 DEF Inv, TypeOK
<1>5. \A x \in held : \/ \E b \in held' : b.worker = x.worker /\ b.act = x.act /\ b.epoch = x.epoch
                      \/ \A t \in db'.tasks : ~ (t.owner = x.worker /\ t.act = x.act)
  BY <1>1, <1>3
<1>6. db' \in Tables /\ NoNewClaim(db, db') /\ (Sound(db) => Sound(db'))
  BY CommitEffect DEF CommitsClaim
<1> QED
  BY <1>1, <1>4, <1>5, <1>6, ClaimsStep DEF Inv, TypeOK

LEMMA CommitRefusedInv ==
    ASSUME Inv, NEW c \in held, NEW now \in Instants, CommitRefused(c, now)
    PROVE  Inv' /\ NoCommit
<1> DEFINE b == [c EXCEPT !.state = "refused"]
<1>1. c \in Claim /\ Safe(db, db')
  BY SafeReflexive DEF Inv, TypeOK, CommitRefused
<1>2. b \in Claim /\ b.worker = c.worker /\ b.act = c.act /\ b.epoch = c.epoch
  BY <1>1 DEF Claim
<1>3. /\ held' = (held \ {c}) \cup {b} /\ attempts' \subseteq attempts
      /\ UNCHANGED <<leases, sessions, alive, clock>>
  BY DEF CommitRefused
<1> HIDE DEF b
<1> QED
  BY <1>1, <1>2, <1>3, SameClaimStep DEF Inv, TypeOK, Safe, NoCommit

LEMMA CommitRejectedInv ==
    ASSUME Inv, NEW c \in held, NEW now \in Instants, CommitRejected(c, now)
    PROVE  Inv' /\ NoCommit
<1>1. held \in SUBSET Claim /\ Safe(db, db')
  BY SafeReflexive DEF Inv, TypeOK, CommitRejected
<1>2. /\ held' = Forgotten(c.worker, held) /\ attempts' \subseteq attempts
      /\ UNCHANGED <<leases, sessions, alive, clock>>
  BY DEF CommitRejected
<1>3. \A b \in held' : b \in Claim /\ \E y \in held : b.worker = y.worker
  BY <1>1, <1>2, ForgottenClaims
<1>4. \A x \in held : \E b \in held' : b.worker = x.worker /\ b.act = x.act /\ b.epoch = x.epoch
  BY <1>1, <1>2, ForgottenClaims
<1> QED
  BY <1>1, <1>2, <1>3, <1>4, ClaimsStep DEF Inv, TypeOK, Safe, NoCommit

-------------------------------------------------------------------------------
(* Children started and canceled by a handler. *)

LEMMA BufferStartInv ==
    ASSUME Inv, NEW c \in held, NEW now \in Instants, NEW start \in ChildStart, BufferStart(c, start, now)
    PROVE  Inv' /\ NoCommit
<1> DEFINE decided == Decided(start, now)
           b == [c EXCEPT !.starts = c.starts \cup {decided}]
<1>1. now \in Nat /\ c \in Claim /\ Safe(db, db')
  BY InstantsType, SafeReflexive DEF Inv, TypeOK, BufferStart
<1>2. decided \in ChildStart
  <2> DEFINE kept == KeptRun(db, start)
             ref  == IF kept = {} THEN start.ref ELSE CHOOSE r \in kept : TRUE
  <2>1. kept \in SUBSET Refs
    BY DEF KeptRun, Latest, LastOf, RunsOf
  <2> HIDE DEF kept
  <2>2. ref \in Refs
    BY <2>1 DEF ChildStart
  <2>3. decided = [start EXCEPT !.at = now, !.ref = ref]
    BY DEF Decided, kept
  <2> HIDE DEF ref, decided
  <2> QED
    BY <1>1, <2>2, <2>3 DEF ChildStart
<1> HIDE DEF decided
<1>3. b \in Claim /\ b.worker = c.worker /\ b.act = c.act /\ b.epoch = c.epoch
  BY <1>1, <1>2 DEF Claim
<1>4. held' = (held \ {c}) \cup {b} /\ UNCHANGED <<leases, sessions, attempts, alive, clock>>
  BY DEF BufferStart, decided
<1> HIDE DEF b
<1> QED
  BY <1>1, <1>3, <1>4, SameClaimStep DEF Inv, TypeOK, Safe, NoCommit

LEMMA CreateChildInv ==
    ASSUME Inv, NEW c \in held, NEW now \in Instants, NEW start \in ChildStart, CreateChild(c, start, now)
    PROVE  Inv' /\ NoCommit
<1> DEFINE eager == [start EXCEPT !.at = now, !.conflict = "fail"]
<1>1. c \in Claim /\ db \in Tables /\ now \in Nat
  BY InstantsType DEF Inv, TypeOK
<1>2. eager \in ChildStart
  BY <1>1 DEF ChildStart, ConflictPolicies
<1>3. db' = Started(db, c, eager, now)
  BY DEF CreateChild
<1> HIDE DEF eager
<1>4. Safe(db, db')
  BY <1>1, <1>2, <1>3, StartedSafe
<1>5. UNCHANGED <<leases, sessions, held, attempts, alive, clock>>
  BY DEF CreateChild
<1> QED
  BY <1>4, <1>5, TablesStep DEF Inv, TypeOK, Safe, NoCommit

LEMMA CancelBufferedInv ==
    ASSUME Inv, NEW c \in held, NEW start \in c.starts, CancelBuffered(c, start)
    PROVE  Inv' /\ NoCommit
<1> DEFINE b == [c EXCEPT !.starts = c.starts \ {start}]
<1>1. c \in Claim /\ Safe(db, db')
  BY SafeReflexive DEF Inv, TypeOK, CancelBuffered
<1>2. b \in Claim /\ b.worker = c.worker /\ b.act = c.act /\ b.epoch = c.epoch
  BY <1>1 DEF Claim
<1>3. held' = (held \ {c}) \cup {b} /\ UNCHANGED <<leases, sessions, attempts, alive, clock>>
  BY DEF CancelBuffered
<1> HIDE DEF b
<1> QED
  BY <1>1, <1>2, <1>3, SameClaimStep DEF Inv, TypeOK, Safe, NoCommit

LEMMA CancelChildInv ==
    ASSUME Inv, NEW c \in held, NEW now \in Instants, NEW r \in Refs, CancelChild(c, r, now)
    PROVE  Inv' /\ NoCommit
<1>1. now \in Nat /\ db \in Tables /\ c.act.ref \in Refs
  BY InstantsType, ClaimFields DEF Inv, TypeOK
<1>2. Safe(db, db')
  BY <1>1, CancelChildRunSafe DEF CancelChild
<1>3. UNCHANGED <<leases, sessions, held, attempts, alive, clock>>
  BY DEF CancelChild
<1> QED
  BY <1>2, <1>3, TablesStep DEF Inv, TypeOK, Safe, NoCommit

-------------------------------------------------------------------------------
(* Activities. *)

LEMMA ReserveEffectInv ==
    ASSUME Inv, NEW c \in held, NEW now \in Instants, NEW key \in EagerKeys, ReserveEffect(c, key, now)
    PROVE  Inv' /\ NoCommit
<1> DEFINE d1 == ExpireTimeouts(db, Expirable(db, c.worker, now), now)
           open == \A e \in EffectFor(d1, c.act, key) : e.status = "pending" /\ e.next <= now
           token(n) == [n |-> n, worker |-> c.worker]
           attempt(n) == [act |-> c.act, key |-> key, token |-> token(n)]
<1>1. now \in Nat /\ c \in Claim /\ key \in EffectKeys /\ db \in Tables
  BY InstantsType, InputAssumption DEF Inv, TypeOK
<1>2. c.act \in Activation /\ c.worker \in Workers
  BY <1>1, ClaimFields
<1>3. Safe(db, d1)
  BY <1>1, ExpireTimeoutsSafe
<1>4. \/ /\ open
         /\ \E n \in FreshIds : /\ db' = Reserve(d1, c.act, key, token(n), now)
                                /\ attempts' = attempts \cup {attempt(n)}
      \/ db' = d1 /\ attempts' = attempts
  BY DEF ReserveEffect
<1>5. UNCHANGED <<leases, sessions, held, alive, clock>>
  BY DEF ReserveEffect
<1> HIDE DEF d1, open
<1>6. ASSUME NEW n \in FreshIds PROVE token(n) \in Token /\ attempt(n) \in Attempt
  <2>1. n \in Nat
    BY InputAssumption DEF FreshIds
  <2>2. token(n) \in Token
    BY <1>2, <2>1 DEF Token
  <2> HIDE DEF token
  <2>3. attempt(n) \in Attempt
    BY <1>1, <1>2, <2>2 DEF Attempt
  <2> QED
    BY <2>2, <2>3 DEF token
<1> HIDE DEF token, attempt
<1>7. Safe(db, db') /\ attempts' \subseteq Attempt
  <2>1. CASE db' = d1 /\ attempts' = attempts
    BY <1>3, <2>1 DEF Inv, TypeOK
  <2>2. ASSUME NEW n \in FreshIds, db' = Reserve(d1, c.act, key, token(n), now),
               attempts' = attempts \cup {attempt(n)}
        PROVE  Safe(db, db') /\ attempts' \subseteq Attempt
    <3>1. Safe(d1, db')
      BY <1>1, <1>2, <1>3, <1>6, <2>2, ReserveSafe DEF Safe
    <3> QED
      BY <1>3, <1>6, <2>2, <3>1, SafeTransitive DEF Inv, TypeOK
  <2> QED
    BY <1>4, <2>1, <2>2
<1> QED
  BY <1>5, <1>7, TablesStep DEF Inv, TypeOK, Safe, NoCommit

LEMMA ActivityInv ==
    ASSUME Inv, NEW x \in attempts, Activity(x)
    PROVE  Inv' /\ NoCommit
<1>1. PICK now \in Instants : \/ HeartbeatEffect(x, now)
                              \/ CompleteEffect(x, now)
                              \/ \E retryable \in BOOLEAN : FailEffect(x, retryable, now)
  BY DEF Activity
<1> DEFINE d1 == ExpireTimeouts(db, Expirable(db, x.token.worker, now), now)
           E  == PendingAttempt(d1, x.act, x.key, x.token)
           e  == CHOOSE y \in E : TRUE
<1>2. now \in Nat /\ Safe(db, d1)
  BY InstantsType, ExpireTimeoutsSafe DEF Inv, TypeOK
<1> HIDE DEF d1
<1>3. d1 \in Tables
  BY <1>2 DEF Safe
<1>4. ASSUME E # {} PROVE e \in d1.effects
  BY <1>4 DEF PendingAttempt, EffectFor, EffectsOf
<1>5. CASE HeartbeatEffect(x, now)
  <2>1. db' = IF E = {} THEN d1 ELSE Beat(d1, e, now)
    BY <1>5 DEF HeartbeatEffect, d1
  <2> HIDE DEF E, e
  <2>2. Safe(db, db')
    BY <1>2, <1>3, <1>4, <2>1, BeatSafe, SafeTransitive
  <2>3. UNCHANGED <<leases, sessions, held, attempts, alive, clock>>
    BY <1>5 DEF HeartbeatEffect
  <2> QED
    BY <2>2, <2>3, TablesStep DEF Inv, TypeOK, Safe, NoCommit
<1>6. CASE CompleteEffect(x, now)
  <2>1. db' = IF E = {} THEN d1 ELSE Complete(d1, e)
    BY <1>6 DEF CompleteEffect, d1
  <2> HIDE DEF E, e
  <2>2. Safe(db, db')
    BY <1>2, <1>3, <1>4, <2>1, CompleteSafe, SafeTransitive
  <2>3. UNCHANGED <<leases, sessions, held, alive, clock>> /\ attempts' \subseteq attempts
    BY <1>6 DEF CompleteEffect
  <2> QED
    BY <2>2, <2>3, TablesStep DEF Inv, TypeOK, Safe, NoCommit
<1>7. CASE \E retryable \in BOOLEAN : FailEffect(x, retryable, now)
  <2>1. PICK retryable \in BOOLEAN : FailEffect(x, retryable, now)
    BY <1>7
  <2>2. db' = IF E = {} THEN d1 ELSE Fail(d1, e, now, retryable)
    BY <2>1 DEF FailEffect, d1
  <2> HIDE DEF E, e
  <2>3. Safe(db, db')
    BY <1>2, <1>3, <1>4, <2>2, FailSafe, SafeTransitive
  <2>4. UNCHANGED <<leases, sessions, held, alive, clock>> /\ attempts' \subseteq attempts
    BY <2>1 DEF FailEffect
  <2> QED
    BY <2>3, <2>4, TablesStep DEF Inv, TypeOK, Safe, NoCommit
<1> QED
  BY <1>1, <1>5, <1>6, <1>7

LEMMA FailLocallyInv ==
    ASSUME Inv, NEW c \in held, NEW key \in CheckpointKeys, FailLocally(c, key)
    PROVE  Inv' /\ NoCommit
<1> DEFINE b == [c EXCEPT !.failed = c.failed \cup {key}]
<1>1. c \in Claim /\ key \in EffectKeys /\ Safe(db, db')
  BY InputAssumption, SafeReflexive DEF Inv, TypeOK, FailLocally
<1>2. b \in Claim /\ b.worker = c.worker /\ b.act = c.act /\ b.epoch = c.epoch
  BY <1>1 DEF Claim
<1>3. held' = (held \ {c}) \cup {b} /\ UNCHANGED <<leases, sessions, attempts, alive, clock>>
  BY DEF FailLocally
<1> HIDE DEF b
<1> QED
  BY <1>1, <1>2, <1>3, SameClaimStep DEF Inv, TypeOK, Safe, NoCommit

LEMMA RecordActivationFailureInv ==
    ASSUME Inv, NEW c \in held, NEW key \in CheckpointKeys, NEW release \in BOOLEAN,
           RecordActivationFailure(c, key, release)
    PROVE  Inv' /\ NoCommit
<1>1. db \in Tables /\ c.act \in Activation /\ {key} \in SUBSET EffectKeys
  BY InputAssumption, ClaimFields DEF Inv, TypeOK
<1>2. Safe(db, db')
  BY <1>1, RecordFailuresSafe DEF RecordActivationFailure
<1>3. UNCHANGED <<leases, sessions, held, attempts, alive, clock>>
  BY DEF RecordActivationFailure
<1> QED
  BY <1>2, <1>3, TablesStep DEF Inv, TypeOK, Safe, NoCommit

-------------------------------------------------------------------------------
(* The environment. *)

LEMMA CrashInv ==
    ASSUME Inv, NEW w \in Workers, Crash(w)
    PROVE  Inv' /\ NoCommit
<1>1. /\ alive' = alive \ {w} /\ held' = {c \in held : c.worker # w} /\ attempts' \subseteq attempts
      /\ sessions' = [sessions EXCEPT ![w] = [s \in Shards |-> 0]] /\ UNCHANGED <<db, leases, clock>>
  BY DEF Crash
<1>2. TypeOK'
  BY <1>1 DEF Inv, TypeOK
<1>3. HeldIsAlive' /\ OwnedTaskIsHeld'
  BY <1>1 DEF Inv, HeldIsAlive, OwnedTaskIsHeld
<1>4. OwnedInEpoch'
  BY <1>1 DEF Inv, OwnedInEpoch
<1> QED
  BY <1>1, <1>2, <1>3, <1>4 DEF Inv, NoCommit

LEMMA TickInv ==
    ASSUME Inv, Tick
    PROVE  Inv' /\ NoCommit
  BY DEF Inv, TypeOK, HeldIsAlive, OwnedTaskIsHeld, OwnedInEpoch, Tick, NoCommit

-------------------------------------------------------------------------------
(* The theorems. *)

LEMMA InitInv == Init => Inv
<1>1. EmptyTables \in Tables /\ Sound(EmptyTables)
  BY DEF EmptyTables, Tables, NoInstance, Instance, Sound, UniqueKeys, WithinPolicy, OneRecordEach,
         Numbered, MarksHaveTasks, StoppedWaitForNothing
<1>2. NoLease \in ShardLease
  BY DEF NoLease, ShardLease
<1> QED
  BY <1>1, <1>2 DEF Init, Inv, TypeOK, HeldIsAlive, OwnedTaskIsHeld, OwnedInEpoch, EmptyTables

\* A step either accepts no checkpoint or is the commit of a claim in a worker's hands.
Commits == \E c \in held, now \in Instants : \E res \in Results(c) : Commit(c, res, now)

LEMMA SettlesInv ==
    ASSUME Inv, NEW c \in held, Settles(c)
    PROVE  Inv' /\ (NoCommit \/ Commits)
<1>1. CASE ReleaseClaim(c)
  BY <1>1, ReleaseClaimInv
<1>2. CASE HandlerFails(c)
  BY <1>2, HandlerFailsInv
<1>3. ASSUME NEW now \in Instants, NEW res \in Results(c), Commit(c, res, now) PROVE Inv' /\ Commits
  BY <1>3, CommitInv DEF Commits
<1>4. ASSUME NEW now \in Instants, CommitRefused(c, now) \/ CommitRejected(c, now) PROVE Inv' /\ NoCommit
  BY <1>4, CommitRefusedInv, CommitRejectedInv
<1> QED
  BY <1>1, <1>2, <1>3, <1>4 DEF Settles

LEMMA HandlerInv ==
    ASSUME Inv, NEW c \in held, Handler(c)
    PROVE  Inv' /\ NoCommit
<1>1. ASSUME NEW start \in c.starts, CancelBuffered(c, start) PROVE Inv' /\ NoCommit
  BY <1>1, CancelBufferedInv
<1>2. ASSUME NEW k \in CheckpointKeys, FailLocally(c, k) PROVE Inv' /\ NoCommit
  BY <1>2, FailLocallyInv
<1>3. ASSUME NEW k \in CheckpointKeys, NEW release \in BOOLEAN, RecordActivationFailure(c, k, release)
      PROVE  Inv' /\ NoCommit
  BY <1>3, RecordActivationFailureInv
<1>4. At(CheckpointStarts, c) \subseteq ChildStart /\ At(EagerStarts, c) \subseteq ChildStart
  BY InputAssumption DEF At
<1>5. ASSUME NEW now \in Instants, NEW start \in ChildStart, BufferStart(c, start, now) PROVE Inv' /\ NoCommit
  BY <1>5, BufferStartInv
<1>6. ASSUME NEW now \in Instants, NEW start \in ChildStart, CreateChild(c, start, now) PROVE Inv' /\ NoCommit
  BY <1>6, CreateChildInv
<1>7. ASSUME NEW now \in Instants, NEW r \in Refs, CancelChild(c, r, now) PROVE Inv' /\ NoCommit
  BY <1>7, CancelChildInv
<1>8. ASSUME NEW now \in Instants, NEW k \in EagerKeys, ReserveEffect(c, k, now) PROVE Inv' /\ NoCommit
  BY <1>8, ReserveEffectInv
<1> QED
  BY <1>1, <1>2, <1>3, <1>4, <1>5, <1>6, <1>7, <1>8 DEF Handler

LEMMA NextStep ==
    ASSUME Inv, [Next]_vars
    PROVE  Inv' /\ (NoCommit \/ Commits)
<1>1. CASE Clients
  BY <1>1, StartWorkflowInv, SignalsInv, StartSendSignalInv DEF Clients
<1>2. ASSUME NEW w \in alive, NEW s \in Shards, Shard(w, s) PROVE Inv' /\ NoCommit
  BY <1>2, ReleaseShardInv, ShardLeaseInv, ClaimTasksInv DEF Shard
<1>3. CASE \E c \in held : Settles(c) \/ Handler(c)
  BY <1>3, SettlesInv, HandlerInv
<1>4. CASE \E x \in attempts : Activity(x)
  BY <1>4, ActivityInv
<1>5. CASE \E w \in Workers : Crash(w)
  BY <1>5, CrashInv
<1>6. CASE Tick
  BY <1>6, TickInv
<1>7. CASE UNCHANGED vars
  BY <1>7 DEF vars, Inv, TypeOK, HeldIsAlive, OwnedTaskIsHeld, OwnedInEpoch, NoCommit
<1> QED
  BY <1>1, <1>2, <1>3, <1>4, <1>5, <1>6, <1>7 DEF Next

\* The inductive invariant holds in every behaviour of the engine.
THEOREM InvariantHolds == Spec => []Inv
<1>1. Inv /\ [Next]_vars => Inv'
  BY NextStep
<1> QED
  BY InitInv, <1>1, PTL DEF Spec

\* Every provider call keeps the tables of the engine, the leases and what workers hold
\* well-formed (the maps of Store, lib.rs).
THEOREM TypeCorrect == Spec => []TypeOK
<1>1. Inv => TypeOK
  BY DEF Inv
<1> QED
  BY <1>1, InvariantHolds, PTL

\* A task that a live worker owns is always in that worker's hands, under the same epoch:
\* no claim, release, refused or accepted commit, retry, timeout or takeover ever loses a claim
\* (claim_tasks_for_session, release_activation_sync, commit_checkpoint, replace_tasks_for_instance).
THEOREM ClaimsAreNotLost == Spec => []OwnedTaskIsHeld
<1>1. Inv => OwnedTaskIsHeld
  BY DEF Inv
<1> QED
  BY <1>1, InvariantHolds, PTL

\* A sequence that is marked as claimed in the present epoch of its shard was handed to the live
\* owner of the shard, which has neither committed nor released it: whatever happens to its tasks,
\* the engine leaves no mark behind (claim_tasks_for_session, delete_task, release_activation_sync,
\* expire_activity_timeouts).  Only a claim that its worker has forgotten keeps a run from every worker.
THEOREM MarksAreHeld == Spec => []MarkedSequenceIsHeld
<1>1. Inv => MarkedSequenceIsHeld
  <2>1. SUFFICES ASSUME Inv, NEW m \in db.claimed, m.epoch = leases[ShardOfRef(m.ref)].epoch,
                        leases[ShardOfRef(m.ref)].owner \in alive
                 PROVE  \E c \in held : /\ c.worker = leases[ShardOfRef(m.ref)].owner
                                        /\ c.epoch = m.epoch /\ SameSequence(m, c.act)
    BY DEF MarkedSequenceIsHeld
  <2>2. PICK t \in db.tasks : SameSequence(m, t.act) /\ t.owner # NoWorker /\ t.epoch = m.epoch
    BY <2>1 DEF Inv, Sound, MarksHaveTasks
  <2>3. t.owner = leases[ShardOfRef(m.ref)].owner
    BY <2>1, <2>2 DEF Inv, OwnedInEpoch, SameSequence
  <2>4. PICK c \in held : c.worker = t.owner /\ c.act = t.act /\ c.epoch = t.epoch
    BY <2>1, <2>3 DEF Inv, OwnedTaskIsHeld
  <2> QED
    BY <2>2, <2>3, <2>4
<1> QED
  BY <1>1, InvariantHolds, PTL

\* While no handler returns an error and no handler buffers starts, no worker drops a claim.
NothingForgotten == \A c \in held : c.starts = {} /\ c.state # "forgotten"

LEMMA NothingForgottenStep ==
    ASSUME Failing = {}, CheckpointStarts = {}, TypeOK, NothingForgotten, [Next]_vars
    PROVE  NothingForgotten'
<1> USE DEF NothingForgotten
<1>0. \A c \in held : c \in Claim
  BY DEF TypeOK
<1>1. ASSUME held' = held PROVE NothingForgotten'
  BY <1>1
<1>2. ASSUME Clients PROVE held' = held
  BY <1>2 DEF Clients, StartWorkflow, Signals, StartSendSignal
<1>3. ASSUME NEW w \in alive, NEW s \in Shards, Shard(w, s) PROVE NothingForgotten'
  <2>1. CASE \E now \in Instants : ClaimTasks(w, s, now)
    BY <2>1 DEF ClaimTasks, NewClaim
  <2>2. CASE \/ ReleaseShard(w, s)
             \/ \E now \in Instants : ClaimShard(w, s, now) \/ HeartbeatShard(w, s, now)
    BY <1>1, <2>2 DEF ReleaseShard, ClaimShard, HeartbeatShard
  <2> QED
    BY <1>3, <2>1, <2>2 DEF Shard
<1>4. ASSUME NEW c \in held, Settles(c) PROVE NothingForgotten'
  <2>1. CASE HandlerFails(c)
    <3>1. c.worker \in Failing
      BY <2>1 DEF HandlerFails
    <3> QED
      BY <3>1
  <2>2. CASE \E now \in Instants : CommitRejected(c, now)
    <3>1. PICK now \in Instants : Refusal(db, c, now) = "existing_child_instance"
      BY <2>2 DEF CommitRejected
    <3>2. StartConflict(db, {}) = "none"
      BY DEF StartConflict
    <3> QED
      BY <3>1, <3>2 DEF Refusal, Conflict
  <2>3. CASE \/ ReleaseClaim(c)
             \/ \E now \in Instants : \E res \in Results(c) : Commit(c, res, now)
    BY <2>3 DEF ReleaseClaim, Commit
  <2>4. CASE \E now \in Instants : CommitRefused(c, now)
    <3>1. held' = (held \ {c}) \cup {[c EXCEPT !.state = "refused"]}
      BY <2>4 DEF CommitRefused
    <3>2. [c EXCEPT !.state = "refused"].starts = {} /\ [c EXCEPT !.state = "refused"].state # "forgotten"
      BY <1>0 DEF Claim
    <3> QED
      BY <3>1, <3>2
  <2> QED
    BY <1>4, <2>1, <2>2, <2>3, <2>4 DEF Settles
<1>5. ASSUME NEW c \in held, Handler(c) PROVE NothingForgotten'
  <2>1. CASE \/ \E key \in CheckpointKeys, release \in BOOLEAN : RecordActivationFailure(c, key, release)
             \/ \E now \in Instants : \/ \E start \in At(EagerStarts, c) : CreateChild(c, start, now)
                                      \/ \E r \in Refs : CancelChild(c, r, now)
                                      \/ \E key \in EagerKeys : ReserveEffect(c, key, now)
    BY <1>1, <2>1 DEF RecordActivationFailure, CreateChild, CancelChild, ReserveEffect
  <2>2. CASE \E key \in CheckpointKeys : FailLocally(c, key)
    <3>1. PICK key \in CheckpointKeys : held' = (held \ {c}) \cup {[c EXCEPT !.failed = @ \cup {key}]}
      BY <2>2 DEF FailLocally
    <3>2. /\ [c EXCEPT !.failed = @ \cup {key}].starts = c.starts
          /\ [c EXCEPT !.failed = @ \cup {key}].state = c.state
      BY <1>0 DEF Claim
    <3> QED
      BY <3>1, <3>2
  <2>3. At(CheckpointStarts, c) = {} /\ c.starts = {}
    BY DEF At
  <2> QED
    BY <1>5, <2>1, <2>2, <2>3 DEF Handler
<1>6. ASSUME NEW x \in attempts, Activity(x) PROVE held' = held
  BY <1>6 DEF Activity, HeartbeatEffect, CompleteEffect, FailEffect
<1>7. ASSUME \/ \E w \in Workers : Crash(w)
             \/ Tick
      PROVE  NothingForgotten'
  BY <1>7 DEF Crash, Tick
<1>8. CASE UNCHANGED vars
  BY <1>1, <1>8 DEF vars
<1> HIDE DEF NothingForgotten
<1> QED
  BY <1>1, <1>2, <1>3, <1>4, <1>5, <1>6, <1>7, <1>8 DEF Next

\* Claims are forgotten by workers alone: while no handler returns an error and none buffers
\* starts that can be refused for good, a task that a live worker owns and a sequence that is
\* marked in the present epoch are in its hands to commit or to release, and no mark keeps a run
\* from every worker (run_worker, claim_tasks_for_session, release_activation_sync).
THEOREM NoClaimIsForgotten ==
    ASSUME Failing = {}, CheckpointStarts = {}
    PROVE  Spec => [](QueuedClaimsAreReleased /\ MarkedSequenceIsHeld /\ \A c \in held : c.state # "forgotten")
<1>1. Init => NothingForgotten
  BY DEF Init, NothingForgotten
<1>2. TypeOK /\ NothingForgotten /\ [Next]_vars => NothingForgotten'
  BY NothingForgottenStep
<1>3. OwnedTaskIsHeld /\ NothingForgotten => QueuedClaimsAreReleased /\ \A c \in held : c.state # "forgotten"
  BY DEF OwnedTaskIsHeld, NothingForgotten, QueuedClaimsAreReleased
<1> QED
  BY <1>1, <1>2, <1>3, TypeCorrect, ClaimsAreNotLost, MarksAreHeld, PTL DEF Spec

\* However often a client repeats a signal, and whichever call brings it, its idempotency key
\* names one signal of the run and type, also after the signal was consumed
\* (append_signal_to_instance_unsaved, find_signal_by_idempotency_key).
THEOREM KeysAreUnique == Spec => []IdempotencyKeysAreUnique
<1>1. Inv => IdempotencyKeysAreUnique
  BY DEF Inv, Sound, UniqueKeys, IdempotencyKeysAreUnique
<1> QED
  BY <1>1, InvariantHolds, PTL

\* An accepted commit is of a claim in the worker's hands, and if the activation still has a
\* task this is claimed by that worker under the epoch of that claim: a worker whose claim
\* another has taken over cannot commit it (assert_activation_claim_sync).
THEOREM CommitsAreFenced == Spec => FencedByClaim
<1> DEFINE Fenced ==
        \A x \in db'.completed \ db.completed :
           \E c \in held :
               /\ c.worker = x.owner /\ c.act = x.act /\ c.state = "running"
               /\ \A t \in TasksOfActivation(db, x.act) :
                      t.owner = c.worker /\ t.epoch = c.epoch /\ t.until + Lag >= clock
<1>1. ASSUME Inv, [Next]_vars PROVE Fenced
  <2>1. CASE NoCommit
    BY <2>1 DEF NoCommit
  <2>2. CASE Commits
    <3>1. PICK c \in held, now \in Instants : \E res \in Results(c) : Commit(c, res, now)
      BY <2>2 DEF Commits
    <3>2. PICK res \in Results(c) : Commit(c, res, now)
      BY <3>1
    <3> DEFINE done == [act |-> c.act, owner |-> c.worker]
    <3>3. db'.completed = db.completed \cup {done}
      BY <1>1, <3>2, CommitEffect DEF CommitsClaim
    <3>4. c.state = "running" /\ ~ LostClaim(db, c, now)
      BY <3>2 DEF Commit, Refusal
    <3>5. now \in Nat /\ clock \in Nat /\ Lag \in Nat /\ now + Lag >= clock
      BY <1>1, InstantsType, InputAssumption DEF Instants, Inv, TypeOK
    <3>6. ASSUME NEW t \in TasksOfActivation(db, c.act)
          PROVE  t.owner = c.worker /\ t.epoch = c.epoch /\ t.until + Lag >= clock
      <4>1. t \in Task
        BY <1>1 DEF TasksOfActivation, Inv, TypeOK, Tables
      <4>2. t.until \in Nat
        BY <4>1 DEF Task
      <4>3. t.owner = c.worker /\ t.epoch = c.epoch /\ ~ (t.until < now)
        BY <3>4 DEF LostClaim
      <4> QED
        BY <3>5, <4>2, <4>3
    <3>7. done.owner = c.worker /\ done.act = c.act
      OBVIOUS
    <3> HIDE DEF done
    <3> QED
      BY <3>3, <3>4, <3>6, <3>7
  <2> QED
    BY <1>1, <2>1, <2>2, NextStep
<1> QED
  BY <1>1, InvariantHolds, PTL DEF Spec, FencedByClaim

\* The epoch of a shard never shrinks and never passes to another owner without growing
\* (claim_shard_sync).
THEOREM EpochsNameOneOwner == Spec => EpochNamesOneOwner
<1> DEFINE Named(s) == /\ leases'[s].epoch >= leases[s].epoch
                       /\ leases'[s].epoch = leases[s].epoch => leases'[s].owner = leases[s].owner
<1>1. ASSUME Inv, [Next]_vars, NEW s \in Shards PROVE Named(s)
  <2>1. leases \in [Shards -> ShardLease] /\ leases[s] \in ShardLease
    BY <1>1 DEF Inv, TypeOK
  <2>2. leases[s].epoch \in Nat
    BY <2>1 DEF ShardLease
  <2>3. CASE UNCHANGED leases
    BY <2>2, <2>3
  <2>4. ASSUME NEW w \in alive, NEW z \in Shards, NEW now \in Instants, ClaimShard(w, z, now)
        PROVE  Named(s)
    <3>1. CASE s # z
      BY <2>1, <2>2, <2>4, <3>1 DEF ClaimShard
    <3>2. CASE s = z
      BY <2>1, <2>2, <2>4, <3>2 DEF ClaimShard
    <3> QED
      BY <3>1, <3>2
  <2>5. ASSUME NEW w \in alive, NEW z \in Shards, NEW now \in Instants, HeartbeatShard(w, z, now)
        PROVE  Named(s)
    BY <2>1, <2>2, <2>5 DEF HeartbeatShard, ShardLease
  <2>6. ASSUME NEW w \in alive, NEW z \in Shards, ReleaseShard(w, z) PROVE Named(s)
    BY <2>1, <2>2, <2>6 DEF ReleaseShard, ShardLease
  <2>7. ASSUME NEW w \in alive, NEW z \in Shards, NEW now \in Instants, ClaimTasks(w, z, now)
        PROVE  UNCHANGED leases
    BY <2>7 DEF ClaimTasks
  <2>8. ASSUME Clients PROVE UNCHANGED leases
    BY <2>8 DEF Clients, StartWorkflow, Signals, StartSendSignal
  <2>9. ASSUME NEW c \in held, Settles(c) \/ Handler(c) PROVE UNCHANGED leases
    <3>1. CASE Settles(c)
      BY <3>1 DEF Settles, ReleaseClaim, HandlerFails, Commit, CommitRefused, CommitRejected
    <3>2. CASE Handler(c)
      BY <3>2 DEF Handler, CancelBuffered, FailLocally, RecordActivationFailure, BufferStart, CreateChild,
                  CancelChild, ReserveEffect
    <3> QED
      BY <2>9, <3>1, <3>2
  <2>10. ASSUME NEW x \in attempts, Activity(x) PROVE UNCHANGED leases
    BY <2>10 DEF Activity, HeartbeatEffect, CompleteEffect, FailEffect
  <2>11. ASSUME (\E w \in Workers : Crash(w)) \/ Tick PROVE UNCHANGED leases
    BY <2>11 DEF Crash, Tick
  <2>12. CASE UNCHANGED vars
    BY <2>3, <2>12 DEF vars
  <2> HIDE DEF Named
  <2> QED
    BY <1>1, <2>3, <2>4, <2>5, <2>6, <2>7, <2>8, <2>9, <2>10, <2>11, <2>12 DEF Next, Shard
<1>2. Inv /\ [Next]_vars => \A s \in Shards : Named(s)
  BY <1>1
<1> QED
  BY <1>2, InvariantHolds, PTL DEF Spec, EpochNamesOneOwner
===============================================================================
