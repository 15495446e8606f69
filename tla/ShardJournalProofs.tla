-------------------------- MODULE ShardJournalProofs --------------------------
(***************************************************************************)
(* Theorems about the engine behind the journal, for every number of       *)
(* workers, shards, runs, activities and commits in a batch: a journal of  *)
(* the entries of ShardJournal can always be read back, and a checkpoint   *)
(* that was answered is in the store that a later load computes, as long   *)
(* as commits are sent one by one.                                         *)
(***************************************************************************)
EXTENDS ShardJournal, ShardRunProofs

\* What the actors have in hand is well-formed.
HandsOK ==
    /\ leases \in [Shards -> ShardLease] /\ sessions \in [Workers -> [Shards -> Nat]]
    /\ held \subseteq Claim /\ attempts \subseteq Attempt /\ alive \subseteq Workers /\ clock \in Nat

\* The inductive invariant: between two calls the engine has what a load computes, so that an
\* entry is replayed on tables that differ from those of its first time in marks of claims
\* alone; every entry so far could be replayed, and, if commits are sent one by one, none that
\* was answered is missing.
JournalInv ==
    /\ HandsOK
    /\ kept \in Tables /\ db = Reloaded(kept)
    /\ loads = TRUE
    /\ MaxBatch = 1 => AnsweredIsKept

-------------------------------------------------------------------------------
(* Tables that are loaded, and tables that agree but for tasks and claims. *)

SameData(d, e) ==
    /\ d.inst = e.inst /\ d.signals = e.signals /\ d.children = e.children
    /\ d.signalCounter = e.signalCounter

LEMMA ReloadedFields ==
    ASSUME NEW d \in Tables
    PROVE  LET e == Reloaded(d)
           IN  /\ e \in Tables /\ SameData(e, d) /\ e.tasks = d.tasks /\ e.effects = d.effects
               /\ e.completed = d.completed
  BY DEF Reloaded, SameData, Tables

LEMMA EngineTypes ==
    ASSUME JournalInv
    PROVE  /\ TypeOK /\ db \in Tables /\ kept \in Tables /\ SameData(db, kept)
           /\ db.tasks = kept.tasks /\ db.effects = kept.effects /\ db.completed = kept.completed
<1>1. /\ kept \in Tables /\ db \in Tables /\ SameData(db, kept)
      /\ db.tasks = kept.tasks /\ db.effects = kept.effects /\ db.completed = kept.completed
  BY ReloadedFields DEF JournalInv
<1> QED
  BY <1>1 DEF JournalInv, HandsOK, TypeOK

\* A call that is recorded: whether the next load starts from the live store or from the one
\* it replays, both are well-formed and know what was answered.
LEMMA WrittenInv ==
    ASSUME JournalInv, HandsOK', NEW live \in Tables, NEW replayed \in Tables,
           Written(live, replayed, TRUE),
           MaxBatch = 1 => answered' \subseteq live.completed /\ answered' \subseteq replayed.completed
    PROVE  JournalInv'
<1>1. /\ kept' = live \/ kept' = replayed
      /\ loads' = TRUE /\ db' = Reloaded(kept')
  BY DEF Written, JournalInv
<1>2. kept' \in Tables
  BY <1>1
<1>3. MaxBatch = 1 => AnsweredIsKept'
  BY <1>1 DEF AnsweredIsKept
<1> QED
  BY <1>1, <1>2, <1>3 DEF JournalInv

\* A recorded call that accepts no checkpoint.
LEMMA SafeWritten ==
    ASSUME JournalInv, HandsOK', NEW live, NEW replayed, Safe(db, live), Safe(kept, replayed),
           Written(live, replayed, TRUE), answered' = answered
    PROVE  JournalInv'
<1>1. live \in Tables /\ replayed \in Tables
  BY DEF Safe
<1>2. live.completed = kept.completed /\ replayed.completed = kept.completed
  BY EngineTypes DEF Safe
<1>3. MaxBatch = 1 => answered' \subseteq live.completed /\ answered' \subseteq replayed.completed
  BY <1>2 DEF JournalInv, AnsweredIsKept
<1> QED
  BY <1>1, <1>3, WrittenInv

\* A call that is not recorded.
LEMMA UnwrittenInv ==
    ASSUME JournalInv, HandsOK', UNCHANGED <<db, kept, loads>>, MaxBatch = 1 => answered' = answered
    PROVE  JournalInv'
  BY DEF JournalInv, AnsweredIsKept

-------------------------------------------------------------------------------
(* Clients. *)

LEMMA JournaledStartInv ==
    ASSUME JournalInv, NEW now \in Instants, NEW in \in ClientStarts, JournaledStart(in, now)
    PROVE  JournalInv'
<1>1. now \in Nat /\ db \in Tables /\ kept \in Tables
  BY EngineTypes, InstantsType
<1>2. in.ref \in Refs /\ in.version \in Nat
  BY InputAssumption, NumberAssumption
<1>3. ASSUME NEW d \in Tables PROVE Safe(d, CreatedIn(d, in, now))
  BY <1>1, <1>2, CreateInstanceSafe, InitialWaitsType DEF CreatedIn
<1>4. /\ Written(CreatedIn(db, in, now), CreatedIn(kept, in, now), TRUE)
      /\ UNCHANGED <<leases, sessions, held, attempts, alive, clock, answered>>
  BY DEF JournaledStart
<1>5. HandsOK'
  BY <1>4 DEF JournalInv, HandsOK
<1> QED
  BY <1>1, <1>3, <1>4, <1>5, SafeWritten

LEMMA JournaledSignalInv ==
    ASSUME JournalInv, NEW now \in Instants, NEW in \in Appends, JournaledSignal(in, now)
    PROVE  JournalInv'
<1>1. now \in Nat /\ db \in Tables /\ kept \in Tables
  BY EngineTypes, InstantsType
<1>2. in.ref \in Refs /\ in.type \in SignalTypes /\ in.key \in Keys \cup {NoKey}
  BY InputAssumption
<1>3. ASSUME NEW d \in Tables PROVE Safe(d, AppendSignal(d, in.ref, in.type, in.key, now))
  BY <1>1, <1>2, AppendSignalSafe
<1>4. /\ Written(AppendSignal(db, in.ref, in.type, in.key, now), AppendSignal(kept, in.ref, in.type, in.key, now), TRUE)
      /\ UNCHANGED <<leases, sessions, held, attempts, alive, clock, answered>>
  BY DEF JournaledSignal
<1>5. HandsOK'
  BY <1>4 DEF JournalInv, HandsOK
<1> QED
  BY <1>1, <1>3, <1>4, <1>5, SafeWritten

-------------------------------------------------------------------------------
(* Claims. *)

LEMMA JournaledLeaseInv ==
    ASSUME JournalInv, NEW w \in alive, NEW s \in Shards, NEW now \in Instants, JournaledLease(w, s, now)
    PROVE  JournalInv'
<1>1. /\ now \in Nat /\ w \in Workers
      /\ leases[s] \in ShardLease /\ leases \in [Shards -> ShardLease]
      /\ sessions \in [Workers -> [Shards -> Nat]]
  BY EngineTypes, InstantsType DEF TypeOK
<1>2. now + ShardLeaseMs \in Nat
  BY <1>1, NumberAssumption
<1> DEFINE epoch == IF leases[s].owner = w /\ leases[s].until > now THEN leases[s].epoch ELSE leases[s].epoch + 1
           lease == [owner |-> w, until |-> now + ShardLeaseMs, epoch |-> epoch]
<1>3. epoch \in Nat
  BY <1>1 DEF ShardLease
<1>4. /\ leases' = [leases EXCEPT ![s] = lease] /\ sessions' = [sessions EXCEPT ![w][s] = epoch]
      /\ UNCHANGED <<db, held, attempts, alive, clock, kept, loads, answered>>
  BY DEF JournaledLease, ClaimShard
<1> HIDE DEF epoch
<1>5. lease \in ShardLease
  BY <1>1, <1>2, <1>3 DEF ShardLease
<1> HIDE DEF lease
<1>6. leases' \in [Shards -> ShardLease] /\ sessions' \in [Workers -> [Shards -> Nat]]
  BY <1>1, <1>3, <1>4, <1>5
<1>7. HandsOK'
  BY <1>4, <1>6 DEF JournalInv, HandsOK
<1> QED
  BY <1>4, <1>7, UnwrittenInv

LEMMA JournaledClaimsInv ==
    ASSUME JournalInv, NEW w \in alive, NEW s \in Shards, NEW now \in Instants, JournaledClaims(w, s, now)
    PROVE  JournalInv'
<1>1. PICK epoch, d1, k1 : epoch = leases[s].epoch /\ d1 = Prepared(db, w, s, now) /\ k1 = Prepared(kept, w, s, now)
  OBVIOUS
<1>2. now \in Nat /\ db \in Tables /\ kept \in Tables /\ w \in Workers /\ epoch \in Nat
  BY <1>1, EngineTypes, InstantsType DEF TypeOK, ShardLease
<1>3. Safe(db, d1) /\ Safe(kept, k1) /\ d1 \in Tables /\ k1 \in Tables
  BY <1>1, <1>2, PreparedSafe DEF Safe
<1>4. PICK batch \in Batches(d1, s, now, VersionOf[w], epoch, Slots(w)),
           again \in Batches(k1, s, now, VersionOf[w], epoch, Slots(w)) :
         /\ held' = held \cup {NewClaim(d1, t, w, epoch) : t \in Live(d1, batch)}
         /\ Written(HandOut(d1, batch, w, s, now, epoch), HandOut(k1, again, w, s, now, epoch), TRUE)
  BY <1>1 DEF JournaledClaims
<1>5. UNCHANGED <<leases, sessions, attempts, alive, clock, answered>>
  BY DEF JournaledClaims
<1>6. ASSUME NEW d, NEW T \in Batches(d, s, now, VersionOf[w], epoch, Slots(w)) PROVE T \in SUBSET d.tasks
  BY DEF Batches, Winners, Candidates
<1>7. batch \in SUBSET d1.tasks /\ again \in SUBSET k1.tasks
  BY <1>4, <1>6
<1> DEFINE live == HandOut(d1, batch, w, s, now, epoch)
           replayed == HandOut(k1, again, w, s, now, epoch)
<1>8. /\ live \in Tables /\ live.completed = d1.completed
      /\ replayed \in Tables /\ replayed.completed = k1.completed
  BY <1>2, <1>3, <1>7, HandOutTables
<1>9. Written(live, replayed, TRUE)
  BY <1>4
<1> HIDE DEF live, replayed
<1>10. ASSUME NEW t \in Live(d1, batch) PROVE NewClaim(d1, t, w, epoch) \in Claim
  <2>1. t \in Task
    BY <1>3, <1>7 DEF Live, Tables
  <2>2. t.act \in Activation /\ t.act.ref \in Refs
    BY <2>1 DEF Task, Activation
  <2>3. d1.inst[t.act.ref].updatedAt \in Nat
    BY <1>3, <2>2 DEF Tables, Instance
  <2> QED
    BY <1>2, <2>2, <2>3 DEF NewClaim, Claim
<1>11. HandsOK'
  BY <1>4, <1>5, <1>10 DEF JournalInv, HandsOK
<1>12. MaxBatch = 1 => answered' \subseteq live.completed /\ answered' \subseteq replayed.completed
  BY <1>3, <1>5, <1>8, EngineTypes DEF Safe, JournalInv, AnsweredIsKept
<1> QED
  BY <1>8, <1>9, <1>11, <1>12, WrittenInv

LEMMA JournaledReleaseInv ==
    ASSUME JournalInv, NEW c \in held, JournaledRelease(c)
    PROVE  JournalInv'
<1> DEFINE mine(d)  == {t \in TasksOfActivation(d, c.act) : t.owner = c.worker}
           freed(d) == Freed(d, mine(d), [t \in mine(d) |-> t.blocked])
<1>1. c.worker \in Workers /\ db \in Tables /\ kept \in Tables
  BY EngineTypes, ClaimFields DEF TypeOK
<1>2. Safe(db, freed(db)) /\ Safe(kept, freed(kept))
  BY <1>1, FreedByWorker
<1>3. /\ UNCHANGED <<db, kept, loads>> \/ Written(freed(db), freed(kept), TRUE)
      /\ held' = held \ {c} /\ UNCHANGED <<leases, sessions, attempts, alive, clock, answered>>
  BY DEF JournaledRelease, Unwritten
<1> HIDE DEF freed, mine
<1>4. HandsOK'
  BY <1>3 DEF JournalInv, HandsOK
<1> QED
  BY <1>2, <1>3, <1>4, SafeWritten, UnwrittenInv

-------------------------------------------------------------------------------
(* Whether a checkpoint conflicts, and what it makes of the runs, the signals and the     *)
(* children, depends on those alone.                                                      *)

\* The journal can be replayed because of this: a conflict that was not met the first time is
\* not met again (commit_checkpoint).
LEMMA SameConflict ==
    ASSUME NEW d, NEW e, SameData(d, e), NEW c
    PROVE  Conflict(d, c) = Conflict(e, c)
<1>1. d.inst = e.inst /\ d.signals = e.signals /\ d.children = e.children
  BY DEF SameData
<1>2. ASSUME NEW id PROVE Latest(d, id) = Latest(e, id)
  BY <1>1 DEF Latest, LastOf, RunsOf, RunOrder
<1>3. ASSUME NEW x PROVE KeptRun(d, x) = KeptRun(e, x)
  BY <1>1, <1>2 DEF KeptRun
<1>4. StartConflict(d, c.starts) = StartConflict(e, c.starts)
  BY <1>1, <1>3 DEF StartConflict
<1> QED
  BY <1>1, <1>4 DEF Conflict, Running

LEMMA SameNextInstance ==
    ASSUME NEW d, NEW e, SameData(d, e), NEW i, NEW next, NEW waits, NEW version, NEW now
    PROVE  NextInstance(d, i, next, waits, version, now) = NextInstance(e, i, next, waits, version, now)
<1>1. \A w, previous : Stamped(d, w, previous) = Stamped(e, w, previous)
  BY DEF SameData, Stamped
<1>2. StampWaits(d, waits, i.waits) = StampWaits(e, waits, i.waits)
  BY <1>1 DEF StampWaits
<1> QED
  BY <1>2 DEF NextInstance

LEMMA SameParentRecord ==
    ASSUME NEW d \in Tables, NEW e \in Tables, SameData(d, e), NEW i \in Instance, NEW next, NEW now \in Nat
    PROVE  SameData(UpdateParentRecord(d, i, next, now), UpdateParentRecord(e, i, next, now))
<1> DEFINE outcome == IF next = "completed" THEN "completed" ELSE "failed"
           mine == {c \in d.children : c.id = i.parent}
           C == {IF c \in mine /\ c.status = "started"
                 THEN [c EXCEPT !.status = outcome, !.completedAt = now] ELSE c : c \in d.children}
           p == (CHOOSE c \in mine : TRUE).parent
           d1 == [d EXCEPT !.children = C]
           e1 == [e EXCEPT !.children = C]
<1>1. /\ d.inst = e.inst /\ d.signals = e.signals /\ d.children = e.children
      /\ d.signalCounter = e.signalCounter
  BY DEF SameData
<1>2. UpdateParentRecord(d, i, next, now) = IF next = "running" \/ mine = {} THEN d ELSE RefreshTasks(d1, p, "child")
  BY DEF UpdateParentRecord
<1>3. UpdateParentRecord(e, i, next, now) = IF next = "running" \/ mine = {} THEN e ELSE RefreshTasks(e1, p, "child")
  BY <1>1 DEF UpdateParentRecord
<1>4. C \in SUBSET Child
  <2>1. d.children \in SUBSET Child /\ outcome \in {"completed", "failed"}
    BY DEF Tables
  <2> HIDE DEF outcome, mine
  <2>2. ASSUME NEW c \in d.children PROVE [c EXCEPT !.status = outcome, !.completedAt = now] \in Child
    BY <2>1 DEF Child
  <2> QED
    BY <2>1, <2>2
<1>5. CASE next = "running" \/ mine = {}
  BY <1>2, <1>3, <1>5
<1>6. CASE ~ (next = "running" \/ mine = {})
  <2>1. p \in Refs
    BY <1>6 DEF Tables, Child
  <2> HIDE DEF C, p, mine
  <2>2. d1 \in Tables /\ e1 \in Tables /\ SameData(d1, e1)
    BY <1>1, <1>4 DEF Tables, SameData
  <2> HIDE DEF d1, e1
  <2>3. SameData(RefreshTasks(d1, p, "child"), RefreshTasks(e1, p, "child"))
    BY <2>1, <2>2, RefreshTasksFields DEF SameData
  <2> QED
    BY <1>2, <1>3, <1>6, <2>3
<1> QED
  BY <1>5, <1>6

LEMMA SameClosePolicy ==
    ASSUME NEW d \in Tables, NEW e \in Tables, SameData(d, e), NEW r \in Refs, NEW next, NEW seq \in Nat, NEW now \in Nat
    PROVE  SameData(ApplyClosePolicy(d, r, next, seq, now), ApplyClosePolicy(e, r, next, seq, now))
<1> DEFINE hit(f)    == ClosedWith(f, r)
           killed(f) == {c.ref : c \in {x \in hit(f) : x.policy = "cancel" /\ Running(f, x.ref)}}
           close(c) == IF c.policy = "abandon" THEN [c EXCEPT !.status = "abandoned", !.delivered = seq]
                       ELSE [c EXCEPT !.status = "failed", !.completedAt = now, !.delivered = seq]
           C(f) == {IF c \in hit(f) THEN close(c) ELSE c : c \in f.children}
           I(f) == [q \in Refs |-> IF q \in killed(f)
                                   THEN [f.inst[q] EXCEPT !.status = "canceled", !.waits = {}, !.updatedAt = now]
                                   ELSE f.inst[q]]
           gone(f) == DeleteTasks(f, {t \in f.tasks : t.act.ref \in killed(f)})
           closed(f) == [gone(f) EXCEPT !.children = C(f), !.inst = I(f)]
<1>1. /\ d.inst = e.inst /\ d.signals = e.signals /\ d.children = e.children
      /\ d.signalCounter = e.signalCounter
  BY DEF SameData
<1>2. hit(e) = hit(d) /\ \A x : Running(e, x) = Running(d, x)
  BY <1>1 DEF ClosedWith, Running
<1>3. \A f \in Tables : /\ gone(f) \in Tables /\ gone(f).children = f.children
                        /\ gone(f).signals = f.signals /\ gone(f).signalCounter = f.signalCounter
  BY DeleteTasksFields
<1>4. \A f \in Tables : ApplyClosePolicy(f, r, next, seq, now) = IF next \notin {"failed", "canceled"} THEN f ELSE closed(f)
  BY <1>3 DEF ApplyClosePolicy
<1> HIDE DEF hit
<1>5. killed(e) = killed(d)
  BY <1>2
<1>6. SameData(closed(d), closed(e))
  <2> HIDE DEF killed, close
  <2>1. C(d) = C(e) /\ I(d) = I(e)
    BY <1>1, <1>2, <1>5
  <2> HIDE DEF gone, C, I
  <2> QED
    BY <1>1, <1>3, <2>1 DEF SameData, Tables
<1> HIDE DEF closed
<1> QED
  BY <1>4, <1>6

\* A checkpoint without child starts.
LEMMA SameCheckpoint ==
    ASSUME NEW d \in Tables, NEW e \in Tables, SameData(d, e), NEW c \in Claim,
           NEW next \in {"running"} \cup Closed, NEW waits \in SUBSET Wait, NEW now \in Nat
    PROVE  SameData(Checkpoint(d, c, next, waits, <<>>, now), Checkpoint(e, c, next, waits, <<>>, now))
<1>1. <<>> \in Seq(ChildStart) /\ Len(<<>>) <= 2
  OBVIOUS
<1>2. PICK d1, d2, d3, d4 \in Tables :
         CheckpointParts(d, c, next, waits, <<>>, now, d1, d2, d3, d4, Checkpoint(d, c, next, waits, <<>>, now))
  BY <1>1, CheckpointInParts
<1>3. PICK e1, e2, e3, e4 \in Tables :
         CheckpointParts(e, c, next, waits, <<>>, now, e1, e2, e3, e4, Checkpoint(e, c, next, waits, <<>>, now))
  BY <1>1, CheckpointInParts
<1> DEFINE r   == c.act.ref
           i   == d.inst[r]
           seq == i.seq + 1
<1>4. e.inst[r] = i /\ r \in Refs /\ i \in Instance /\ seq \in Nat
  BY ClaimFields, InstanceFields DEF SameData
<1>5. SameData(d1, e1)
  <2>1. /\ d.inst = e.inst /\ d.signals = e.signals /\ d.children = e.children
        /\ d.signalCounter = e.signalCounter
    BY DEF SameData
  <2> DEFINE n(f) == NextInstance(f, f.inst[r], next, waits, VersionOf[c.worker], now)
             S(X, k) == {IF c.act.kind = "signal" /\ s.id = c.act.n THEN [s EXCEPT !.consumed = k] ELSE s : s \in X}
             C(X, k) == {IF c.act.kind = "child" /\ x.id = c.act.n THEN [x EXCEPT !.delivered = k] ELSE x : x \in X}
             Part(f, f1) == /\ f1.inst = [f.inst EXCEPT ![r] = n(f)]
                            /\ f1.signals = S(f.signals, f.inst[r].seq + 1)
                            /\ f1.children = C(f.children, f.inst[r].seq + 1)
                            /\ f1.signalCounter = f.signalCounter
  <2>2. n(d) = n(e)
    BY <1>4, SameNextInstance
  <2>3. Part(d, d1) /\ Part(e, e1)
    BY <1>2, <1>3 DEF CheckpointParts
  <2> HIDE DEF n, S, C
  <2> QED
    BY <1>4, <2>1, <2>2, <2>3 DEF SameData
<1>6. d2 = d1 /\ e2 = e1
  <2>1. \A f : StartedAll(f, c, <<>>, now) = f
    BY DEF StartedAll
  <2>2. d2 = StartedAll(d1, c, <<>>, now) /\ e2 = StartedAll(e1, c, <<>>, now)
    BY <1>2, <1>3 DEF CheckpointParts
  <2> QED
    BY <2>1, <2>2
<1>7. SameData(d3, e3)
  BY <1>2, <1>3, <1>4, <1>5, <1>6, SameParentRecord DEF CheckpointParts
<1>8. SameData(d4, e4)
  BY <1>2, <1>3, <1>4, <1>7, SameClosePolicy DEF CheckpointParts
<1> QED
  BY <1>2, <1>3, <1>8 DEF CheckpointParts, SameData

-------------------------------------------------------------------------------
(* A batch of commits, by induction over its length. *)

\* One commit of a batch that is applied, and one that is replayed.
ApplyCommit(s, x, v) ==
    IF Refusal(s.store, x.claim, x.now) = "none"
    THEN [store |-> CheckpointOf(s.store, x, v), accepted |-> s.accepted \cup {x.claim}]
    ELSE s
ReplayCommit(s, x, v) ==
    IF Conflict(s.store, x.claim) = "none" THEN [s EXCEPT !.store = CheckpointOf(s.store, x, v)]
    ELSE [s EXCEPT !.agrees = FALSE]

\* The functions that Applied and Replayed define, up to the commit m.
Applies(f, d, batch, waits, m) ==
    f = [n \in 0..m |-> IF n = 0 THEN [store |-> d, accepted |-> {}]
                        ELSE ApplyCommit(f[n - 1], batch[n], waits[n])]
Replays(f, d, batch, waits, m) ==
    f = [n \in 0..m |-> IF n = 0 THEN [store |-> d, agrees |-> TRUE]
                        ELSE ReplayCommit(f[n - 1], batch[n], waits[n])]

LEMMA AppliesExists == ASSUME NEW d, NEW batch, NEW waits, NEW m \in Nat PROVE \E f : Applies(f, d, batch, waits, m)
<1> DEFINE S == {n \in Nat : \E f : Applies(f, d, batch, waits, n)}
           none == [store |-> d, accepted |-> {}]
<1>1. 0 \in S
  <2> DEFINE f == [n \in 0..0 |-> none]
  <2>1. Applies(f, d, batch, waits, 0)
    BY DEF Applies
  <2> QED
    BY <2>1
<1>2. ASSUME NEW n \in Nat, n \in S PROVE n + 1 \in S
  <2>1. PICK f : Applies(f, d, batch, waits, n)
    BY <1>2
  <2> DEFINE h == [i \in 0..(n + 1) |-> IF i = n + 1 THEN ApplyCommit(f[n], batch[n + 1], waits[n + 1]) ELSE f[i]]
  <2>2. \A i \in 0..n : f[i] = IF i = 0 THEN none ELSE ApplyCommit(f[i - 1], batch[i], waits[i])
    BY <2>1 DEF Applies
  <2>3. ASSUME NEW i \in 0..(n + 1) PROVE h[i] = IF i = 0 THEN none ELSE ApplyCommit(h[i - 1], batch[i], waits[i])
    <3> HIDE DEF none
    <3>1. CASE i = n + 1
      <4>1. i - 1 = n /\ n \in 0..(n + 1) /\ n # n + 1 /\ i # 0
        BY <3>1
      <4> QED
        BY <3>1, <4>1
    <3>2. CASE i # n + 1
      <4>1. i \in 0..n /\ (i # 0 => i - 1 \in 0..(n + 1) /\ i - 1 # n + 1)
        BY <3>2
      <4> QED
        BY <2>2, <3>2, <4>1
    <3> QED
      BY <3>1, <3>2
  <2>4. Applies(h, d, batch, waits, n + 1)
    <3>1. h = [i \in 0..(n + 1) |-> h[i]]
      OBVIOUS
    <3> HIDE DEF h
    <3> QED
      BY <2>3, <3>1 DEF Applies
  <2> QED
    BY <2>4
<1>3. \A n \in Nat : n \in S
  <2> HIDE DEF S
  <2> QED
    BY <1>1, <1>2, FromZeroUp
<1> QED
  BY <1>3

AppliedRun(d, batch, waits) == CHOOSE f : Applies(f, d, batch, waits, Len(batch))

LEMMA AppliedInSteps ==
    ASSUME NEW d, NEW batch, NEW waits, NEW m \in Nat, m = Len(batch)
    PROVE  LET f == AppliedRun(d, batch, waits)
           IN  /\ f[0] = [store |-> d, accepted |-> {}] /\ Applied(d, batch, waits) = f[m]
               /\ \A n \in 1..m : f[n] = ApplyCommit(f[n - 1], batch[n], waits[n])
<1> DEFINE f == AppliedRun(d, batch, waits)
<1>1. Applied(d, batch, waits) = f[Len(batch)]
  BY Zenon DEF AppliedRun, Applied, Applies, ApplyCommit
<1>2. Applies(f, d, batch, waits, m)
  <2>1. \E h : Applies(h, d, batch, waits, Len(batch))
    BY AppliesExists
  <2>2. Applies(f, d, batch, waits, Len(batch))
    BY <2>1, Zenon DEF AppliedRun
  <2> QED
    BY <2>2
<1> HIDE DEF f
<1>3. \A n \in 0..m : f[n] = IF n = 0 THEN [store |-> d, accepted |-> {}] ELSE ApplyCommit(f[n - 1], batch[n], waits[n])
  BY <1>2 DEF Applies
<1>4. 0 \in 0..m /\ \A n \in 1..m : n \in 0..m /\ n # 0
  OBVIOUS
<1>5. /\ f[0] = [store |-> d, accepted |-> {}] /\ Applied(d, batch, waits) = f[m]
      /\ \A n \in 1..m : f[n] = ApplyCommit(f[n - 1], batch[n], waits[n])
  BY <1>1, <1>3, <1>4
<1> QED
  BY <1>5 DEF f

LEMMA ReplaysExists == ASSUME NEW d, NEW batch, NEW waits, NEW m \in Nat PROVE \E f : Replays(f, d, batch, waits, m)
<1> DEFINE S == {n \in Nat : \E f : Replays(f, d, batch, waits, n)}
           none == [store |-> d, agrees |-> TRUE]
<1>1. 0 \in S
  <2> DEFINE f == [n \in 0..0 |-> none]
  <2>1. Replays(f, d, batch, waits, 0)
    BY DEF Replays
  <2> QED
    BY <2>1
<1>2. ASSUME NEW n \in Nat, n \in S PROVE n + 1 \in S
  <2>1. PICK f : Replays(f, d, batch, waits, n)
    BY <1>2
  <2> DEFINE h == [i \in 0..(n + 1) |-> IF i = n + 1 THEN ReplayCommit(f[n], batch[n + 1], waits[n + 1]) ELSE f[i]]
  <2>2. \A i \in 0..n : f[i] = IF i = 0 THEN none ELSE ReplayCommit(f[i - 1], batch[i], waits[i])
    BY <2>1 DEF Replays
  <2>3. ASSUME NEW i \in 0..(n + 1) PROVE h[i] = IF i = 0 THEN none ELSE ReplayCommit(h[i - 1], batch[i], waits[i])
    <3> HIDE DEF none
    <3>1. CASE i = n + 1
      <4>1. i - 1 = n /\ n \in 0..(n + 1) /\ n # n + 1 /\ i # 0
        BY <3>1
      <4> QED
        BY <3>1, <4>1
    <3>2. CASE i # n + 1
      <4>1. i \in 0..n /\ (i # 0 => i - 1 \in 0..(n + 1) /\ i - 1 # n + 1)
        BY <3>2
      <4> QED
        BY <2>2, <3>2, <4>1
    <3> QED
      BY <3>1, <3>2
  <2>4. Replays(h, d, batch, waits, n + 1)
    <3>1. h = [i \in 0..(n + 1) |-> h[i]]
      OBVIOUS
    <3> HIDE DEF h
    <3> QED
      BY <2>3, <3>1 DEF Replays
  <2> QED
    BY <2>4
<1>3. \A n \in Nat : n \in S
  <2> HIDE DEF S
  <2> QED
    BY <1>1, <1>2, FromZeroUp
<1> QED
  BY <1>3

ReplayedRun(d, batch, waits) == CHOOSE f : Replays(f, d, batch, waits, Len(batch))

LEMMA ReplayedInSteps ==
    ASSUME NEW d, NEW batch, NEW waits, NEW m \in Nat, m = Len(batch)
    PROVE  LET f == ReplayedRun(d, batch, waits)
           IN  /\ f[0] = [store |-> d, agrees |-> TRUE] /\ Replayed(d, batch, waits) = f[m]
               /\ \A n \in 1..m : f[n] = ReplayCommit(f[n - 1], batch[n], waits[n])
<1> DEFINE f == ReplayedRun(d, batch, waits)
<1>1. Replayed(d, batch, waits) = f[Len(batch)]
  BY Zenon DEF ReplayedRun, Replayed, Replays, ReplayCommit
<1>2. Replays(f, d, batch, waits, m)
  <2>1. \E h : Replays(h, d, batch, waits, Len(batch))
    BY ReplaysExists
  <2>2. Replays(f, d, batch, waits, Len(batch))
    BY <2>1, Zenon DEF ReplayedRun
  <2> QED
    BY <2>2
<1> HIDE DEF f
<1>3. \A n \in 0..m : f[n] = IF n = 0 THEN [store |-> d, agrees |-> TRUE] ELSE ReplayCommit(f[n - 1], batch[n], waits[n])
  BY <1>2 DEF Replays
<1>4. 0 \in 0..m /\ \A n \in 1..m : n \in 0..m /\ n # 0
  OBVIOUS
<1>5. /\ f[0] = [store |-> d, agrees |-> TRUE] /\ Replayed(d, batch, waits) = f[m]
      /\ \A n \in 1..m : f[n] = ReplayCommit(f[n - 1], batch[n], waits[n])
  BY <1>1, <1>3, <1>4
<1> QED
  BY <1>5 DEF f

-------------------------------------------------------------------------------
(* Commits. *)

\* A commit as a worker sends it.
Sendable(x) == x.claim \in Claim /\ x.now \in Nat /\ x.next \in {"running"} \cup Closed
Answer(x) == [act |-> x.claim.act, owner |-> x.claim.worker]

LEMMA PreparesType ==
    ASSUME TypeOK, NEW w \in alive, NEW x \in Prepares(w)
    PROVE  Sendable(x) /\ x.claim \in held /\ \A v \in WaitsOf(x) : v \in SUBSET Wait
<1>1. x.claim \in held /\ x.now \in Instants /\ x.next \in Outcomes \cup {"running"}
  BY DEF Prepares
<1>2. Sendable(x)
  BY <1>1, InstantsType, InputAssumption DEF Sendable, TypeOK
<1>3. ASSUME NEW v \in WaitsOf(x) PROVE v \in SUBSET Wait
  <2>1. CASE x.next = "running"
    <3>1. PICK T \in NextWaits[x.claim.act.ref[1]] : v = Materialize(T, x.claim.at, x.now)
      BY <1>3, <2>1 DEF WaitsOf
    <3>2. x.claim.act.ref[1] \in Ids /\ x.claim.at \in Nat /\ x.now \in Nat
      BY <1>2, ClaimFields DEF Sendable, Refs
    <3>3. T \in SUBSET Wait
      BY <3>1, <3>2, InputAssumption
    <3> QED
      BY <3>1, <3>2, <3>3, MaterializeType
  <2>2. CASE x.next # "running"
    BY <1>3, <2>2 DEF WaitsOf
  <2> QED
    BY <2>1, <2>2
<1> QED
  BY <1>1, <1>2, <1>3

\* A batch has a length, up to MaxBatch, and its commits are of different activations.
LEMMA SentBatches ==
    ASSUME NEW w, NEW batch \in Sent(w)
    PROVE  \E m \in 1..MaxBatch :
             /\ m = Len(batch) /\ DOMAIN batch = 1..m
             /\ \A i \in 1..m : batch[i] \in Prepares(w)
             /\ \A i, k \in 1..m : i # k => batch[i].claim # batch[k].claim
<1>1. PICK m \in 1..MaxBatch : batch \in [1..m -> Prepares(w)]
  BY DEF Sent
<1>2. m \in Nat
  BY BatchAssumption
<1>3. Len(batch) = m
  BY <1>1, <1>2
<1>4. \A i, k \in DOMAIN batch : i # k => batch[i].claim # batch[k].claim
  BY DEF Sent
<1> QED
  BY <1>1, <1>3, <1>4

LEMMA CheckpointOfTables ==
    ASSUME NEW d \in Tables, NEW x, Sendable(x), NEW v \in SUBSET Wait
    PROVE  /\ CheckpointOf(d, x, v) \in Tables
           /\ CheckpointOf(d, x, v).completed = d.completed \cup {Answer(x)}
<1>1. <<>> \in Seq(ChildStart) /\ Len(<<>>) <= 2
  OBVIOUS
<1>2. CommitsClaim(d, x.claim, Checkpoint(d, x.claim, x.next, v, <<>>, x.now))
  BY <1>1, CheckpointTables DEF Sendable
<1> QED
  BY <1>2 DEF CommitsClaim, CheckpointOf, Answer

\* A commit that is applied is accepted or changes nothing; one that was accepted is replayed
\* without a conflict on tables with the same runs, signals and children.
LEMMA ApplyCommitTables ==
    ASSUME NEW d \in Tables, NEW A, NEW x, Sendable(x), NEW v \in SUBSET Wait
    PROVE  LET s == [store |-> d, accepted |-> A]
               t == ApplyCommit(s, x, v)
           IN  \/ t = s
               \/ /\ t = [store |-> CheckpointOf(d, x, v), accepted |-> A \cup {x.claim}]
                  /\ Conflict(d, x.claim) = "none"
<1>1. Refusal(d, x.claim, x.now) = "none" => Conflict(d, x.claim) = "none"
  BY DEF Refusal
<1> QED
  BY <1>1 DEF ApplyCommit

LEMMA ReplayCommitAgrees ==
    ASSUME NEW d \in Tables, NEW e \in Tables, SameData(d, e), NEW x, Sendable(x), NEW v \in SUBSET Wait,
           Conflict(d, x.claim) = "none"
    PROVE  /\ ReplayCommit([store |-> e, agrees |-> TRUE], x, v) = [store |-> CheckpointOf(e, x, v), agrees |-> TRUE]
           /\ SameData(CheckpointOf(d, x, v), CheckpointOf(e, x, v))
<1>1. Conflict(e, x.claim) = "none"
  BY SameConflict
<1>2. SameData(CheckpointOf(d, x, v), CheckpointOf(e, x, v))
  BY SameCheckpoint DEF CheckpointOf, Sendable
<1> QED
  BY <1>1, <1>2 DEF ReplayCommit

\* What n commits of a batch have made of the live store and of the one they are replayed on,
\* which started from the same commits: if all of them were accepted, all could be replayed and
\* the two stores agree, and what was answered is in both.
ClaimsTo(batch, n) == {batch[i].claim : i \in 1..n}
AnswersTo(batch, n) == {Answer(batch[i]) : i \in 1..n}
Together(e, batch, n, d, k) ==
    /\ d \in Tables /\ k \in Tables /\ SameData(d, k)
    /\ d.completed = e.completed \cup AnswersTo(batch, n) /\ k.completed = e.completed \cup AnswersTo(batch, n)
Agree(e, batch, n, s, t) ==
    \E d \in Tables, A \in SUBSET ClaimsTo(batch, n) :
        /\ s = [store |-> d, accepted |-> A]
        /\ ClaimsTo(batch, n) \subseteq A =>
             \E k \in Tables : t = [store |-> k, agrees |-> TRUE] /\ Together(e, batch, n, d, k)

LEMMA CommitAgrees ==
    ASSUME NEW e, NEW batch, NEW n \in Nat, NEW x, x = batch[n + 1], Sendable(x), NEW v \in SUBSET Wait,
           x.claim \notin ClaimsTo(batch, n), NEW s, NEW t, Agree(e, batch, n, s, t)
    PROVE  Agree(e, batch, n + 1, ApplyCommit(s, x, v), ReplayCommit(t, x, v))
<1>1. PICK d \in Tables, A \in SUBSET ClaimsTo(batch, n) :
        /\ s = [store |-> d, accepted |-> A]
        /\ ClaimsTo(batch, n) \subseteq A =>
             \E k \in Tables : t = [store |-> k, agrees |-> TRUE] /\ Together(e, batch, n, d, k)
  BY DEF Agree
<1> DEFINE d1 == CheckpointOf(d, x, v)
<1>2. /\ ClaimsTo(batch, n + 1) = ClaimsTo(batch, n) \cup {x.claim}
      /\ AnswersTo(batch, n + 1) = AnswersTo(batch, n) \cup {Answer(x)}
  <2>1. 1..(n + 1) = 1..n \cup {n + 1}
    OBVIOUS
  <2> QED
    BY <2>1 DEF ClaimsTo, AnswersTo
<1>3. \/ ApplyCommit(s, x, v) = s
      \/ /\ ApplyCommit(s, x, v) = [store |-> d1, accepted |-> A \cup {x.claim}]
         /\ Conflict(d, x.claim) = "none"
  BY <1>1, ApplyCommitTables
<1>4. CASE ApplyCommit(s, x, v) = s
  <2>1. A \in SUBSET ClaimsTo(batch, n + 1) /\ ~ (ClaimsTo(batch, n + 1) \subseteq A)
    BY <1>2
  <2> QED
    BY <1>1, <1>4, <2>1 DEF Agree
<1>5. CASE /\ ApplyCommit(s, x, v) = [store |-> d1, accepted |-> A \cup {x.claim}]
           /\ Conflict(d, x.claim) = "none"
  <2>1. d1 \in Tables /\ d1.completed = d.completed \cup {Answer(x)}
    BY CheckpointOfTables
  <2>2. A \cup {x.claim} \in SUBSET ClaimsTo(batch, n + 1)
    BY <1>2
  <2>3. ASSUME ClaimsTo(batch, n + 1) \subseteq A \cup {x.claim}
        PROVE  \E k1 \in Tables : /\ ReplayCommit(t, x, v) = [store |-> k1, agrees |-> TRUE]
                                 /\ Together(e, batch, n + 1, d1, k1)
    <3>1. ClaimsTo(batch, n) \subseteq A
      BY <1>2, <2>3
    <3>2. PICK k \in Tables : t = [store |-> k, agrees |-> TRUE] /\ Together(e, batch, n, d, k)
      BY <1>1, <3>1
    <3> DEFINE k1 == CheckpointOf(k, x, v)
    <3>3. k1 \in Tables /\ k1.completed = k.completed \cup {Answer(x)}
      BY CheckpointOfTables
    <3>4. ReplayCommit(t, x, v) = [store |-> k1, agrees |-> TRUE] /\ SameData(d1, k1)
      BY <1>5, <3>2, ReplayCommitAgrees DEF Together
    <3> HIDE DEF d1, k1
    <3>5. Together(e, batch, n + 1, d1, k1)
      BY <1>2, <2>1, <3>2, <3>3, <3>4 DEF Together
    <3> QED
      BY <3>3, <3>4, <3>5
  <2> HIDE DEF d1
  <2> QED
    BY <1>5, <2>1, <2>2, <2>3 DEF Agree
<1> QED
  BY <1>3, <1>4, <1>5

\* A batch as a worker sends it: the commits are of different activations.
SendableBatch(batch, waits) ==
    /\ DOMAIN batch = 1..Len(batch)
    /\ \A i, k \in DOMAIN batch : i # k => batch[i].claim # batch[k].claim
    /\ \A i \in DOMAIN batch : Sendable(batch[i]) /\ waits[i] \in SUBSET Wait

\* What becomes of a batch: if every commit of it is accepted, it can be replayed, and the
\* answers are in both stores; a single commit that is not accepted is not answered.
GoodOutcome(e, batch, live, again) ==
    /\ Recorded(batch, live.accepted) =>
         /\ live.store \in Tables /\ again.store \in Tables /\ again.agrees = TRUE
         /\ live.store.completed = e.completed \cup {Answer(batch[i]) : i \in DOMAIN batch}
         /\ again.store.completed = e.completed \cup {Answer(batch[i]) : i \in DOMAIN batch}
    /\ Len(batch) = 1 /\ ~ Recorded(batch, live.accepted) => live.accepted = {}

LEMMA BatchOutcome ==
    ASSUME NEW d \in Tables, NEW e \in Tables, SameData(d, e), d.completed = e.completed,
           NEW batch, NEW waits, NEW m \in Nat, m = Len(batch), SendableBatch(batch, waits)
    PROVE  GoodOutcome(e, batch, Applied(d, batch, waits), Replayed(e, batch, waits))
<1> DEFINE f == AppliedRun(d, batch, waits)
           g == ReplayedRun(e, batch, waits)
<1>1. /\ f[0] = [store |-> d, accepted |-> {}] /\ Applied(d, batch, waits) = f[m]
      /\ \A n \in 1..m : f[n] = ApplyCommit(f[n - 1], batch[n], waits[n])
  BY AppliedInSteps
<1>2. /\ g[0] = [store |-> e, agrees |-> TRUE] /\ Replayed(e, batch, waits) = g[m]
      /\ \A n \in 1..m : g[n] = ReplayCommit(g[n - 1], batch[n], waits[n])
  BY ReplayedInSteps
<1> HIDE DEF f, g
<1>3. DOMAIN batch = 1..m
  BY DEF SendableBatch
<1> DEFINE S == {n \in Nat : n <= m => Agree(e, batch, n, f[n], g[n])}
<1>4. 0 \in S
  <2>1. ClaimsTo(batch, 0) = {} /\ AnswersTo(batch, 0) = {}
    BY DEF ClaimsTo, AnswersTo
  <2>2. Together(e, batch, 0, d, e)
    BY <2>1 DEF Together
  <2>3. Agree(e, batch, 0, f[0], g[0])
    BY <1>1, <1>2, <2>1, <2>2 DEF Agree
  <2> QED
    BY <2>3
<1>5. ASSUME NEW n \in Nat, n \in S PROVE n + 1 \in S
  <2> SUFFICES ASSUME n + 1 <= m PROVE Agree(e, batch, n + 1, f[n + 1], g[n + 1])
    OBVIOUS
  <2>1. n + 1 \in 1..m /\ n <= m /\ n + 1 - 1 = n /\ \A i \in 1..n : i \in 1..m /\ i # n + 1
    OBVIOUS
  <2>2. Agree(e, batch, n, f[n], g[n])
    BY <1>5, <2>1
  <2>3. Sendable(batch[n + 1]) /\ waits[n + 1] \in SUBSET Wait
    BY <1>3, <2>1 DEF SendableBatch
  <2>4. batch[n + 1].claim \notin ClaimsTo(batch, n)
    BY <1>3, <2>1 DEF SendableBatch, ClaimsTo
  <2>5. /\ f[n + 1] = ApplyCommit(f[n], batch[n + 1], waits[n + 1])
        /\ g[n + 1] = ReplayCommit(g[n], batch[n + 1], waits[n + 1])
    BY <1>1, <1>2, <2>1
  <2> QED
    BY <2>2, <2>3, <2>4, <2>5, CommitAgrees
<1>6. Agree(e, batch, m, f[m], g[m])
  <2>1. \A n \in Nat : n \in S
    <3> HIDE DEF S
    <3> QED
      BY <1>4, <1>5, FromZeroUp
  <2> QED
    BY <2>1
<1> DEFINE live == Applied(d, batch, waits)
           again == Replayed(e, batch, waits)
<1>7. Agree(e, batch, m, live, again)
  BY <1>1, <1>2, <1>6
<1> HIDE DEF live, again, S
<1>8. PICK d1 \in Tables, A \in SUBSET ClaimsTo(batch, m) :
        /\ live = [store |-> d1, accepted |-> A]
        /\ ClaimsTo(batch, m) \subseteq A =>
             \E k \in Tables : again = [store |-> k, agrees |-> TRUE] /\ Together(e, batch, m, d1, k)
  BY <1>7 DEF Agree
<1>9. Claims(batch) = ClaimsTo(batch, m) /\ {Answer(batch[i]) : i \in DOMAIN batch} = AnswersTo(batch, m)
  BY <1>3 DEF Claims, ClaimsTo, AnswersTo
<1>10. live.accepted = A /\ live.store = d1
  BY <1>8
<1>11. ASSUME Recorded(batch, live.accepted)
       PROVE  /\ live.store \in Tables /\ again.store \in Tables /\ again.agrees = TRUE
              /\ live.store.completed = e.completed \cup AnswersTo(batch, m)
              /\ again.store.completed = e.completed \cup AnswersTo(batch, m)
  <2>1. A = ClaimsTo(batch, m)
    BY <1>9, <1>10, <1>11 DEF Recorded
  <2>2. PICK k \in Tables : again = [store |-> k, agrees |-> TRUE] /\ Together(e, batch, m, d1, k)
    BY <1>8, <2>1
  <2>3. again.store = k /\ again.agrees = TRUE
    BY <2>2
  <2> QED
    BY <1>10, <2>2, <2>3 DEF Together
<1>12. ASSUME Len(batch) = 1, ~ Recorded(batch, live.accepted) PROVE live.accepted = {}
  <2>1. ClaimsTo(batch, m) = {batch[1].claim}
    BY <1>12 DEF ClaimsTo
  <2>2. A # ClaimsTo(batch, m)
    BY <1>9, <1>10, <1>12 DEF Recorded
  <2> QED
    BY <1>10, <2>1, <2>2
<1> QED
  BY <1>9, <1>11, <1>12 DEF GoodOutcome, live, again

LEMMA JournaledCommitsInv ==
    ASSUME JournalInv, NEW w \in alive, NEW batch \in Sent(w), JournaledCommits(w, batch)
    PROVE  JournalInv'
<1> DEFINE claims == Claims(batch)
<1>0. PICK d, e : d = db /\ e = kept
  OBVIOUS
<1>1. PICK waits, live, again :
         /\ live = Applied(d, batch, waits) /\ again = Replayed(e, batch, waits)
         /\ \A i \in DOMAIN batch : waits[i] \in WaitsOf(batch[i])
         /\ IF Recorded(batch, live.accepted) THEN Written(live.store, again.store, again.agrees) ELSE Unwritten
         /\ answered' = answered \cup {[act |-> c.act, owner |-> c.worker] : c \in live.accepted}
         /\ held' = (held \ claims) \cup {[c EXCEPT !.state = "refused"] : c \in claims \ live.accepted}
         /\ attempts' \subseteq attempts
         /\ UNCHANGED <<leases, sessions, alive, clock>>
  BY <1>0, Zenon DEF JournaledCommits
<1>2. PICK m \in 1..MaxBatch :
         /\ m = Len(batch) /\ DOMAIN batch = 1..m
         /\ \A i \in 1..m : batch[i] \in Prepares(w)
         /\ \A i, k \in 1..m : i # k => batch[i].claim # batch[k].claim
  BY SentBatches
<1>3. \A i \in 1..m : Sendable(batch[i]) /\ batch[i].claim \in held /\ waits[i] \in SUBSET Wait
  BY <1>1, <1>2, PreparesType, EngineTypes
<1>4. HandsOK'
  <2>1. \A c \in Claim : [c EXCEPT !.state = "refused"] \in Claim
    BY DEF Claim
  <2>2. claims \subseteq held
    BY <1>2, <1>3 DEF Claims
  <2> HIDE DEF claims
  <2> QED
    BY <1>1, <2>1, <2>2 DEF JournalInv, HandsOK
<1>5. GoodOutcome(kept, batch, live, again)
  <2>1. d \in Tables /\ e \in Tables /\ SameData(d, e) /\ d.completed = e.completed
    BY <1>0, EngineTypes
  <2>2. SendableBatch(batch, waits) /\ m \in Nat
    BY <1>2, <1>3, BatchAssumption DEF SendableBatch
  <2>3. GoodOutcome(e, batch, Applied(d, batch, waits), Replayed(e, batch, waits))
    BY <1>2, <2>1, <2>2, BatchOutcome
  <2> QED
    BY <1>0, <1>1, <2>3
<1>6. CASE Recorded(batch, live.accepted)
  <2>1. Written(live.store, again.store, TRUE) /\ live.store \in Tables /\ again.store \in Tables
    BY <1>1, <1>5, <1>6 DEF GoodOutcome
  <2>2. answered' = answered \cup {Answer(batch[i]) : i \in DOMAIN batch}
    BY <1>1, <1>6 DEF Recorded, Claims, Answer
  <2>3. ASSUME MaxBatch = 1 PROVE answered' \subseteq live.store.completed /\ answered' \subseteq again.store.completed
    BY <1>5, <1>6, <2>2, <2>3 DEF GoodOutcome, JournalInv, AnsweredIsKept
  <2> QED
    BY <1>4, <2>1, <2>3, WrittenInv
<1>7. CASE ~ Recorded(batch, live.accepted)
  <2>1. UNCHANGED <<db, kept, loads>>
    BY <1>1, <1>7 DEF Unwritten
  <2>2. ASSUME MaxBatch = 1 PROVE answered' = answered
    <3>1. live.accepted = {}
      BY <1>2, <1>5, <1>7, <2>2 DEF GoodOutcome
    <3> QED
      BY <1>1, <3>1
  <2> QED
    BY <1>4, <2>1, <2>2, UnwrittenInv
<1> QED
  BY <1>6, <1>7

-------------------------------------------------------------------------------
(* Activities. *)

LEMMA PutTables ==
    ASSUME NEW d \in Tables, NEW e \in EffectRecord
    PROVE  Put(d, e) \in Tables /\ Put(d, e).completed = d.completed
  BY DEF Put, Tables

LEMMA JournaledReserveInv ==
    ASSUME JournalInv, NEW c \in held, NEW key \in EagerKeys, NEW now \in Instants, JournaledReserve(c, key, now)
    PROVE  JournalInv'
<1>1. PICK d1 : d1 = ExpireTimeouts(db, Expirable(db, c.worker, now), now)
  OBVIOUS
<1>2. /\ now \in Nat /\ c \in Claim /\ key \in EffectKeys /\ db \in Tables /\ kept \in Tables
      /\ db.completed = kept.completed
  BY EngineTypes, InstantsType, InputAssumption DEF TypeOK
<1>3. c.act \in Activation /\ c.worker \in Workers
  BY <1>2, ClaimFields
<1>4. d1 \in Tables /\ d1.completed = kept.completed
  BY <1>1, <1>2, ExpireTimeoutsSafe DEF Safe
<1>14. PICK n \in FreshIds :
         \E token, live, put :
             /\ token = [n |-> n, worker |-> c.worker]
             /\ live = Reserve(d1, c.act, key, token, now)
             /\ put = Put(kept, CHOOSE e \in EffectFor(live, c.act, key) : TRUE)
             /\ Written(live, put, TRUE)
             /\ attempts' = attempts \cup {[act |-> c.act, key |-> key, token |-> token]}
  BY <1>1 DEF JournaledReserve
<1>5. PICK token, live, put :
         /\ token = [n |-> n, worker |-> c.worker]
         /\ live = Reserve(d1, c.act, key, token, now)
         /\ put = Put(kept, CHOOSE e \in EffectFor(live, c.act, key) : TRUE)
         /\ Written(live, put, TRUE)
         /\ attempts' = attempts \cup {[act |-> c.act, key |-> key, token |-> token]}
  BY <1>14
<1>6. UNCHANGED <<leases, sessions, held, alive, clock, answered>>
  BY DEF JournaledReserve
<1>7. token \in Token /\ [act |-> c.act, key |-> key, token |-> token] \in Attempt
  <2>1. n \in Nat
    BY InputAssumption DEF FreshIds
  <2>2. token \in Token
    BY <1>3, <1>5, <2>1 DEF Token
  <2> QED
    BY <1>2, <1>3, <2>2 DEF Attempt
<1>8. live \in Tables /\ live.completed = kept.completed
  BY <1>2, <1>3, <1>4, <1>5, <1>7, ReserveSafe DEF Safe
<1>9. EffectFor(live, c.act, key) # {}
  <2> DEFINE old == EffectFor(d1, c.act, key)
             e == [act |-> c.act, key |-> key, status |-> "pending",
                   attempt |-> IF old = {} THEN 1 ELSE (CHOOSE x \in old : TRUE).attempt,
                   token |-> token, begun |-> now, start |-> Deadline(now, Effect[key].start),
                   hb |-> Deadline(now, Effect[key].hb),
                   first |-> IF old = {} THEN now ELSE (CHOOSE x \in old : TRUE).first, next |-> 0]
  <2>1. live = [d1 EXCEPT !.effects = (d1.effects \ old) \cup {e}]
    BY <1>5 DEF Reserve
  <2>2. e.act = c.act /\ e.key = key
    OBVIOUS
  <2> HIDE DEF e, old
  <2>3. e \in live.effects
    BY <1>4, <2>1 DEF Tables
  <2> QED
    BY <2>2, <2>3 DEF EffectFor, EffectsOf
<1>10. (CHOOSE e \in EffectFor(live, c.act, key) : TRUE) \in EffectRecord
  BY <1>8, <1>9 DEF EffectFor, EffectsOf, Tables
<1>11. put \in Tables /\ put.completed = kept.completed
  BY <1>2, <1>5, <1>10, PutTables
<1>12. HandsOK'
  BY <1>5, <1>6, <1>7 DEF JournalInv, HandsOK
<1>13. MaxBatch = 1 => answered' \subseteq live.completed /\ answered' \subseteq put.completed
  BY <1>6, <1>8, <1>11 DEF JournalInv, AnsweredIsKept
<1> QED
  BY <1>5, <1>8, <1>11, <1>12, <1>13, WrittenInv

\* The effects of the activations A after their late attempts have expired.
AfterTimeouts(E, A, now) ==
    {IF u \in {v \in E : v.act \in A /\ Late(v, now)} THEN AfterFailure(u, now, TRUE) ELSE u : u \in E}

\* Whether an attempt can still end depends on the tasks and the effects alone.
LEMMA SamePending ==
    ASSUME NEW d \in Tables, NEW e \in Tables, d.tasks = e.tasks, d.effects = e.effects, NEW x, NEW now
    PROVE  StillPending(d, x, now) = StillPending(e, x, now)
<1>1. ASSUME NEW f \in Tables, NEW A
      PROVE  ExpireTimeouts(f, A, now).effects = AfterTimeouts(f.effects, A, now)
  <2>1. ASSUME NEW T, NEW b PROVE Freed(f, T, b).effects = f.effects
    BY DEF Freed, Tables
  <2>2. ASSUME NEW T, NEW b, NEW E PROVE [Freed(f, T, b) EXCEPT !.effects = E].effects = E
    BY DEF Freed, Tables
  <2> DEFINE late == {v \in f.effects : v.act \in A /\ Late(v, now)}
             last(a) == {v \in late : v.act = a /\ \A o \in late : o.act = a => o.key <= v.key}
             freed == {t \in f.tasks : \E v \in late : v.act = t.act}
             blocked == [t \in freed |-> IF last(t.act) = {} THEN 0
                                         ELSE BlockedAfter(CHOOSE v \in last(t.act) : TRUE, now, TRUE)]
             f1 == Freed(f, freed, blocked)
             E == {IF u \in late THEN AfterFailure(u, now, TRUE) ELSE u : u \in f1.effects}
  <2>3. ExpireTimeouts(f, A, now) = [f1 EXCEPT !.effects = E]
    BY DEF ExpireTimeouts
  <2> HIDE DEF late, freed, blocked
  <2>4. f1.effects = f.effects
    BY <2>1
  <2>5. [f1 EXCEPT !.effects = E].effects = E
    BY <2>2
  <2> HIDE DEF f1
  <2>6. ExpireTimeouts(f, A, now).effects = {IF u \in late THEN AfterFailure(u, now, TRUE) ELSE u : u \in f.effects}
    BY <2>3, <2>4, <2>5
  <2> QED
    BY <2>6 DEF late, AfterTimeouts
<1>2. Expirable(d, x.token.worker, now) = Expirable(e, x.token.worker, now)
  BY DEF Expirable
<1>3. ASSUME NEW A PROVE ExpireTimeouts(d, A, now).effects = ExpireTimeouts(e, A, now).effects
  BY <1>1
<1> QED
  BY <1>2, <1>3 DEF StillPending, PendingAttempt, EffectFor, EffectsOf

LEMMA EndedSafe ==
    ASSUME NEW d \in Tables, NEW x, NEW now \in Nat, NEW how \in {"completed", "failed"}
    PROVE  Safe(d, Ended(d, x, now, how))
<1> DEFINE d1 == ExpireTimeouts(d, Expirable(d, x.token.worker, now), now)
           E  == PendingAttempt(d1, x.act, x.key, x.token)
           e  == CHOOSE f \in E : TRUE
<1>1. /\ E = {} => Ended(d, x, now, how) = d1
      /\ E # {} /\ how = "completed" => Ended(d, x, now, how) = Complete(d1, e)
      /\ E # {} /\ how = "failed" => Ended(d, x, now, how) = Fail(d1, e, now, TRUE)
  BY DEF Ended
<1>2. Safe(d, d1)
  BY ExpireTimeoutsSafe
<1> HIDE DEF d1
<1>3. d1 \in Tables
  BY <1>2 DEF Safe
<1>4. E # {} => e \in d1.effects
  BY DEF PendingAttempt, EffectFor, EffectsOf
<1> HIDE DEF E, e
<1>5. ASSUME E # {} PROVE Safe(d, Complete(d1, e)) /\ Safe(d, Fail(d1, e, now, TRUE))
  <2>1. Safe(d1, Complete(d1, e)) /\ Safe(d1, Fail(d1, e, now, TRUE))
    BY <1>3, <1>4, <1>5, CompleteSafe, FailSafe
  <2> QED
    BY <1>2, <1>3, <2>1, SafeTransitive DEF Safe
<1> QED
  BY <1>1, <1>2, <1>5

LEMMA JournaledEndInv ==
    ASSUME JournalInv, NEW x \in attempts, NEW how \in {"completed", "failed"}, NEW now \in Instants,
           JournaledEnd(x, how, now)
    PROVE  JournalInv'
<1>1. now \in Nat /\ db \in Tables /\ kept \in Tables
  BY EngineTypes, InstantsType
<1>2. PICK d, e : d = db /\ e = kept
  OBVIOUS
<1>3. StillPending(d, x, now) = StillPending(e, x, now)
  <2>1. d \in Tables /\ e \in Tables /\ d.tasks = e.tasks /\ d.effects = e.effects
    BY <1>2, EngineTypes
  <2> QED
    BY <2>1, SamePending
<1>4. StillPending(db, x, now) \in BOOLEAN /\ StillPending(kept, x, now) \in BOOLEAN
  BY DEF StillPending
<1>5. attempts' \subseteq attempts /\ UNCHANGED <<leases, sessions, held, alive, clock, answered>>
  BY DEF JournaledEnd
<1>6. HandsOK'
  BY <1>5 DEF JournalInv, HandsOK
<1>7. CASE StillPending(db, x, now)
  <2>1. StillPending(kept, x, now) = TRUE
    BY <1>2, <1>3, <1>4, <1>7
  <2>2. Written(Ended(db, x, now, how), Ended(kept, x, now, how), TRUE)
    BY <1>7, <2>1 DEF JournaledEnd
  <2>3. Safe(db, Ended(db, x, now, how)) /\ Safe(kept, Ended(kept, x, now, how))
    BY <1>1, EndedSafe
  <2> QED
    BY <1>5, <1>6, <2>2, <2>3, SafeWritten
<1>8. CASE ~ StillPending(db, x, now)
  <2>1. UNCHANGED <<db, kept, loads>>
    BY <1>8 DEF JournaledEnd, Unwritten
  <2> QED
    BY <1>5, <1>6, <2>1, UnwrittenInv
<1> QED
  BY <1>7, <1>8

-------------------------------------------------------------------------------
(* The theorems. *)

LEMMA JournalInitInv == JournalInit => JournalInv
<1>1. Init => TypeOK /\ EmptyTables \in Tables
  BY InitInv DEF Inv, TypeOK, Init
<1>2. Reloaded(EmptyTables) = EmptyTables
  BY DEF EmptyTables, Reloaded
<1> QED
  BY <1>1, <1>2 DEF JournalInit, JournalInv, HandsOK, TypeOK, AnsweredIsKept, Init

LEMMA JournalStep ==
    ASSUME JournalInv, [JournalNext]_journalVars
    PROVE  JournalInv'
<1>1. ASSUME NEW now \in Instants, NEW in \in ClientStarts, JournaledStart(in, now) PROVE JournalInv'
  BY <1>1, JournaledStartInv
<1>2. ASSUME NEW now \in Instants, NEW in \in Appends, JournaledSignal(in, now) PROVE JournalInv'
  BY <1>2, JournaledSignalInv
<1>3. ASSUME NEW w \in alive, NEW s \in Shards, NEW now \in Instants, JournaledLease(w, s, now) PROVE JournalInv'
  BY <1>3, JournaledLeaseInv
<1>4. ASSUME NEW w \in alive, NEW s \in Shards, NEW now \in Instants, JournaledClaims(w, s, now) PROVE JournalInv'
  BY <1>4, JournaledClaimsInv
<1>5. ASSUME NEW w \in alive, NEW batch \in Sent(w), JournaledCommits(w, batch) PROVE JournalInv'
  BY <1>5, JournaledCommitsInv
<1>6. ASSUME NEW c \in held, JournaledRelease(c) PROVE JournalInv'
  BY <1>6, JournaledReleaseInv
<1>7. ASSUME NEW c \in held, NEW key \in EagerKeys, NEW now \in Instants, JournaledReserve(c, key, now) PROVE JournalInv'
  BY <1>7, JournaledReserveInv
<1>8. ASSUME NEW x \in attempts, NEW how \in {"completed", "failed"}, NEW now \in Instants, JournaledEnd(x, how, now)
      PROVE  JournalInv'
  BY <1>8, JournaledEndInv
<1>9. CASE Tick /\ UNCHANGED <<kept, loads, answered>>
  <2>1. HandsOK' /\ UNCHANGED <<db, kept, loads, answered>>
    BY <1>9 DEF Tick, JournalInv, HandsOK
  <2> QED
    BY <2>1, UnwrittenInv
<1>10. CASE UNCHANGED journalVars
  BY <1>10 DEF journalVars, vars, JournalInv, HandsOK, AnsweredIsKept
<1> QED
  BY <1>1, <1>2, <1>3, <1>4, <1>5, <1>6, <1>7, <1>8, <1>9, <1>10 DEF JournalNext

\* Between two calls the engine has what a load computes, and no answered checkpoint is missing
\* if commits are sent one by one.
THEOREM JournalHolds == JournalSpec => []JournalInv
<1>1. JournalInv /\ [JournalNext]_journalVars => JournalInv'
  BY JournalStep
<1> QED
  BY JournalInitInv, <1>1, PTL DEF JournalSpec

\* The journal can always be read back, also when commits are sent in batches of any size: no
\* entry meets, when it is applied again, a conflict that it did not meet the first time
\* (apply_journal_operation).  It is about a journal of the entries that ShardJournal has: starts,
\* signals, claims, releases, batches of checkpoints, reservations, and attempts that complete or
\* fail.  Calls on children, signals that start a run, heartbeats and recorded failures are not
\* among them, and no checkpoint starts children.
THEOREM LoadSucceedsHolds == JournalSpec => []LoadSucceeds
<1>1. JournalInv => LoadSucceeds
  BY DEF JournalInv, LoadSucceeds
<1> QED
  BY JournalHolds, <1>1, PTL

\* An answer is final when commits are sent one by one: a checkpoint whose worker was told that
\* it was accepted is in the store that any later load computes, from a journal of these entries.
THEOREM AnsweredIsKeptHolds == MaxBatch = 1 => (JournalSpec => []AnsweredIsKept)
<1> SUFFICES ASSUME MaxBatch = 1 PROVE JournalSpec => []AnsweredIsKept
  OBVIOUS
<1>1. JournalInv => AnsweredIsKept
  BY DEF JournalInv
<1> QED
  BY JournalHolds, <1>1, PTL
===============================================================================
