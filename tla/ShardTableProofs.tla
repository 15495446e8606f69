---------------------------- MODULE ShardTableProofs ---------------------------
(***************************************************************************)
(* Facts about the operators of ShardTables and ShardEffects, for every    *)
(* value of the constants: each keeps the tables well-formed, leaves the   *)
(* record of accepted checkpoints alone, never invents a claim, and keeps  *)
(* the tables sound.                                                       *)
(***************************************************************************)
EXTENDS ShardEffects, TLAPS

\* Every claimed task of e is a task of d with the same claim.
NoNewClaim(d, e) ==
    \A t \in e.tasks : \/ t.owner = NoWorker
                       \/ \E u \in d.tasks : u.act = t.act /\ u.owner = t.owner /\ u.epoch = t.epoch

\* The signals of a run and type have different keys; every effect is in an attempt that its
\* policy allows, and is the only one of its activity; signals and child records are numbered
\* by their counters; a sequence that is marked as claimed has a task with that claim; and a
\* run that does not go on waits for nothing.
UniqueKeys(S) == \A s, o \in S : s.key # NoKey /\ s.key = o.key /\ s.ref = o.ref /\ s.type = o.type => s.id = o.id
WithinPolicy(E) == \A e \in E : e.attempt <= MaxAttempts(e.key)
OneRecordEach(E) == \A e, f \in E : e.act = f.act /\ e.key = f.key => e = f
Numbered(S, n) == (\A x \in S : x.id \in 1..n) /\ (\A x, y \in S : x.id = y.id => x = y)
MarksHaveTasks(M, T) ==
    \A m \in M : \E t \in T : SameSequence(m, t.act) /\ t.owner # NoWorker /\ t.epoch = m.epoch
StoppedWaitForNothing(inst) == \A r \in Refs : inst[r].status # "running" => inst[r].waits = {}
Sound(d) ==
    /\ UniqueKeys(d.signals) /\ WithinPolicy(d.effects) /\ OneRecordEach(d.effects)
    /\ Numbered(d.signals, d.signalCounter) /\ Numbered(d.children, d.childCounter)
    /\ MarksHaveTasks(d.claimed, d.tasks)
    /\ StoppedWaitForNothing(d.inst)

\* What every operator below does with the tables d it is given.
Safe(d, e) == /\ e \in Tables
              /\ e.completed = d.completed
              /\ NoNewClaim(d, e)
              /\ Sound(d) => Sound(e)

-------------------------------------------------------------------------------
(* Composition. *)

\* Operators can be composed: safety of a step is reflexive and transitive.
LEMMA SafeReflexive == ASSUME NEW d \in Tables PROVE Safe(d, d)
  BY DEF Safe, NoNewClaim

LEMMA SafeTransitive ==
    ASSUME NEW d, NEW e, NEW f, Safe(d, e), Safe(e, f)
    PROVE  Safe(d, f)
<1>1. f \in Tables /\ f.completed = d.completed
  BY DEF Safe
<1>2. NoNewClaim(d, f)
  BY DEF Safe, NoNewClaim
<1>3. Sound(d) => Sound(f)
  BY DEF Safe
<1> QED
  BY <1>1, <1>2, <1>3 DEF Safe

\* The tables with other tasks: well-formed tasks, of which the claimed ones are old.
LEMMA NewTasks ==
    ASSUME NEW d \in Tables, NEW T \in SUBSET Task, NEW M \in SUBSET Marker,
           \A t \in T : \/ t.owner = NoWorker
                        \/ \E u \in d.tasks : u.act = t.act /\ u.owner = t.owner /\ u.epoch = t.epoch,
           MarksHaveTasks(d.claimed, d.tasks) => MarksHaveTasks(M, T)
    PROVE  Safe(d, [d EXCEPT !.tasks = T, !.claimed = M])
  BY DEF Safe, NoNewClaim, Sound, Tables

-------------------------------------------------------------------------------
(* Tasks. *)

LEMMA UnmarkedType ==
    ASSUME NEW M \in SUBSET Marker, NEW T
    PROVE  UnmarkedFor(M, T) \in SUBSET Marker
  BY DEF UnmarkedFor

LEMMA DeleteTasksSafe ==
    ASSUME NEW d \in Tables, NEW T
    PROVE  Safe(d, DeleteTasks(d, T))
<1>1. UnmarkedFor(d.claimed, T) \in SUBSET Marker
  BY UnmarkedType DEF Tables
<1>2. d.tasks \ T \in SUBSET Task
  BY DEF Tables
<1>3. MarksHaveTasks(d.claimed, d.tasks) => MarksHaveTasks(UnmarkedFor(d.claimed, T), d.tasks \ T)
  BY DEF MarksHaveTasks, UnmarkedFor
<1> QED
  BY <1>1, <1>2, <1>3, NewTasks DEF DeleteTasks

\* Tasks nobody has claimed.
FreshTasks == {t \in Task : t.owner = NoWorker}

LEMMA TaskForType ==
    ASSUME NEW d \in Tables, NEW r \in Refs, NEW kind \in Kinds,
           NEW name \in Nat, NEW n \in Nat, NEW wait \in Nat, NEW at \in Nat
    PROVE  TaskFor(d, r, kind, name, n, wait, at) \in FreshTasks
<1>1. d.inst[r] \in Instance
  BY DEF Tables
<1>2. d.inst[r].seq \in Nat /\ d.inst[r].version \in Nat
  BY <1>1 DEF Instance
<1>3. [ref |-> r, seq |-> d.inst[r].seq, kind |-> kind, name |-> name, n |-> n] \in Activation
  BY <1>2 DEF Activation
<1> QED
  BY <1>2, <1>3 DEF TaskFor, Task, FreshTasks

LEMMA InsertTasksSafe ==
    ASSUME NEW d \in Tables, NEW new \in SUBSET FreshTasks
    PROVE  Safe(d, InsertTasks(d, new))
<1> DEFINE old == {t \in d.tasks : \E n \in new : t.act = n.act /\ (t.act.kind = "signal" => t.wait = n.wait)}
           d1 == DeleteTasks(d, old)
<1>1. Safe(d, d1)
  BY DeleteTasksSafe
<1>2. InsertTasks(d, new) = [d1 EXCEPT !.tasks = d1.tasks \cup new]
  BY DEF InsertTasks
<1> HIDE DEF d1
<1>3. d1 \in Tables
  BY <1>1 DEF Safe
<1>4. [d1 EXCEPT !.tasks = d1.tasks \cup new] \in Tables
  BY <1>3 DEF Tables, FreshTasks
<1>5. Safe(d1, [d1 EXCEPT !.tasks = d1.tasks \cup new])
  <2> DEFINE e == [d1 EXCEPT !.tasks = d1.tasks \cup new]
  <2>1. /\ e.tasks = d1.tasks \cup new /\ e.claimed = d1.claimed /\ e.inst = d1.inst
        /\ e.signals = d1.signals /\ e.children = d1.children /\ e.effects = d1.effects
        /\ e.completed = d1.completed
        /\ e.signalCounter = d1.signalCounter /\ e.childCounter = d1.childCounter
    BY <1>3 DEF Tables
  <2>2. e \in Tables
    BY <1>4
  <2> HIDE DEF e
  <2>3. NoNewClaim(d1, e)
    BY <2>1 DEF NoNewClaim, FreshTasks
  <2>4. MarksHaveTasks(d1.claimed, d1.tasks) => MarksHaveTasks(e.claimed, e.tasks)
    BY <2>1 DEF MarksHaveTasks
  <2>5. Safe(d1, e)
    BY <2>1, <2>2, <2>3, <2>4 DEF Safe, Sound
  <2> QED
    BY <2>5 DEF e
<1> QED
  BY <1>1, <1>2, <1>5, SafeTransitive

LEMMA WaitFields ==
    ASSUME NEW w \in Wait
    PROVE  /\ w.name \in Names
           /\ w.kind \in {"run", "timer", "signal", "child"}
           /\ w.kind = "run" => w \in RunWait
           /\ w.kind = "timer" => w \in TimerWait
           /\ w.kind = "signal" => w \in SignalWait
           /\ w.kind = "child" => w \in ChildWait
  BY DEF Wait, RunWait, TimerWait, SignalWait, ChildWait

LEMMA TasksForWaitFresh ==
    ASSUME NEW d \in Tables, NEW r \in Refs, NEW w \in Wait
    PROVE  TasksForWait(d, r, w) \in SUBSET FreshTasks
<1>1. w.name \in Nat
  BY WaitFields, NumberAssumption
<1>2. CASE w.kind = "run"
  <2>1. w.at \in Nat
    BY <1>2, WaitFields DEF RunWait
  <2>2. TaskFor(d, r, "run", w.name, 0, w.name, w.at) \in FreshTasks
    BY <1>1, <2>1, TaskForType DEF Kinds
  <2> QED
    BY <1>2, <2>2 DEF TasksForWait
<1>3. CASE w.kind = "timer"
  <2>1. w.at \in Nat
    BY <1>3, WaitFields DEF TimerWait
  <2>2. TaskFor(d, r, "timer", w.name, w.at, w.name, w.at) \in FreshTasks
    BY <1>1, <2>1, TaskForType DEF Kinds
  <2> QED
    BY <1>3, <2>2 DEF TasksForWait
<1>4. CASE w.kind = "signal"
  <2>1. ASSUME NEW s \in Earliest(Deliverable(d, r, w), "at")
        PROVE  TaskFor(d, r, "signal", 0, s.id, w.name, s.at) \in FreshTasks
    <3>1. s \in Signal
      BY <2>1 DEF Earliest, Deliverable, Tables
    <3>2. s.id \in Nat /\ s.at \in Nat
      BY <3>1 DEF Signal
    <3> QED
      BY <1>1, <3>2, TaskForType DEF Kinds
  <2> QED
    BY <1>4, <2>1 DEF TasksForWait
<1>5. CASE w.kind = "child"
  <2>1. ASSUME NEW c \in Earliest(Finished(d, r, w), "completedAt")
        PROVE  TaskFor(d, r, "child", 0, c.id, w.name, c.completedAt) \in FreshTasks
    <3>1. c \in Child
      BY <2>1 DEF Earliest, Finished, Tables
    <3>2. c.id \in Nat /\ c.completedAt \in Nat
      BY <3>1 DEF Child
    <3> QED
      BY <1>1, <3>2, TaskForType DEF Kinds
  <2> QED
    BY <1>5, <2>1 DEF TasksForWait
<1> QED
  BY <1>2, <1>3, <1>4, <1>5, WaitFields

\* The waits of an instance are waits.
LEMMA InstanceFields ==
    ASSUME NEW d \in Tables, NEW r \in Refs
    PROVE  /\ d.inst[r] \in Instance
           /\ d.inst[r].waits \in SUBSET Wait
           /\ d.inst[r].seq \in Nat
           /\ d.inst[r].version \in Nat
           /\ d.inst[r].parent \in Nat
  BY DEF Tables, Instance

LEMMA ReplaceTasksSafe ==
    ASSUME NEW d \in Tables, NEW r \in Refs
    PROVE  Safe(d, ReplaceTasks(d, r))
<1> DEFINE cleared == DeleteTasks(d, TasksOf(d, r))
<1>1. Safe(d, cleared)
  BY DeleteTasksSafe
<1> HIDE DEF cleared
<1>2. cleared \in Tables
  BY <1>1 DEF Safe
<1>3. DerivedTasks(cleared, r) \in SUBSET FreshTasks
  BY <1>2, InstanceFields, TasksForWaitFresh DEF DerivedTasks
<1>4. Safe(cleared, InsertTasks(cleared, DerivedTasks(cleared, r)))
  BY <1>2, <1>3, InsertTasksSafe
<1>5. ReplaceTasks(d, r) = IF Running(d, r) THEN InsertTasks(cleared, DerivedTasks(cleared, r)) ELSE cleared
  BY DEF ReplaceTasks, cleared
<1> QED
  BY <1>1, <1>4, <1>5, SafeTransitive

\* The same for an instance that the caller remembers.
LEMMA ReplaceTasksAsSafe ==
    ASSUME NEW d \in Tables, NEW r \in Refs, NEW i \in Instance,
           i.status # "running" => i.waits = {}
    PROVE  Safe(d, ReplaceTasksAs(d, r, i))
<1> DEFINE g == [d EXCEPT !.inst[r] = i]
           f == ReplaceTasks(g, r)
           e == [f EXCEPT !.inst = d.inst]
<1>1. ReplaceTasksAs(d, r, i) = e
  BY DEF ReplaceTasksAs
<1>2. /\ g \in Tables /\ g.tasks = d.tasks /\ g.completed = d.completed /\ g.claimed = d.claimed
      /\ g.signals = d.signals /\ g.children = d.children /\ g.effects = d.effects
      /\ g.signalCounter = d.signalCounter /\ g.childCounter = d.childCounter
      /\ g.inst = [d.inst EXCEPT ![r] = i]
  BY DEF Tables
<1> HIDE DEF g
<1>3. Safe(g, f)
  BY <1>2, ReplaceTasksSafe
<1>4. f \in Tables /\ f.completed = d.completed
  BY <1>2, <1>3 DEF Safe
<1>5. Sound(d) => Sound(g)
  <2>1. StoppedWaitForNothing(d.inst) => StoppedWaitForNothing(g.inst)
    BY <1>2 DEF StoppedWaitForNothing, Tables
  <2> QED
    BY <1>2, <2>1 DEF Sound
<1> HIDE DEF f
<1>6. /\ e \in Tables /\ e.tasks = f.tasks /\ e.completed = f.completed /\ e.claimed = f.claimed
      /\ e.signals = f.signals /\ e.children = f.children /\ e.effects = f.effects
      /\ e.signalCounter = f.signalCounter /\ e.childCounter = f.childCounter
      /\ e.inst = d.inst
  BY <1>4 DEF Tables
<1> HIDE DEF e
<1>7. NoNewClaim(d, e)
  BY <1>2, <1>3, <1>6 DEF Safe, NoNewClaim
<1>8. Sound(d) => Sound(e)
  BY <1>3, <1>5, <1>6 DEF Safe, Sound
<1> QED
  BY <1>1, <1>4, <1>6, <1>7, <1>8 DEF Safe

LEMMA RefreshTasksSafe ==
    ASSUME NEW d \in Tables, NEW r \in Refs, NEW kind
    PROVE  Safe(d, RefreshTasks(d, r, kind))
<1> DEFINE cleared == DeleteTasks(d, {t \in TasksOf(d, r) : t.act.seq = d.inst[r].seq /\ t.act.kind = kind})
           waits   == {w \in d.inst[r].waits : w.kind = kind}
           new     == UNION {TasksForWait(cleared, r, w) : w \in waits}
<1>1. Safe(d, cleared)
  BY DeleteTasksSafe
<1>2. RefreshTasks(d, r, kind) = InsertTasks(cleared, new)
  BY DEF RefreshTasks
<1>3. waits \in SUBSET Wait
  BY InstanceFields
<1> HIDE DEF cleared, waits
<1>4. cleared \in Tables
  BY <1>1 DEF Safe
<1>5. new \in SUBSET FreshTasks
  BY <1>3, <1>4, TasksForWaitFresh
<1> HIDE DEF new
<1>6. Safe(cleared, InsertTasks(cleared, new))
  BY <1>4, <1>5, InsertTasksSafe
<1> QED
  BY <1>1, <1>2, <1>6, SafeTransitive

LEMMA RefreshMigrationsSafe ==
    ASSUME NEW d \in Tables, NEW shard, NEW now \in Nat, NEW version \in Nat
    PROVE  Safe(d, RefreshMigrations(d, shard, now, version))
<1> DEFINE here  == {r \in Refs : ShardOf[r[1]] = shard /\ Running(d, r)}
           done  == {t \in d.tasks : /\ t.act.kind = "migration" /\ t.act.ref \in here
                                     /\ t.act.seq = d.inst[t.act.ref].seq
                                     /\ d.inst[t.act.ref].version >= version}
           stale == {r \in here : d.inst[r].version < version /\ CurrentTasks(d, r) = {}}
           new   == {TaskFor(d, r, "migration", 0, version, 0, now) : r \in stale}
           d1    == DeleteTasks(d, done)
<1>1. Safe(d, d1)
  BY DeleteTasksSafe
<1>2. new \in SUBSET FreshTasks
  BY TaskForType DEF Kinds
<1>3. RefreshMigrations(d, shard, now, version) = InsertTasks(d1, new)
  BY DEF RefreshMigrations
<1> HIDE DEF d1, new
<1>4. Safe(d1, InsertTasks(d1, new))
  BY <1>1, <1>2, InsertTasksSafe DEF Safe
<1> QED
  BY <1>1, <1>3, <1>4, SafeTransitive

-------------------------------------------------------------------------------
(* Waits, instances and signals. *)

LEMMA StampWaitsType ==
    ASSUME NEW d \in Tables, NEW waits \in SUBSET Wait, NEW previous \in SUBSET Wait
    PROVE  StampWaits(d, waits, previous) \in SUBSET Wait
<1>1. ASSUME NEW w \in waits PROVE Stamped(d, w, previous) \in Wait
  <2>1. d.signalCounter \in Nat
    BY DEF Tables
  <2>2. CASE w.kind # "signal"
    BY <2>2 DEF Stamped
  <2>3. CASE w.kind = "signal"
    <3>1. w \in SignalWait
      BY <2>3, WaitFields
    <3>2. \A n \in Nat : [w EXCEPT !.cursor = n] \in Wait
      BY <3>1 DEF SignalWait, Wait
    <3>3. CASE w.future /\ \E p \in previous : Continues(w, p)
      <4>1. PICK p \in previous : p = CHOOSE q \in previous : Continues(w, q)
        BY <3>3
      <4>2. Continues(w, p)
        BY <3>3, <4>1
      <4>3. p \in SignalWait
        BY <4>2, WaitFields DEF Continues
      <4>4. p.cursor \in Nat
        BY <4>3 DEF SignalWait
      <4>5. Stamped(d, w, previous) = [w EXCEPT !.cursor = p.cursor]
        BY <2>3, <3>3, <4>1 DEF Stamped
      <4> QED
        BY <3>2, <4>4, <4>5
    <3>4. CASE ~ (w.future /\ \E p \in previous : Continues(w, p))
      BY <2>1, <2>3, <3>2, <3>4 DEF Stamped
    <3> QED
      BY <3>3, <3>4
  <2> QED
    BY <2>2, <2>3
<1> QED
  BY <1>1 DEF StampWaits

LEMMA MaterializeType ==
    ASSUME NEW W \in SUBSET Wait, NEW ready \in Nat, NEW now \in Nat
    PROVE  Materialize(W, ready, now) \in SUBSET Wait
<1>1. ASSUME NEW w \in W, w.kind = "run" PROVE [w EXCEPT !.at = ready] \in Wait
  <2>1. w \in RunWait
    BY <1>1, WaitFields
  <2> QED
    BY <2>1 DEF RunWait, Wait
<1>2. ASSUME NEW w \in W, w.kind = "timer" PROVE [w EXCEPT !.at = now + w.at] \in Wait
  <2>1. w \in TimerWait
    BY <1>2, WaitFields
  <2> QED
    BY <2>1 DEF TimerWait, Wait
<1> QED
  BY <1>1, <1>2 DEF Materialize

\* A record that gets the next number.
LEMMA NumberedWithNext ==
    ASSUME NEW S, NEW n \in Nat, NEW x, x.id = n + 1, Numbered(S, n)
    PROVE  Numbered(S \cup {x}, n + 1)
  BY DEF Numbered

\* Tables that differ in the instances or the children, or have fewer signals or effects.
LEMMA SameTasksSafe ==
    ASSUME NEW d \in Tables, NEW e \in Tables, e.tasks = d.tasks, e.claimed = d.claimed,
           e.completed = d.completed, e.signalCounter = d.signalCounter,
           e.signals \subseteq d.signals, e.effects \subseteq d.effects,
           Numbered(d.children, d.childCounter) => Numbered(e.children, e.childCounter),
           StoppedWaitForNothing(d.inst) => StoppedWaitForNothing(e.inst)
    PROVE  Safe(d, e)
<1>1. NoNewClaim(d, e)
  BY DEF NoNewClaim
<1>2. /\ UniqueKeys(d.signals) => UniqueKeys(e.signals)
      /\ WithinPolicy(d.effects) => WithinPolicy(e.effects)
      /\ OneRecordEach(d.effects) => OneRecordEach(e.effects)
      /\ Numbered(d.signals, d.signalCounter) => Numbered(e.signals, e.signalCounter)
  BY DEF UniqueKeys, WithinPolicy, OneRecordEach, Numbered
<1> QED
  BY <1>1, <1>2 DEF Safe, Sound

LEMMA NewInstanceSafe ==
    ASSUME NEW d \in Tables, NEW r \in Refs, NEW version \in Nat, NEW waits \in SUBSET Wait,
           NEW parent \in Nat, NEW now \in Nat
    PROVE  Safe(d, NewInstance(d, r, version, waits, parent, now))
<1> DEFINE i == [status |-> "running", seq |-> 0, version |-> version,
                 waits |-> StampWaits(d, waits, {}), parent |-> parent, createdAt |-> now, updatedAt |-> now]
           E == {e \in d.effects : e.act.ref # r}
           n == [d EXCEPT !.inst[r] = i, !.effects = E]
<1>1. StampWaits(d, waits, {}) \in SUBSET Wait
  BY StampWaitsType
<1>2. i \in Instance
  BY <1>1 DEF Instance
<1>3. NewInstance(d, r, version, waits, parent, now) = n
  BY DEF NewInstance
<1>4. E \in SUBSET EffectRecord /\ E \subseteq d.effects
  BY DEF Tables
<1>5. i.status = "running"
  OBVIOUS
<1> HIDE DEF i, E
<1>6. /\ n \in Tables /\ n.tasks = d.tasks /\ n.completed = d.completed /\ n.claimed = d.claimed
      /\ n.signals = d.signals /\ n.children = d.children /\ n.effects = E
      /\ n.signalCounter = d.signalCounter /\ n.childCounter = d.childCounter
      /\ n.inst = [d.inst EXCEPT ![r] = i]
  BY <1>2, <1>4 DEF Tables
<1> HIDE DEF n
<1>7. StoppedWaitForNothing(d.inst) => StoppedWaitForNothing(n.inst)
  BY <1>5, <1>6 DEF StoppedWaitForNothing, Tables
<1> QED
  BY <1>3, <1>4, <1>6, <1>7, SameTasksSafe

\* create_instance leaves the tables as they should be.
LEMMA CreateInstanceSafe ==
    ASSUME NEW d \in Tables, NEW r \in Refs, NEW version \in Nat, NEW waits \in SUBSET Wait, NEW now \in Nat
    PROVE  Safe(d, CreateInstance(d, r, version, waits, now))
<1> DEFINE n == NewInstance(d, r, version, waits, 0, now)
<1>1. Safe(d, n)
  BY NewInstanceSafe
<1>2. CreateInstance(d, r, version, waits, now) = ReplaceTasks(n, r)
  BY DEF CreateInstance
<1> HIDE DEF n
<1>3. Safe(n, ReplaceTasks(n, r))
  BY <1>1, ReplaceTasksSafe DEF Safe
<1> QED
  BY <1>1, <1>2, <1>3, SafeTransitive

LEMMA DeleteInstanceSafe ==
    ASSUME NEW d \in Tables, NEW r \in Refs
    PROVE  Safe(d, DeleteInstance(d, r))
<1> DEFINE d1 == DeleteTasks(d, TasksOf(d, r))
           S  == {s \in d1.signals : s.ref # r}
           C  == {c \in d1.children : c.parent # r /\ c.ref # r}
           E  == {e \in d1.effects : e.act.ref # r}
           e  == [d1 EXCEPT !.inst[r] = NoInstance, !.signals = S, !.children = C, !.effects = E]
<1>1. Safe(d, d1)
  BY DeleteTasksSafe
<1>2. DeleteInstance(d, r) = e
  BY DEF DeleteInstance
<1> HIDE DEF d1
<1>3. d1 \in Tables
  BY <1>1 DEF Safe
<1>4. NoInstance \in Instance
  BY DEF NoInstance, Instance
<1>5. /\ S \in SUBSET Signal /\ C \in SUBSET Child /\ E \in SUBSET EffectRecord
      /\ S \subseteq d1.signals /\ E \subseteq d1.effects
  BY <1>3 DEF Tables
<1>6. Numbered(d1.children, d1.childCounter) => Numbered(C, d1.childCounter)
  BY DEF Numbered
<1> HIDE DEF S, C, E
<1>7. /\ e \in Tables /\ e.tasks = d1.tasks /\ e.completed = d1.completed /\ e.claimed = d1.claimed
      /\ e.signals = S /\ e.children = C /\ e.effects = E
      /\ e.signalCounter = d1.signalCounter /\ e.childCounter = d1.childCounter
      /\ e.inst = [d1.inst EXCEPT ![r] = NoInstance]
  BY <1>3, <1>4, <1>5 DEF Tables
<1> HIDE DEF e
<1>8. StoppedWaitForNothing(d1.inst) => StoppedWaitForNothing(e.inst)
  BY <1>3, <1>7 DEF StoppedWaitForNothing, Tables, NoInstance
<1>9. Safe(d1, e)
  BY <1>3, <1>5, <1>6, <1>7, <1>8, SameTasksSafe
<1> QED
  BY <1>1, <1>2, <1>9, SafeTransitive

LEMMA AppendSignalSafe ==
    ASSUME NEW d \in Tables, NEW r \in Refs, NEW type \in SignalTypes,
           NEW key \in Keys \cup {NoKey}, NEW now \in Nat
    PROVE  Safe(d, AppendSignal(d, r, type, key, now))
<1> DEFINE s  == [id |-> d.signalCounter + 1, ref |-> r, type |-> type, key |-> key,
                  at |-> now, consumed |-> 0]
           d1 == [d EXCEPT !.signalCounter = d.signalCounter + 1, !.signals = d.signals \cup {s}]
<1>1. d.signalCounter + 1 \in Nat
  BY DEF Tables
<1>2. s \in Signal
  BY <1>1 DEF Signal
<1>3. AppendSignal(d, r, type, key, now) =
        IF SignalsWithKey(d, r, type, key) # {} THEN d
        ELSE IF Running(d, r) THEN RefreshTasks(d1, r, "signal") ELSE d1
  BY DEF AppendSignal
<1> HIDE DEF s
<1>4. /\ d1 \in Tables /\ d1.tasks = d.tasks /\ d1.completed = d.completed /\ d1.claimed = d.claimed
      /\ d1.signals = d.signals \cup {s} /\ d1.children = d.children /\ d1.effects = d.effects
      /\ d1.signalCounter = d.signalCounter + 1 /\ d1.childCounter = d.childCounter
      /\ d1.inst = d.inst
  BY <1>1, <1>2 DEF Tables
<1> HIDE DEF d1
\* A signal is added only when no other has its key.
<1>5. ASSUME SignalsWithKey(d, r, type, key) = {} PROVE Safe(d, d1)
  <2>1. s.ref = r /\ s.type = type /\ s.key = key /\ s.id = d.signalCounter + 1
    BY DEF s
  <2>2. UniqueKeys(d.signals) => UniqueKeys(d.signals \cup {s})
    BY <1>5, <2>1 DEF SignalsWithKey, UniqueKeys
  <2>3. Numbered(d.signals, d.signalCounter) => Numbered(d1.signals, d1.signalCounter)
    BY <1>4, <2>1, NumberedWithNext DEF Tables
  <2> QED
    BY <1>4, <2>2, <2>3 DEF Safe, NoNewClaim, Sound
<1>6. Safe(d1, RefreshTasks(d1, r, "signal"))
  BY <1>4, RefreshTasksSafe
<1> QED
  BY <1>3, <1>5, <1>6, SafeReflexive, SafeTransitive

-------------------------------------------------------------------------------
(* Children. *)

LEMMA ChildRecordType ==
    ASSUME NEW d \in Tables, NEW a \in Activation, NEW start \in ChildStart, NEW r \in Refs
    PROVE  ChildRecord(d, a, start, r) \in Child
<1>1. d.childCounter + 1 \in Nat
  BY DEF Tables
<1>2. a.ref \in Refs
  BY DEF Activation
<1>3. start.key \in StartKeys /\ start.policy \in ClosePolicies
  BY DEF ChildStart
<1> QED
  BY <1>1, <1>2, <1>3 DEF ChildRecord, Child

LEMMA WithRecordSafe ==
    ASSUME NEW d \in Tables, NEW a \in Activation, NEW start \in ChildStart, NEW r \in Refs
    PROVE  Safe(d, WithRecord(d, a, start, r))
<1> DEFINE x == ChildRecord(d, a, start, r)
           e == [d EXCEPT !.childCounter = d.childCounter + 1, !.children = d.children \cup {x}]
<1>1. x \in Child /\ d.childCounter + 1 \in Nat
  BY ChildRecordType DEF Tables
<1>2. WithRecord(d, a, start, r) = e
  BY DEF WithRecord
<1>3. x.id = d.childCounter + 1
  BY DEF ChildRecord
<1> HIDE DEF x
<1>4. /\ e \in Tables /\ e.tasks = d.tasks /\ e.completed = d.completed /\ e.claimed = d.claimed
      /\ e.signals = d.signals /\ e.children = d.children \cup {x} /\ e.effects = d.effects
      /\ e.signalCounter = d.signalCounter /\ e.childCounter = d.childCounter + 1
      /\ e.inst = d.inst
  BY <1>1 DEF Tables
<1> HIDE DEF e
<1>5. Numbered(d.children, d.childCounter) => Numbered(e.children, e.childCounter)
  BY <1>3, <1>4, NumberedWithNext DEF Tables
<1> QED
  BY <1>2, <1>4, <1>5, SameTasksSafe

LEMMA StartChildSafe ==
    ASSUME NEW d \in Tables, NEW a \in Activation, NEW start \in ChildStart,
           NEW version \in Nat, NEW waits \in SUBSET Wait, NEW now \in Nat
    PROVE  Safe(d, StartChild(d, a, start, version, waits, now))
<1> DEFINE d1 == NewInstance(d, start.ref, version, waits, d.childCounter + 1, now)
           d2 == WithRecord(d1, a, start, start.ref)
<1>1. start.ref \in Refs /\ d.childCounter + 1 \in Nat
  BY DEF ChildStart, Tables
<1>2. Safe(d, d1)
  BY <1>1, NewInstanceSafe
<1>3. StartChild(d, a, start, version, waits, now) = ReplaceTasks(d2, start.ref)
  BY DEF StartChild
<1> HIDE DEF d1
<1>4. Safe(d1, d2)
  BY <1>1, <1>2, WithRecordSafe DEF Safe
<1> HIDE DEF d2
<1>5. Safe(d2, ReplaceTasks(d2, start.ref))
  BY <1>1, <1>4, ReplaceTasksSafe DEF Safe
<1>6. Safe(d, d2)
  BY <1>2, <1>4, SafeTransitive
<1> QED
  BY <1>3, <1>5, <1>6, SafeTransitive

LEMMA WriteChildStartSafe ==
    ASSUME NEW d \in Tables, NEW a \in Activation, NEW start \in ChildStart,
           NEW version \in Nat, NEW waits \in SUBSET Wait, NEW now \in Nat
    PROVE  Safe(d, WriteChildStart(d, a, start, version, waits, now))
<1> DEFINE d1   == IF start.conflict = "terminate_existing" THEN DeleteInstance(d, start.ref) ELSE d
           kept == KeptRun(d, start)
           k    == CHOOSE r \in kept : TRUE
<1>1. WriteChildStart(d, a, start, version, waits, now) =
        IF kept # {} THEN WithRecord(d, a, start, k) ELSE StartChild(d1, a, start, version, waits, now)
  BY DEF WriteChildStart
<1>2. start.ref \in Refs
  BY DEF ChildStart
<1>3. Safe(d, d1)
  BY <1>2, DeleteInstanceSafe, SafeReflexive
<1>4. kept \in SUBSET Refs
  BY DEF KeptRun, Latest, LastOf, RunsOf
<1> HIDE DEF d1, kept
<1>5. Safe(d1, StartChild(d1, a, start, version, waits, now))
  BY <1>3, StartChildSafe DEF Safe
<1>6. ASSUME kept # {} PROVE Safe(d, WithRecord(d, a, start, k))
  <2>1. k \in Refs
    BY <1>4, <1>6
  <2> QED
    BY <2>1, WithRecordSafe
<1> QED
  BY <1>1, <1>3, <1>5, <1>6, SafeTransitive

LEMMA UpdateParentRecordSafe ==
    ASSUME NEW d \in Tables, NEW previous \in Instance, NEW next, NEW now \in Nat
    PROVE  Safe(d, UpdateParentRecord(d, previous, next, now))
<1> DEFINE mine == {c \in d.children : c.id = previous.parent}
           outcome == IF next = "completed" THEN "completed" ELSE "failed"
           closed(c) == IF c \in mine /\ c.status = "started" THEN [c EXCEPT !.status = outcome, !.completedAt = now] ELSE c
           C  == {closed(c) : c \in d.children}
           d1 == [d EXCEPT !.children = C]
           p == (CHOOSE c \in mine : TRUE).parent
<1>1. UpdateParentRecord(d, previous, next, now) =
        IF next = "running" \/ mine = {} THEN d ELSE RefreshTasks(d1, p, "child")
  BY DEF UpdateParentRecord
<1>2. \A c \in d.children : closed(c) \in Child
  <2>1. d.children \in SUBSET Child
    BY DEF Tables
  <2> QED
    BY <2>1 DEF Child
<1>3. C \in SUBSET Child
  <2> HIDE DEF closed
  <2> QED
    BY <1>2
<1>4. Numbered(d.children, d.childCounter) => Numbered(C, d.childCounter)
  <2>1. \A c \in d.children : closed(c).id = c.id
    BY DEF Tables, Child
  <2> HIDE DEF closed
  <2> QED
    BY <2>1 DEF Numbered
<1> HIDE DEF C
<1>5. /\ d1 \in Tables /\ d1.tasks = d.tasks /\ d1.completed = d.completed /\ d1.claimed = d.claimed
      /\ d1.signals = d.signals /\ d1.children = C /\ d1.effects = d.effects
      /\ d1.signalCounter = d.signalCounter /\ d1.childCounter = d.childCounter
      /\ d1.inst = d.inst
  BY <1>3 DEF Tables
<1>6. ASSUME mine # {} PROVE p \in Refs
  <2>1. (CHOOSE c \in mine : TRUE) \in mine
    BY <1>6
  <2>2. (CHOOSE c \in mine : TRUE) \in Child
    BY <2>1 DEF Tables
  <2> QED
    BY <2>2 DEF Child
<1> HIDE DEF d1, mine, p
<1>7. Safe(d, d1)
  BY <1>4, <1>5, SameTasksSafe
<1>8. ASSUME mine # {} PROVE Safe(d1, RefreshTasks(d1, p, "child"))
  BY <1>5, <1>6, <1>8, RefreshTasksSafe
<1> QED
  BY <1>1, <1>7, <1>8, SafeReflexive, SafeTransitive

LEMMA ApplyClosePolicySafe ==
    ASSUME NEW d \in Tables, NEW r, NEW next, NEW seq \in Nat, NEW now \in Nat
    PROVE  Safe(d, ApplyClosePolicy(d, r, next, seq, now))
<1> DEFINE hit    == ClosedWith(d, r)
           killed == {c.ref : c \in {x \in hit : x.policy = "cancel" /\ Running(d, x.ref)}}
           close(c) == IF c.policy = "abandon" THEN [c EXCEPT !.status = "abandoned", !.delivered = seq]
                       ELSE [c EXCEPT !.status = "failed", !.completedAt = now, !.delivered = seq]
           settled(c) == IF c \in hit THEN close(c) ELSE c
           inst(q) == IF q \in killed THEN [d.inst[q] EXCEPT !.status = "canceled", !.waits = {}, !.updatedAt = now] ELSE d.inst[q]
           d1 == DeleteTasks(d, {t \in d.tasks : t.act.ref \in killed})
           e  == [d1 EXCEPT !.children = {settled(c) : c \in d1.children}, !.inst = [q \in Refs |-> inst(q)]]
<1>1. ApplyClosePolicy(d, r, next, seq, now) = IF next \notin {"failed", "canceled"} THEN d ELSE e
  BY DEF ApplyClosePolicy
<1>2. Safe(d, d1)
  BY DeleteTasksSafe
<1> HIDE DEF d1, hit, killed
<1>3. d1 \in Tables
  BY <1>2 DEF Safe
<1>4. \A c \in d1.children : settled(c) \in Child
  <2>1. d1.children \in SUBSET Child
    BY <1>3 DEF Tables
  <2> QED
    BY <2>1 DEF Child
<1>5. \A q \in Refs : inst(q) \in Instance
  <2>1. SUFFICES ASSUME NEW q \in Refs PROVE inst(q) \in Instance
    OBVIOUS
  <2>2. d.inst[q] \in Instance
    BY InstanceFields
  <2>3. [d.inst[q] EXCEPT !.status = "canceled", !.waits = {}, !.updatedAt = now] \in Instance
    BY <2>2 DEF Instance, Closed
  <2> QED
    BY <2>2, <2>3
<1> DEFINE C == {settled(c) : c \in d1.children}
           I == [q \in Refs |-> inst(q)]
<1>6. Numbered(d1.children, d1.childCounter) => Numbered(C, d1.childCounter)
  <2>1. \A c \in d1.children : settled(c).id = c.id
    BY <1>3 DEF Tables, Child
  <2> HIDE DEF settled
  <2> QED
    BY <2>1 DEF Numbered
<1>7. d1.inst = d.inst
  BY DEF d1, DeleteTasks, Tables
<1>8. StoppedWaitForNothing(d1.inst) => StoppedWaitForNothing(I)
  <2>1. ASSUME NEW q \in Refs, d.inst[q].status # "running" => d.inst[q].waits = {}
        PROVE  inst(q).status # "running" => inst(q).waits = {}
    BY <2>1, InstanceFields DEF Instance
  <2> HIDE DEF inst
  <2> QED
    BY <1>7, <2>1 DEF StoppedWaitForNothing
<1> HIDE DEF settled, inst
<1>9. C \in SUBSET Child /\ I \in [Refs -> Instance]
  BY <1>4, <1>5
<1> HIDE DEF C, I
<1>10. e = [d1 EXCEPT !.children = C, !.inst = I]
  BY DEF C, I
<1> HIDE DEF e
<1>11. /\ e \in Tables /\ e.tasks = d1.tasks /\ e.completed = d1.completed /\ e.claimed = d1.claimed
       /\ e.signals = d1.signals /\ e.children = C /\ e.effects = d1.effects
       /\ e.signalCounter = d1.signalCounter /\ e.childCounter = d1.childCounter
       /\ e.inst = I
  BY <1>3, <1>9, <1>10 DEF Tables
<1>12. Safe(d1, e)
  BY <1>3, <1>6, <1>8, <1>11, SameTasksSafe
<1> QED
  BY <1>1, <1>2, <1>12, SafeReflexive, SafeTransitive

LEMMA CancelChildRunSafe ==
    ASSUME NEW d \in Tables, NEW p \in Refs, NEW r \in Refs, NEW now \in Nat
    PROVE  Safe(d, CancelChildRun(d, p, r, now))
<1> DEFINE started == {x \in d.children : x.parent = p /\ x.ref = r /\ x.status = "started"}
           first   == {x \in started : \A y \in started : x.id <= y.id}
           i       == [d.inst[r] EXCEPT !.status = "canceled", !.waits = {}, !.updatedAt = now]
           closed  == [d EXCEPT !.inst[r] = i]
           d1 == IF Running(d, r) THEN DeleteTasks(closed, TasksOf(d, r)) ELSE d
           failed(x) == IF x \in first THEN [x EXCEPT !.status = "failed", !.completedAt = now] ELSE x
           C  == {failed(x) : x \in d1.children}
           d2 == [d1 EXCEPT !.children = C]
<1>1. Safe(d, closed)
  <2>1. i \in Instance /\ i.waits = {}
    BY InstanceFields DEF Instance, Closed
  <2> HIDE DEF i
  <2>2. /\ closed \in Tables /\ closed.tasks = d.tasks /\ closed.completed = d.completed
        /\ closed.claimed = d.claimed /\ closed.signals = d.signals /\ closed.children = d.children
        /\ closed.effects = d.effects /\ closed.signalCounter = d.signalCounter
        /\ closed.childCounter = d.childCounter /\ closed.inst = [d.inst EXCEPT ![r] = i]
    BY <2>1 DEF Tables
  <2> HIDE DEF closed
  <2>3. StoppedWaitForNothing(d.inst) => StoppedWaitForNothing(closed.inst)
    BY <2>1, <2>2 DEF StoppedWaitForNothing, Tables
  <2> QED
    BY <2>2, <2>3, SameTasksSafe
<1>2. CancelChildRun(d, p, r, now) =
        IF started = {} THEN d ELSE IF Running(d2, p) THEN RefreshTasks(d2, p, "child") ELSE d2
  BY DEF CancelChildRun
<1> HIDE DEF closed
<1>3. Safe(closed, DeleteTasks(closed, TasksOf(d, r)))
  BY <1>1, DeleteTasksSafe DEF Safe
<1>4. Safe(d, d1)
  BY <1>1, <1>3, SafeReflexive, SafeTransitive
<1> HIDE DEF d1, first
<1>5. d1 \in Tables
  BY <1>4 DEF Safe
<1>6. C \in SUBSET Child
  <2>1. ASSUME NEW x \in d1.children PROVE failed(x) \in Child
    <3>1. x \in Child
      BY <1>5 DEF Tables
    <3> QED
      BY <3>1 DEF Child
  <2> QED
    BY <2>1
<1>7. Numbered(d1.children, d1.childCounter) => Numbered(C, d1.childCounter)
  <2>1. \A x \in d1.children : failed(x).id = x.id
    BY <1>5 DEF Tables, Child
  <2> HIDE DEF failed
  <2> QED
    BY <2>1 DEF Numbered
<1> HIDE DEF C
<1>8. /\ d2 \in Tables /\ d2.tasks = d1.tasks /\ d2.completed = d1.completed /\ d2.claimed = d1.claimed
      /\ d2.signals = d1.signals /\ d2.children = C /\ d2.effects = d1.effects
      /\ d2.signalCounter = d1.signalCounter /\ d2.childCounter = d1.childCounter
      /\ d2.inst = d1.inst
  BY <1>5, <1>6 DEF Tables
<1> HIDE DEF d2, started
<1>9. Safe(d1, d2)
  BY <1>5, <1>7, <1>8, SameTasksSafe
<1>10. Safe(d2, RefreshTasks(d2, p, "child"))
  BY <1>8, RefreshTasksSafe
<1>11. Safe(d, d2)
  BY <1>4, <1>9, SafeTransitive
<1> QED
  BY <1>2, <1>10, <1>11, SafeReflexive, SafeTransitive

-------------------------------------------------------------------------------
(* Effects. *)

LEMMA FreedSafe ==
    ASSUME NEW d \in Tables, NEW T, NEW blocked,
           \A t \in T \cap d.tasks : blocked[t] \in Nat
    PROVE  Safe(d, Freed(d, T, blocked))
<1> DEFINE new(t) == IF t \in T THEN [Unclaimed(t) EXCEPT !.blocked = blocked[t]] ELSE t
           N == {new(t) : t \in d.tasks}
           M == UnmarkedFor(d.claimed, T)
<1>1. ASSUME NEW t \in d.tasks PROVE new(t) \in Task /\ (new(t).owner = NoWorker \/ new(t) = t)
  <2>1. t \in Task
    BY DEF Tables
  <2> QED
    BY <2>1 DEF Task, Unclaimed
<1>2. N \in SUBSET Task
  BY <1>1
<1>3. \A t \in N : \/ t.owner = NoWorker
                   \/ \E u \in d.tasks : u.act = t.act /\ u.owner = t.owner /\ u.epoch = t.epoch
  BY <1>1
<1>4. M \in SUBSET Marker
  BY UnmarkedType DEF Tables
<1>5. Freed(d, T, blocked) = [d EXCEPT !.tasks = N, !.claimed = M]
  BY DEF Freed
\* A mark that is left is of a sequence of which no task is freed.
<1>6. ASSUME MarksHaveTasks(d.claimed, d.tasks) PROVE MarksHaveTasks(M, N)
  <2>1. SUFFICES ASSUME NEW m \in M
                 PROVE  \E t \in N : SameSequence(m, t.act) /\ t.owner # NoWorker /\ t.epoch = m.epoch
    BY DEF MarksHaveTasks
  <2>2. m \in d.claimed /\ ~ \E t \in T : SameSequence(m, t.act)
    BY DEF UnmarkedFor
  <2>3. PICK t \in d.tasks : SameSequence(m, t.act) /\ t.owner # NoWorker /\ t.epoch = m.epoch
    BY <1>6, <2>2 DEF MarksHaveTasks
  <2>4. new(t) = t
    BY <2>2, <2>3
  <2> QED
    BY <2>3, <2>4
<1> HIDE DEF N, M
<1> QED
  BY <1>2, <1>3, <1>4, <1>5, <1>6, NewTasks

\* Tables that differ in the effects.
LEMMA NewEffects ==
    ASSUME NEW d \in Tables, NEW E \in SUBSET EffectRecord,
           WithinPolicy(d.effects) => WithinPolicy(E), OneRecordEach(d.effects) => OneRecordEach(E)
    PROVE  Safe(d, [d EXCEPT !.effects = E])
  BY DEF Safe, NoNewClaim, Sound, Tables

\* A policy grants at least one attempt.
LEMMA MaxAttemptsType ==
    ASSUME NEW key \in EffectKeys
    PROVE  MaxAttempts(key) \in Nat /\ MaxAttempts(key) >= 1
<1>1. Effect[key].delays \in Seq(Nat)
  BY EffectAssumption DEF EffectOptions
<1>2. Len(Effect[key].delays) \in Nat
  BY <1>1
<1> QED
  BY <1>2 DEF MaxAttempts

\* A retry that is granted has a delay of the policy.
LEMMA RetryType ==
    ASSUME NEW e \in EffectRecord, NEW now \in Nat, NEW retryable, RetryGranted(e, now, retryable)
    PROVE  RetryAt(e, now) \in Nat
<1>1. e.key \in EffectKeys /\ e.attempt \in Nat \ {0}
  BY DEF EffectRecord
<1>2. Effect[e.key] \in EffectOptions
  BY <1>1, EffectAssumption
<1> DEFINE delays == Effect[e.key].delays
<1>3. delays \in Seq(Nat)
  BY <1>2 DEF EffectOptions
<1>4. Len(delays) \in Nat /\ e.attempt < Len(delays) + 1
  BY <1>3 DEF RetryGranted, MaxAttempts
<1>5. RetryAt(e, now) = now + delays[e.attempt]
  BY DEF RetryAt
<1> HIDE DEF delays
<1>6. delays[e.attempt] \in Nat
  BY <1>1, <1>3, <1>4
<1> QED
  BY <1>5, <1>6

LEMMA BlockedAfterType ==
    ASSUME NEW e \in EffectRecord, NEW now \in Nat, NEW retryable
    PROVE  BlockedAfter(e, now, retryable) \in Nat
  BY RetryType DEF BlockedAfter

LEMMA NoTokenType == NoToken \in Token
  BY DEF NoToken, Token

LEMMA DetachedType ==
    ASSUME NEW e \in EffectRecord
    PROVE  /\ Detached(e) \in EffectRecord
           /\ Detached(e).act = e.act /\ Detached(e).key = e.key /\ Detached(e).attempt = e.attempt
  BY NoTokenType DEF Detached, EffectRecord

\* A retry is granted only as long as the policy has an attempt left.
LEMMA AfterFailureType ==
    ASSUME NEW e \in EffectRecord, NEW now \in Nat, NEW retryable
    PROVE  /\ AfterFailure(e, now, retryable) \in EffectRecord
           /\ e.attempt <= MaxAttempts(e.key) =>
                 AfterFailure(e, now, retryable).attempt <= MaxAttempts(AfterFailure(e, now, retryable).key)
<1> DEFINE f == Detached(e)
<1>1. f \in EffectRecord /\ f.key = e.key /\ f.attempt = e.attempt
  BY DetachedType
<1>2. ASSUME RetryGranted(e, now, retryable) PROVE RetryAt(e, now) \in Nat
  BY <1>2, RetryType
<1>3. AfterFailure(e, now, retryable) =
        IF RetryGranted(e, now, retryable)
        THEN [f EXCEPT !.attempt = f.attempt + 1, !.next = RetryAt(e, now)]
        ELSE [f EXCEPT !.status = "failed"]
  BY DEF AfterFailure
<1>4. e.key \in EffectKeys /\ e.attempt \in Nat \ {0}
  BY DEF EffectRecord
<1> HIDE DEF f
<1>5. CASE ~ RetryGranted(e, now, retryable)
  <2> DEFINE g == [f EXCEPT !.status = "failed"]
  <2>1. g \in EffectRecord /\ g.key = e.key /\ g.attempt = e.attempt
    BY <1>1 DEF EffectRecord
  <2> HIDE DEF g
  <2>2. AfterFailure(e, now, retryable) = g
    BY <1>3, <1>5 DEF g
  <2> QED
    BY <2>1, <2>2
<1>6. CASE RetryGranted(e, now, retryable)
  <2> DEFINE n == f.attempt + 1
             t == RetryAt(e, now)
             g == [f EXCEPT !.attempt = n, !.next = t]
  <2>1. n \in Nat \ {0} /\ t \in Nat
    BY <1>1, <1>2, <1>4, <1>6
  <2>2. n <= MaxAttempts(e.key)
    <3>1. e.attempt < MaxAttempts(e.key) /\ MaxAttempts(e.key) \in Nat
      BY <1>4, <1>6, MaxAttemptsType DEF RetryGranted
    <3> QED
      BY <1>1, <1>4, <3>1
  <2> HIDE DEF n, t
  <2>3. g \in EffectRecord /\ g.key = e.key /\ g.attempt = n
    BY <1>1, <2>1 DEF EffectRecord
  <2>4. AfterFailure(e, now, retryable) = g
    BY <1>3, <1>6 DEF n, t
  <2> HIDE DEF g
  <2> QED
    BY <2>2, <2>3, <2>4
<1> QED
  BY <1>5, <1>6

LEMMA AfterFailureSameActivity ==
    ASSUME NEW e \in EffectRecord, NEW now \in Nat, NEW retryable
    PROVE  AfterFailure(e, now, retryable).act = e.act /\ AfterFailure(e, now, retryable).key = e.key
<1> DEFINE f == Detached(e)
<1>1. f \in EffectRecord /\ f.act = e.act /\ f.key = e.key
  BY DetachedType
<1>2. AfterFailure(e, now, retryable) =
        IF RetryGranted(e, now, retryable)
        THEN [f EXCEPT !.attempt = f.attempt + 1, !.next = RetryAt(e, now)]
        ELSE [f EXCEPT !.status = "failed"]
  BY DEF AfterFailure
<1> HIDE DEF f
<1> QED
  BY <1>1, <1>2 DEF EffectRecord

LEMMA ExpireTimeoutsSafe ==
    ASSUME NEW d \in Tables, NEW A, NEW now \in Nat
    PROVE  Safe(d, ExpireTimeouts(d, A, now))
<1> DEFINE late == {e \in d.effects : e.act \in A /\ Late(e, now)}
           last(a) == {e \in late : e.act = a /\ \A o \in late : o.act = a => o.key <= e.key}
           freed == {t \in d.tasks : \E e \in late : e.act = t.act}
           blocked == [t \in freed |-> IF last(t.act) = {} THEN 0
                                       ELSE BlockedAfter(CHOOSE e \in last(t.act) : TRUE, now, TRUE)]
           after(e) == IF e \in late THEN AfterFailure(e, now, TRUE) ELSE e
           d1 == Freed(d, freed, blocked)
           E  == {after(e) : e \in d1.effects}
<1>1. ExpireTimeouts(d, A, now) = [d1 EXCEPT !.effects = E]
  BY DEF ExpireTimeouts
<1>2. ASSUME NEW t \in freed PROVE blocked[t] \in Nat
  <2>1. CASE last(t.act) = {}
    BY <2>1
  <2>2. CASE last(t.act) # {}
    <3>1. (CHOOSE e \in last(t.act) : TRUE) \in last(t.act)
      BY <2>2
    <3>2. last(t.act) \in SUBSET EffectRecord
      BY DEF Tables
    <3> HIDE DEF last
    <3> QED
      BY <2>2, <3>1, <3>2, BlockedAfterType
  <2> QED
    BY <2>1, <2>2
<1> HIDE DEF blocked, freed
<1>3. Safe(d, d1)
  BY <1>2, FreedSafe
<1> HIDE DEF d1, late
<1>4. d1 \in Tables
  BY <1>3 DEF Safe
<1>5. \A e \in d1.effects : /\ after(e) \in EffectRecord
                            /\ e.attempt <= MaxAttempts(e.key) => after(e).attempt <= MaxAttempts(after(e).key)
  <2>1. SUFFICES ASSUME NEW e \in d1.effects
                 PROVE  /\ after(e) \in EffectRecord
                        /\ e.attempt <= MaxAttempts(e.key) => after(e).attempt <= MaxAttempts(after(e).key)
    OBVIOUS
  <2>2. e \in EffectRecord
    BY <1>4 DEF Tables
  <2> QED
    BY <2>2, AfterFailureType
<1>6. \A e \in d1.effects : after(e).act = e.act /\ after(e).key = e.key
  <2>1. SUFFICES ASSUME NEW e \in d1.effects PROVE after(e).act = e.act /\ after(e).key = e.key
    OBVIOUS
  <2>2. e \in EffectRecord
    BY <1>4 DEF Tables
  <2> QED
    BY <2>2, AfterFailureSameActivity
<1> HIDE DEF after
<1>7. /\ E \in SUBSET EffectRecord /\ (WithinPolicy(d1.effects) => WithinPolicy(E))
      /\ OneRecordEach(d1.effects) => OneRecordEach(E)
  BY <1>5, <1>6 DEF WithinPolicy, OneRecordEach
<1> HIDE DEF E
<1>8. Safe(d1, [d1 EXCEPT !.effects = E])
  BY <1>4, <1>7, NewEffects
<1> QED
  BY <1>1, <1>3, <1>8, SafeTransitive

\* One effect takes the place of what there was of its activity, in an attempt the policy allows.
LEMMA NewEffect ==
    ASSUME NEW d \in Tables, NEW old, NEW e \in EffectRecord,
           WithinPolicy(d.effects) => e.attempt <= MaxAttempts(e.key),
           OneRecordEach(d.effects) => EffectFor(d, e.act, e.key) \subseteq old
    PROVE  Safe(d, [d EXCEPT !.effects = (d.effects \ old) \cup {e}])
<1> DEFINE E == (d.effects \ old) \cup {e}
<1>1. /\ E \in SUBSET EffectRecord /\ (WithinPolicy(d.effects) => WithinPolicy(E))
      /\ OneRecordEach(d.effects) => OneRecordEach(E)
  BY DEF Tables, WithinPolicy, OneRecordEach, EffectFor, EffectsOf
<1> HIDE DEF E
<1>2. Safe(d, [d EXCEPT !.effects = E])
  BY <1>1, NewEffects
<1> QED
  BY <1>2 DEF E

LEMMA ReserveSafe ==
    ASSUME NEW d \in Tables, NEW a \in Activation, NEW key \in EffectKeys,
           NEW token \in Token, NEW now \in Nat
    PROVE  Safe(d, Reserve(d, a, key, token, now))
<1> DEFINE old == EffectFor(d, a, key)
           attempt == IF old = {} THEN 1 ELSE (CHOOSE e \in old : TRUE).attempt
           first   == IF old = {} THEN now ELSE (CHOOSE e \in old : TRUE).first
           start   == Deadline(now, Effect[key].start)
           hb      == Deadline(now, Effect[key].hb)
           e == [act |-> a, key |-> key, status |-> "pending", attempt |-> attempt, token |-> token,
                 begun |-> now, start |-> start, hb |-> hb, first |-> first, next |-> 0]
<1>1. old \in SUBSET EffectRecord /\ \A x \in old : x \in d.effects /\ x.key = key
  BY DEF EffectFor, EffectsOf, Tables
<1>2. attempt \in Nat \ {0} /\ first \in Nat /\ (WithinPolicy(d.effects) => attempt <= MaxAttempts(key))
  <2>1. CASE old = {}
    BY <2>1, MaxAttemptsType
  <2>2. CASE old # {}
    <3> DEFINE x == CHOOSE y \in old : TRUE
    <3>1. x \in old
      BY <2>2
    <3>2. attempt = x.attempt /\ first = x.first
      BY <2>2
    <3> HIDE DEF x, old
    <3>3. x \in EffectRecord /\ x \in d.effects /\ x.key = key
      BY <1>1, <3>1
    <3> QED
      BY <3>2, <3>3 DEF EffectRecord, WithinPolicy
  <2> QED
    BY <2>1, <2>2
<1>3. start \in Nat /\ hb \in Nat
  <2>1. Effect[key].start \in Nat /\ Effect[key].hb \in Nat
    BY EffectAssumption DEF EffectOptions
  <2> QED
    BY <2>1 DEF Deadline
<1>4. Reserve(d, a, key, token, now) = [d EXCEPT !.effects = (d.effects \ old) \cup {e}]
  BY DEF Reserve
<1> HIDE DEF attempt, first, old, start, hb
<1>5. e \in EffectRecord /\ e.act = a /\ e.key = key /\ e.attempt = attempt
  BY <1>2, <1>3 DEF EffectRecord
<1> HIDE DEF e
<1>6. EffectFor(d, e.act, e.key) \subseteq old
  BY <1>5 DEF old
<1> QED
  BY <1>2, <1>4, <1>5, <1>6, NewEffect

LEMMA BeatSafe ==
    ASSUME NEW d \in Tables, NEW e \in d.effects, NEW now \in Nat
    PROVE  Safe(d, Beat(d, e, now))
<1> DEFINE hb == Deadline(now, Effect[e.key].hb)
           f  == [e EXCEPT !.hb = hb]
<1>1. e \in EffectRecord
  BY DEF Tables
<1>2. e.key \in EffectKeys
  BY <1>1 DEF EffectRecord
<1>3. Effect[e.key].hb \in Nat
  BY <1>2, EffectAssumption DEF EffectOptions
<1>4. hb \in Nat
  BY <1>3 DEF Deadline
<1>5. Beat(d, e, now) = [d EXCEPT !.effects = (d.effects \ {e}) \cup {f}]
  BY DEF Beat
<1> HIDE DEF hb
<1>6. f \in EffectRecord /\ f.act = e.act /\ f.key = e.key /\ f.attempt = e.attempt
  BY <1>1, <1>4 DEF EffectRecord
<1> HIDE DEF f
<1>7. /\ WithinPolicy(d.effects) => f.attempt <= MaxAttempts(f.key)
      /\ OneRecordEach(d.effects) => EffectFor(d, f.act, f.key) \subseteq {e}
  BY <1>6 DEF WithinPolicy, OneRecordEach, EffectFor, EffectsOf
<1>8. Safe(d, [d EXCEPT !.effects = (d.effects \ {e}) \cup {f}])
  BY <1>6, <1>7, NewEffect
<1> QED
  BY <1>5, <1>8

LEMMA CompleteSafe ==
    ASSUME NEW d \in Tables, NEW e \in d.effects
    PROVE  Safe(d, Complete(d, e))
<1> DEFINE g == Detached(e)
           f == [g EXCEPT !.status = "completed", !.next = 0]
<1>1. e \in EffectRecord
  BY DEF Tables
<1>2. g \in EffectRecord /\ g.act = e.act /\ g.key = e.key /\ g.attempt = e.attempt
  BY <1>1, DetachedType
<1>3. Complete(d, e) = [d EXCEPT !.effects = (d.effects \ {e}) \cup {f}]
  BY DEF Complete
<1> HIDE DEF g
<1>4. f \in EffectRecord /\ f.act = e.act /\ f.key = e.key /\ f.attempt = e.attempt
  BY <1>2 DEF EffectRecord
<1> HIDE DEF f
<1>5. /\ WithinPolicy(d.effects) => f.attempt <= MaxAttempts(f.key)
      /\ OneRecordEach(d.effects) => EffectFor(d, f.act, f.key) \subseteq {e}
  BY <1>4 DEF WithinPolicy, OneRecordEach, EffectFor, EffectsOf
<1>6. Safe(d, [d EXCEPT !.effects = (d.effects \ {e}) \cup {f}])
  BY <1>4, <1>5, NewEffect
<1> QED
  BY <1>3, <1>6

LEMMA FailSafe ==
    ASSUME NEW d \in Tables, NEW e \in d.effects, NEW now \in Nat, NEW retryable
    PROVE  Safe(d, Fail(d, e, now, retryable))
<1> DEFINE f  == AfterFailure(e, now, retryable)
           d1 == [d EXCEPT !.effects = (d.effects \ {e}) \cup {f}]
           T  == TasksOfActivation(d1, e.act)
           blocked == [t \in T |-> BlockedAfter(e, now, retryable)]
<1>1. e \in EffectRecord
  BY DEF Tables
<1>2. Fail(d, e, now, retryable) = Freed(d1, T, blocked)
  BY DEF Fail
<1>3. f \in EffectRecord /\ (e.attempt <= MaxAttempts(e.key) => f.attempt <= MaxAttempts(f.key))
  BY <1>1, AfterFailureType
<1>4. f.act = e.act /\ f.key = e.key
  BY <1>1, AfterFailureSameActivity
<1> HIDE DEF f
<1>5. OneRecordEach(d.effects) => EffectFor(d, f.act, f.key) \subseteq {e}
  BY <1>4 DEF OneRecordEach, EffectFor, EffectsOf
<1>6. Safe(d, d1)
  BY <1>3, <1>5, NewEffect DEF WithinPolicy
<1>7. \A t \in T : blocked[t] \in Nat
  BY <1>1, BlockedAfterType
<1> HIDE DEF d1, T, blocked
<1>8. Safe(d1, Freed(d1, T, blocked))
  BY <1>6, <1>7, FreedSafe DEF Safe
<1> QED
  BY <1>2, <1>6, <1>8, SafeTransitive

LEMMA FailureRecordsType ==
    ASSUME NEW a \in Activation, NEW keys \in SUBSET EffectKeys
    PROVE  /\ FailureRecords(a, keys) \in SUBSET EffectRecord
           /\ WithinPolicy(FailureRecords(a, keys))
           /\ OneRecordEach(FailureRecords(a, keys))
           /\ \A f \in FailureRecords(a, keys) : f.act = a /\ f.key \in keys
<1>1. ASSUME NEW k \in keys
      PROVE  /\ FailureRecord(a, k) \in EffectRecord
             /\ FailureRecord(a, k).attempt <= MaxAttempts(FailureRecord(a, k).key)
  <2>1. FailureRecord(a, k) \in EffectRecord
    BY NoTokenType DEF FailureRecord, EffectRecord
  <2>2. FailureRecord(a, k).attempt = 1 /\ FailureRecord(a, k).key = k
    BY DEF FailureRecord
  <2> QED
    BY <2>1, <2>2, MaxAttemptsType
<1>2. \A k \in keys : FailureRecord(a, k).act = a /\ FailureRecord(a, k).key = k
  BY DEF FailureRecord
<1> QED
  BY <1>1, <1>2 DEF FailureRecords, WithinPolicy, OneRecordEach

LEMMA RecordFailuresSafe ==
    ASSUME NEW d \in Tables, NEW a \in Activation, NEW keys \in SUBSET EffectKeys, NEW release
    PROVE  Safe(d, RecordFailures(d, a, keys, release))
<1> DEFINE E  == {e \in d.effects : ~ (e.act = a /\ e.key \in keys)} \cup FailureRecords(a, keys)
           d1 == [d EXCEPT !.effects = E]
           T  == TasksOfActivation(d1, a)
           blocked == [t \in T |-> 0]
<1>1. RecordFailures(d, a, keys, release) = IF release THEN Freed(d1, T, blocked) ELSE d1
  BY DEF RecordFailures
<1>2. /\ E \in SUBSET EffectRecord /\ (WithinPolicy(d.effects) => WithinPolicy(E))
      /\ OneRecordEach(d.effects) => OneRecordEach(E)
  BY FailureRecordsType DEF Tables, WithinPolicy, OneRecordEach
<1> HIDE DEF E
<1>3. Safe(d, d1)
  BY <1>2, NewEffects
<1>4. \A t \in T : blocked[t] \in Nat
  OBVIOUS
<1> HIDE DEF d1, T, blocked
<1>5. Safe(d1, Freed(d1, T, blocked))
  BY <1>3, <1>4, FreedSafe DEF Safe
<1> QED
  BY <1>1, <1>3, <1>5, SafeTransitive
===============================================================================
