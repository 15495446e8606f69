-------------------------- MODULE ShardWakeUpProofs ---------------------------
(***************************************************************************)
(* No wake-up is lost and no task outlives its reason, for every number of *)
(* runs, signals, children, shards and workers.  A task is derived data:   *)
(* the tables hold the waits of the runs, the signals and the records of   *)
(* the children, and every operation that changes one of these rebuilds    *)
(* some of the tasks.  The proofs show that it rebuilds enough of them.    *)
(***************************************************************************)
EXTENDS ShardEngineProofs, WellFoundedInduction

-------------------------------------------------------------------------------
(* What a wait is woken by, and what a task is there for. *)

\* The tasks a wait of a run ought to have, it has.
Woken(d, r, w) == \A u \in TasksForWait(d, r, w) : \E t \in d.tasks : t.act = u.act /\ t.wait = u.wait
Wakes(d, r) == Running(d, r) => \A w \in d.inst[r].waits : Woken(d, r, w)
WakesBut(d, r, kind) == Running(d, r) => \A w \in d.inst[r].waits : w.kind # kind => Woken(d, r, w)

\* The signals and the reports of children a run has not consumed.
Inbox(d, r) == {s \in d.signals : s.ref = r /\ s.consumed = 0}
Reports(d, r) == {c \in d.children : c.parent = r /\ c.status # "started" /\ c.delivered = 0}

HasReason(d, t) ==
    /\ Current(d, t) /\ t.version = d.inst[t.act.ref].version
    /\ t.act.kind = "signal" => \E s \in Inbox(d, t.act.ref) : s.id = t.act.n
    /\ t.act.kind = "child" => \E c \in Reports(d, t.act.ref) : c.id = t.act.n
Reasons(d, r) == \A t \in d.tasks : t.act.ref = r => HasReason(d, t)
ReasonsBut(d, r, kind) ==
    \A t \in d.tasks : t.act.ref = r => (t.act.seq = d.inst[r].seq /\ t.act.kind = kind) \/ HasReason(d, t)

\* The tables e are as good for a run as the tables d.
Keeps(d, e, r) == (Wakes(d, r) => Wakes(e, r)) /\ (Reasons(d, r) => Reasons(e, r))

LEMMA WaitTaskFields ==
    ASSUME NEW d \in Tables, NEW r \in Refs, NEW w \in Wait, NEW u \in TasksForWait(d, r, w)
    PROVE  /\ u.act.ref = r /\ u.act.seq = d.inst[r].seq /\ u.act.kind = w.kind
           /\ u.wait = w.name /\ u.version = d.inst[r].version
           /\ w.kind = "run" => u.act.n = 0
           /\ w.kind = "timer" => u.act.n = w.at
           /\ w.kind = "signal" => \E s \in Earliest(Deliverable(d, r, w), "at") : u.act.n = s.id
           /\ w.kind = "child" => \E c \in Earliest(Finished(d, r, w), "completedAt") : u.act.n = c.id
<1>1. \A kind, name, n, wait, at :
         LET t == TaskFor(d, r, kind, name, n, wait, at)
         IN  /\ t.act.ref = r /\ t.act.seq = d.inst[r].seq /\ t.act.kind = kind
             /\ t.wait = wait /\ t.version = d.inst[r].version /\ t.act.n = n
  BY DEF TaskFor
<1>2. CASE w.kind = "run"
  <2>1. u = TaskFor(d, r, "run", w.name, 0, w.name, w.at)
    BY <1>2 DEF TasksForWait
  <2> QED
    BY <1>1, <1>2, <2>1
<1>3. CASE w.kind = "timer"
  <2>1. u = TaskFor(d, r, "timer", w.name, w.at, w.name, w.at)
    BY <1>3 DEF TasksForWait
  <2> QED
    BY <1>1, <1>3, <2>1
<1>4. CASE w.kind = "signal"
  <2>1. PICK s \in Earliest(Deliverable(d, r, w), "at") : u = TaskFor(d, r, "signal", 0, s.id, w.name, s.at)
    BY <1>4 DEF TasksForWait
  <2> QED
    BY <1>1, <1>4, <2>1
<1>5. CASE w.kind = "child"
  <2>1. PICK c \in Earliest(Finished(d, r, w), "completedAt") : u = TaskFor(d, r, "child", 0, c.id, w.name, c.completedAt)
    BY <1>5 DEF TasksForWait
  <2> QED
    BY <1>1, <1>5, <2>1
<1> QED
  BY <1>2, <1>3, <1>4, <1>5, WaitFields

\* A task that is derived for a wait has a reason.
LEMMA DerivedTaskHasReason ==
    ASSUME NEW d \in Tables, NEW r \in Refs, NEW w \in Wait, NEW u \in TasksForWait(d, r, w), Running(d, r)
    PROVE  HasReason(d, u)
<1>1. u.act.ref = r /\ u.act.seq = d.inst[r].seq /\ u.act.kind = w.kind /\ u.version = d.inst[r].version
  BY WaitTaskFields
<1>2. Current(d, u)
  BY <1>1 DEF Current
<1>3. ASSUME w.kind = "signal" PROVE \E s \in Inbox(d, r) : s.id = u.act.n
  BY <1>3, WaitTaskFields DEF Earliest, Deliverable, Inbox
<1>4. ASSUME w.kind = "child" PROVE \E c \in Reports(d, r) : c.id = u.act.n
  BY <1>4, WaitTaskFields DEF Earliest, Finished, Reports
<1> QED
  BY <1>1, <1>2, <1>3, <1>4 DEF HasReason

\* What a wait is woken by depends on the run and on its inbox or its reports.
LEMMA SameEvents ==
    ASSUME NEW d, NEW e, NEW r \in Refs, NEW w \in Wait, e.inst[r] = d.inst[r],
           w.kind = "signal" => Inbox(e, r) = Inbox(d, r),
           w.kind = "child" => Reports(e, r) = Reports(d, r)
    PROVE  TasksForWait(e, r, w) = TasksForWait(d, r, w)
<1>1. w.kind = "signal" => Deliverable(e, r, w) = Deliverable(d, r, w)
  BY DEF Deliverable, Inbox
<1>2. w.kind = "child" => Finished(e, r, w) = Finished(d, r, w)
  BY DEF Finished, Reports
<1>3. \A kind, name, n, wait, at : TaskFor(e, r, kind, name, n, wait, at) = TaskFor(d, r, kind, name, n, wait, at)
  BY DEF TaskFor
<1>4. CASE w.kind = "run"
  BY <1>3, <1>4 DEF TasksForWait
<1>5. CASE w.kind = "timer"
  BY <1>3, <1>5 DEF TasksForWait
<1>6. CASE w.kind = "signal"
  BY <1>1, <1>3, <1>6 DEF TasksForWait
<1>7. CASE w.kind = "child"
  BY <1>2, <1>3, <1>7 DEF TasksForWait
<1> QED
  BY <1>4, <1>6, <1>7, <1>5, WaitFields

\* The tasks of a run that are not about a migration stay, and those there are were there or
\* are about a migration.
KeptTasks(d, e, r) ==
    \A t \in d.tasks : t.act.ref = r /\ Current(d, t) /\ t.act.kind # "migration" =>
        \E u \in e.tasks : u.act = t.act /\ u.wait = t.wait
OldTasks(d, e, r) ==
    \A u \in e.tasks : u.act.ref = r =>
        \/ \E t \in d.tasks : t.act = u.act /\ t.version = u.version
        \/ u.act.kind = "migration" /\ Current(d, u) /\ u.version = d.inst[r].version

\* What keeps the waits, the events and the tasks of a run keeps its wake-ups and reasons.
LEMMA KeepsSame ==
    ASSUME NEW d \in Tables, NEW e \in Tables, NEW r \in Refs, e.inst[r] = d.inst[r],
           Inbox(e, r) = Inbox(d, r), Reports(e, r) = Reports(d, r),
           KeptTasks(d, e, r), OldTasks(d, e, r)
    PROVE  Keeps(d, e, r)
<1>1. ASSUME Wakes(d, r) PROVE Wakes(e, r)
  <2>1. SUFFICES ASSUME Running(d, r), NEW w \in d.inst[r].waits, NEW u \in TasksForWait(e, r, w)
                 PROVE  \E t \in e.tasks : t.act = u.act /\ t.wait = u.wait
    BY DEF Wakes, Woken, Running
  <2>2. w \in Wait
    BY InstanceFields
  <2>3. u \in TasksForWait(d, r, w)
    BY <2>1, <2>2, SameEvents
  <2>4. PICK t \in d.tasks : t.act = u.act /\ t.wait = u.wait
    BY <1>1, <2>1, <2>3 DEF Wakes, Woken
  <2>5. t.act.ref = r /\ t.act.kind # "migration" /\ Current(d, t)
    BY <2>1, <2>2, <2>3, <2>4, WaitTaskFields, WaitFields DEF Current
  <2> QED
    BY <2>4, <2>5 DEF KeptTasks
<1>2. ASSUME Reasons(d, r) PROVE Reasons(e, r)
  <2>1. SUFFICES ASSUME NEW u \in e.tasks, u.act.ref = r PROVE HasReason(e, u)
    BY DEF Reasons
  <2>2. CASE \E t \in d.tasks : t.act = u.act /\ t.version = u.version
    <3>1. PICK t \in d.tasks : t.act = u.act /\ t.version = u.version
      BY <2>2
    <3>2. HasReason(d, t)
      BY <1>2, <2>1, <3>1 DEF Reasons
    <3> QED
      BY <2>1, <3>1, <3>2 DEF HasReason, Current, Running
  <2>3. CASE u.act.kind = "migration" /\ Current(d, u) /\ u.version = d.inst[r].version
    BY <2>1, <2>3 DEF HasReason, Current, Running
  <2> QED
    BY <2>1, <2>2, <2>3 DEF OldTasks
<1> QED
  BY <1>1, <1>2 DEF Keeps

-------------------------------------------------------------------------------
(* Tasks. *)

LEMMA DeleteTasksFields ==
    ASSUME NEW d \in Tables, NEW T
    PROVE  LET e == DeleteTasks(d, T)
           IN  /\ e \in Tables /\ e.tasks = d.tasks \ T
               /\ e.inst = d.inst /\ e.signals = d.signals /\ e.children = d.children
               /\ e.effects = d.effects /\ e.completed = d.completed
               /\ e.signalCounter = d.signalCounter /\ e.childCounter = d.childCounter
<1>1. DeleteTasks(d, T) \in Tables
  BY DeleteTasksSafe DEF Safe
<1> QED
  BY <1>1 DEF DeleteTasks, Tables

LEMMA InsertTasksFields ==
    ASSUME NEW d \in Tables, NEW new \in SUBSET FreshTasks
    PROVE  LET e == InsertTasks(d, new)
           IN  /\ e \in Tables
               /\ e.tasks = (d.tasks \ {t \in d.tasks : \E n \in new : t.act = n.act /\ (t.act.kind = "signal" => t.wait = n.wait)}) \cup new
               /\ e.inst = d.inst /\ e.signals = d.signals /\ e.children = d.children
               /\ e.effects = d.effects /\ e.completed = d.completed
               /\ e.signalCounter = d.signalCounter /\ e.childCounter = d.childCounter
<1> DEFINE old == {t \in d.tasks : \E n \in new : t.act = n.act /\ (t.act.kind = "signal" => t.wait = n.wait)}
           d1 == DeleteTasks(d, old)
<1>1. InsertTasks(d, new) \in Tables
  BY InsertTasksSafe DEF Safe
<1>2. InsertTasks(d, new) = [d1 EXCEPT !.tasks = d1.tasks \cup new]
  BY DEF InsertTasks
<1>3. /\ d1 \in Tables /\ d1.tasks = d.tasks \ old
      /\ d1.inst = d.inst /\ d1.signals = d.signals /\ d1.children = d.children
      /\ d1.effects = d.effects /\ d1.completed = d.completed
      /\ d1.signalCounter = d.signalCounter /\ d1.childCounter = d.childCounter
  BY DeleteTasksFields
<1> HIDE DEF d1
<1> QED
  BY <1>1, <1>2, <1>3 DEF Tables

\* Tasks that are deleted do not matter if they are of other runs, stale, or about a migration.
LEMMA DeleteTasksKeeps ==
    ASSUME NEW d \in Tables, NEW T, NEW r \in Refs,
           \A t \in T : t.act.ref = r => ~ Current(d, t) \/ t.act.kind = "migration"
    PROVE  Keeps(d, DeleteTasks(d, T), r)
<1> DEFINE e == DeleteTasks(d, T)
<1>1. /\ e \in Tables /\ e.tasks = d.tasks \ T
      /\ e.inst = d.inst /\ e.signals = d.signals /\ e.children = d.children
  BY DeleteTasksFields
<1> HIDE DEF e
<1>2. Inbox(e, r) = Inbox(d, r) /\ Reports(e, r) = Reports(d, r)
  BY <1>1 DEF Inbox, Reports
<1>3. KeptTasks(d, e, r) /\ OldTasks(d, e, r)
  BY <1>1 DEF KeptTasks, OldTasks
<1>4. Keeps(d, e, r)
  BY <1>1, <1>2, <1>3, KeepsSame
<1> QED
  BY <1>4 DEF e

\* Nor do tasks that are added of other runs, or about the migration of a run.
LEMMA InsertTasksKeeps ==
    ASSUME NEW d \in Tables, NEW new \in SUBSET FreshTasks, NEW r \in Refs,
           \A u \in new : u.act.ref = r =>
               u.act.kind = "migration" /\ Current(d, u) /\ u.version = d.inst[r].version
    PROVE  Keeps(d, InsertTasks(d, new), r)
<1> DEFINE e == InsertTasks(d, new)
<1>1. /\ e \in Tables
      /\ e.tasks = (d.tasks \ {t \in d.tasks : \E n \in new : t.act = n.act /\ (t.act.kind = "signal" => t.wait = n.wait)}) \cup new
      /\ e.inst = d.inst /\ e.signals = d.signals /\ e.children = d.children
  BY InsertTasksFields
<1> HIDE DEF e
<1>2. Inbox(e, r) = Inbox(d, r) /\ Reports(e, r) = Reports(d, r)
  BY <1>1 DEF Inbox, Reports
<1>3. KeptTasks(d, e, r)
  BY <1>1 DEF KeptTasks
<1>4. OldTasks(d, e, r)
  BY <1>1 DEF OldTasks
<1>5. Keeps(d, e, r)
  BY <1>1, <1>2, <1>3, <1>4, KeepsSame
<1> QED
  BY <1>5 DEF e

\* The tables after the tasks of a run were rebuilt have the events they had.
LEMMA ReplaceTasksFields ==
    ASSUME NEW d \in Tables, NEW r \in Refs
    PROVE  LET e == ReplaceTasks(d, r)
           IN  /\ e \in Tables
               /\ e.inst = d.inst /\ e.signals = d.signals /\ e.children = d.children
               /\ e.effects = d.effects /\ e.completed = d.completed
               /\ e.signalCounter = d.signalCounter /\ e.childCounter = d.childCounter
<1> DEFINE cleared == DeleteTasks(d, TasksOf(d, r))
           new == DerivedTasks(cleared, r)
<1>1. /\ cleared \in Tables
      /\ cleared.inst = d.inst /\ cleared.signals = d.signals /\ cleared.children = d.children
      /\ cleared.effects = d.effects /\ cleared.completed = d.completed
      /\ cleared.signalCounter = d.signalCounter /\ cleared.childCounter = d.childCounter
  BY DeleteTasksFields
<1>2. ReplaceTasks(d, r) = IF Running(d, r) THEN InsertTasks(cleared, new) ELSE cleared
  BY DEF ReplaceTasks
<1> HIDE DEF cleared
<1>3. new \in SUBSET FreshTasks
  BY <1>1, InstanceFields, TasksForWaitFresh DEF DerivedTasks
<1> HIDE DEF new
<1> DEFINE e == InsertTasks(cleared, new)
<1>4. /\ e \in Tables
      /\ e.inst = cleared.inst /\ e.signals = cleared.signals /\ e.children = cleared.children
      /\ e.effects = cleared.effects /\ e.completed = cleared.completed
      /\ e.signalCounter = cleared.signalCounter /\ e.childCounter = cleared.childCounter
  BY <1>1, <1>3, InsertTasksFields
<1> HIDE DEF e
<1>5. ReplaceTasks(d, r) \in {e, cleared}
  BY <1>2 DEF e
<1> QED
  BY <1>1, <1>4, <1>5

\* The tasks of a run that are rebuilt are all that its waits ought to have, and no others.
LEMMA ReplaceTasksOfRun ==
    ASSUME NEW d \in Tables, NEW r \in Refs
    PROVE  Wakes(ReplaceTasks(d, r), r) /\ Reasons(ReplaceTasks(d, r), r)
<1> DEFINE cleared == DeleteTasks(d, TasksOf(d, r))
           new == DerivedTasks(cleared, r)
           e == ReplaceTasks(d, r)
<1> SUFFICES Wakes(e, r) /\ Reasons(e, r)
  OBVIOUS
<1>1. /\ cleared \in Tables /\ cleared.tasks = d.tasks \ TasksOf(d, r)
      /\ cleared.inst = d.inst /\ cleared.signals = d.signals /\ cleared.children = d.children
  BY DeleteTasksFields
<1>2. e = IF Running(d, r) THEN InsertTasks(cleared, new) ELSE cleared
  BY DEF ReplaceTasks
<1>3. e \in Tables /\ e.inst = d.inst /\ e.signals = d.signals /\ e.children = d.children
  BY ReplaceTasksFields
<1>4. \A t \in cleared.tasks : t.act.ref # r
  BY <1>1 DEF TasksOf
<1> HIDE DEF cleared, e
<1>5. Running(e, r) = Running(d, r) /\ Running(cleared, r) = Running(d, r)
  BY <1>1, <1>3 DEF Running
<1>6. CASE ~ Running(d, r)
  BY <1>2, <1>4, <1>5, <1>6 DEF Wakes, Reasons
<1>7. CASE Running(d, r)
  <2>1. new \in SUBSET FreshTasks
    BY <1>1, InstanceFields, TasksForWaitFresh DEF DerivedTasks
  <2>2. \A w \in cleared.inst[r].waits : w \in Wait /\ TasksForWait(cleared, r, w) \subseteq new
    <3>1. cleared.inst[r].waits \in SUBSET Wait
      BY <1>1, InstanceFields
    <3>2. new = UNION {TasksForWait(cleared, r, w) : w \in cleared.inst[r].waits}
      BY DEF DerivedTasks
    <3> HIDE DEF new
    <3> QED
      BY <3>1, <3>2
  <2>3. \A u \in new : \E w \in Wait : u \in TasksForWait(cleared, r, w)
    BY <1>1, InstanceFields DEF DerivedTasks
  <2> HIDE DEF new
  <2>4. new \subseteq e.tasks /\ \A t \in e.tasks : t.act.ref = r => t \in new
    BY <1>1, <1>2, <1>4, <1>7, <2>1, InsertTasksFields
  <2>5. Inbox(e, r) = Inbox(cleared, r) /\ Reports(e, r) = Reports(cleared, r) /\ e.inst = cleared.inst
    BY <1>1, <1>3 DEF Inbox, Reports
  <2>6. Wakes(e, r)
    <3>1. SUFFICES ASSUME NEW w \in e.inst[r].waits, NEW u \in TasksForWait(e, r, w)
                   PROVE  \E t \in e.tasks : t.act = u.act /\ t.wait = u.wait
      BY DEF Wakes, Woken
    <3>2. w \in Wait /\ TasksForWait(cleared, r, w) \subseteq new
      BY <2>2, <2>5
    <3>3. TasksForWait(e, r, w) = TasksForWait(cleared, r, w)
      BY <2>5, <3>2, SameEvents
    <3> QED
      BY <2>4, <3>2, <3>3
  <2>7. Reasons(e, r)
    <3>1. SUFFICES ASSUME NEW t \in e.tasks, t.act.ref = r PROVE HasReason(e, t)
      BY DEF Reasons
    <3>2. PICK w \in Wait : t \in TasksForWait(cleared, r, w)
      BY <2>3, <2>4, <3>1
    <3>3. HasReason(cleared, t)
      BY <1>1, <1>5, <1>7, <3>2, DerivedTaskHasReason
    <3> QED
      BY <2>5, <3>1, <3>3 DEF HasReason, Current, Running
  <2> QED
    BY <2>6, <2>7
<1> QED
  BY <1>6, <1>7

LEMMA ReplaceTasksKeeps ==
    ASSUME NEW d \in Tables, NEW r \in Refs, NEW q \in Refs, q # r
    PROVE  Keeps(d, ReplaceTasks(d, r), q)
<1> DEFINE cleared == DeleteTasks(d, TasksOf(d, r))
           new == DerivedTasks(cleared, r)
<1>1. cleared \in Tables
  BY DeleteTasksFields
<1>2. Keeps(d, cleared, q)
  BY DeleteTasksKeeps DEF TasksOf
<1>3. ReplaceTasks(d, r) = IF Running(d, r) THEN InsertTasks(cleared, new) ELSE cleared
  BY DEF ReplaceTasks
<1> HIDE DEF cleared
<1>4. new \in SUBSET FreshTasks
  BY <1>1, InstanceFields, TasksForWaitFresh DEF DerivedTasks
<1>5. \A u \in new : u.act.ref = r
  BY <1>1, InstanceFields, WaitTaskFields DEF DerivedTasks
<1> HIDE DEF new
<1>6. Keeps(cleared, InsertTasks(cleared, new), q)
  BY <1>1, <1>4, <1>5, InsertTasksKeeps
<1> QED
  BY <1>2, <1>3, <1>6 DEF Keeps

\* The tasks of one kind that are rebuilt, of a run whose other tasks are as they ought to be.
LEMMA RefreshTasksFields ==
    ASSUME NEW d \in Tables, NEW r \in Refs, NEW kind
    PROVE  LET e   == RefreshTasks(d, r, kind)
               new == UNION {TasksForWait(d, r, w) : w \in {x \in d.inst[r].waits : x.kind = kind}}
           IN  /\ e \in Tables
               /\ e.inst = d.inst /\ e.signals = d.signals /\ e.children = d.children
               /\ e.effects = d.effects /\ e.completed = d.completed
               /\ e.signalCounter = d.signalCounter /\ e.childCounter = d.childCounter
               /\ new \in SUBSET FreshTasks
               /\ \A u \in new : u.act.ref = r /\ u.act.seq = d.inst[r].seq /\ u.act.kind = kind
               /\ new \subseteq e.tasks
               /\ \A t \in e.tasks :
                    \/ t \in new
                    \/ t \in d.tasks /\ ~ (t.act.ref = r /\ t.act.seq = d.inst[r].seq /\ t.act.kind = kind)
               /\ \A t \in d.tasks :
                    t \in e.tasks \/ (t.act.ref = r /\ t.act.seq = d.inst[r].seq /\ t.act.kind = kind)
<1> DEFINE gone == {t \in TasksOf(d, r) : t.act.seq = d.inst[r].seq /\ t.act.kind = kind}
           cleared == DeleteTasks(d, gone)
           waits == {w \in d.inst[r].waits : w.kind = kind}
           new == UNION {TasksForWait(d, r, w) : w \in waits}
           e == InsertTasks(cleared, new)
<1>1. /\ cleared \in Tables /\ cleared.tasks = d.tasks \ gone
      /\ cleared.inst = d.inst /\ cleared.signals = d.signals /\ cleared.children = d.children
      /\ cleared.effects = d.effects /\ cleared.completed = d.completed
      /\ cleared.signalCounter = d.signalCounter /\ cleared.childCounter = d.childCounter
  BY DeleteTasksFields
<1>2. RefreshTasks(d, r, kind) = InsertTasks(cleared, UNION {TasksForWait(cleared, r, w) : w \in waits})
  BY <1>1 DEF RefreshTasks
<1> HIDE DEF cleared
<1>3. waits \in SUBSET Wait
  BY InstanceFields
<1>4. \A w \in waits : TasksForWait(cleared, r, w) = TasksForWait(d, r, w)
  <2>1. Inbox(cleared, r) = Inbox(d, r) /\ Reports(cleared, r) = Reports(d, r)
    BY <1>1 DEF Inbox, Reports
  <2> QED
    BY <1>1, <1>3, <2>1, SameEvents
<1>5. \A w \in waits : w.kind = kind
  OBVIOUS
<1> HIDE DEF waits
<1>6. RefreshTasks(d, r, kind) = e
  BY <1>2, <1>4
<1>7. new \in SUBSET FreshTasks
  BY <1>3, TasksForWaitFresh
<1>8. \A u \in new : u.act.ref = r /\ u.act.seq = d.inst[r].seq /\ u.act.kind = kind
  BY <1>3, <1>5, WaitTaskFields
<1> HIDE DEF new
<1>9. /\ e \in Tables
      /\ e.tasks = (cleared.tasks \ {t \in cleared.tasks : \E n \in new : t.act = n.act /\ (t.act.kind = "signal" => t.wait = n.wait)}) \cup new
      /\ e.inst = cleared.inst /\ e.signals = cleared.signals /\ e.children = cleared.children
      /\ e.effects = cleared.effects /\ e.completed = cleared.completed
      /\ e.signalCounter = cleared.signalCounter /\ e.childCounter = cleared.childCounter
  BY <1>1, <1>7, InsertTasksFields
<1> HIDE DEF e
<1>10. new \subseteq e.tasks
  BY <1>9
<1>11. \A t \in e.tasks :
         \/ t \in new
         \/ t \in d.tasks /\ ~ (t.act.ref = r /\ t.act.seq = d.inst[r].seq /\ t.act.kind = kind)
  BY <1>1, <1>9 DEF TasksOf
<1>12. \A t \in d.tasks :
         t \in e.tasks \/ (t.act.ref = r /\ t.act.seq = d.inst[r].seq /\ t.act.kind = kind)
  <2>1. ASSUME NEW t \in d.tasks, ~ (t.act.ref = r /\ t.act.seq = d.inst[r].seq /\ t.act.kind = kind)
        PROVE  t \in cleared.tasks
    BY <1>1, <2>1 DEF TasksOf
  <2> HIDE DEF gone
  <2>2. ASSUME NEW t \in cleared.tasks, NEW n \in new, t.act = n.act
        PROVE  t.act.ref = r /\ t.act.seq = d.inst[r].seq /\ t.act.kind = kind
    BY <1>8, <2>2
  <2> QED
    BY <1>9, <2>1, <2>2
<1> QED
  BY <1>1, <1>6, <1>7, <1>8, <1>9, <1>10, <1>11, <1>12 DEF new, waits

LEMMA RefreshTasksOfRun ==
    ASSUME NEW d \in Tables, NEW r \in Refs, NEW kind
    PROVE  /\ WakesBut(d, r, kind) => Wakes(RefreshTasks(d, r, kind), r)
           /\ (Running(d, r) \/ d.inst[r].waits = {}) /\ ReasonsBut(d, r, kind) =>
                  Reasons(RefreshTasks(d, r, kind), r)
<1> DEFINE e == RefreshTasks(d, r, kind)
           new == UNION {TasksForWait(d, r, w) : w \in {x \in d.inst[r].waits : x.kind = kind}}
<1>1. /\ e \in Tables
      /\ e.inst = d.inst /\ e.signals = d.signals /\ e.children = d.children
      /\ new \subseteq e.tasks
      /\ \A t \in e.tasks :
           \/ t \in new
           \/ t \in d.tasks /\ ~ (t.act.ref = r /\ t.act.seq = d.inst[r].seq /\ t.act.kind = kind)
      /\ \A t \in d.tasks :
           t \in e.tasks \/ (t.act.ref = r /\ t.act.seq = d.inst[r].seq /\ t.act.kind = kind)
  BY RefreshTasksFields
<1>2. Inbox(e, r) = Inbox(d, r) /\ Reports(e, r) = Reports(d, r)
  BY <1>1 DEF Inbox, Reports
<1> SUFFICES /\ WakesBut(d, r, kind) => Wakes(e, r)
             /\ (Running(d, r) \/ d.inst[r].waits = {}) /\ ReasonsBut(d, r, kind) => Reasons(e, r)
  OBVIOUS
<1>3. \A w \in d.inst[r].waits : w \in Wait /\ (w.kind = kind => TasksForWait(d, r, w) \subseteq new)
  BY InstanceFields
<1>4. \A u \in new : \E w \in Wait : w \in d.inst[r].waits /\ u \in TasksForWait(d, r, w)
  BY InstanceFields
<1> HIDE DEF e, new
<1>5. ASSUME WakesBut(d, r, kind) PROVE Wakes(e, r)
  <2>1. SUFFICES ASSUME Running(d, r), NEW w \in d.inst[r].waits, NEW u \in TasksForWait(e, r, w)
                 PROVE  \E t \in e.tasks : t.act = u.act /\ t.wait = u.wait
    BY <1>1 DEF Wakes, Woken, Running
  <2>2. u \in TasksForWait(d, r, w)
    BY <1>1, <1>2, <1>3, SameEvents
  <2>3. CASE w.kind = kind
    BY <1>1, <1>3, <2>2, <2>3
  <2>4. CASE w.kind # kind
    <3>1. PICK t \in d.tasks : t.act = u.act /\ t.wait = u.wait
      BY <1>5, <2>1, <2>2, <2>4 DEF WakesBut, Woken
    <3>2. t.act.kind = w.kind
      BY <1>3, <2>2, <3>1, WaitTaskFields
    <3> QED
      BY <1>1, <2>4, <3>1, <3>2
  <2> QED
    BY <2>3, <2>4
<1>6. ASSUME Running(d, r) \/ d.inst[r].waits = {}, ReasonsBut(d, r, kind) PROVE Reasons(e, r)
  <2>1. SUFFICES ASSUME NEW t \in e.tasks, t.act.ref = r PROVE HasReason(d, t)
    BY <1>1, <1>2 DEF Reasons, HasReason, Current, Running
  <2>2. CASE t \in new
    BY <1>4, <1>6, <2>2, DerivedTaskHasReason
  <2>3. CASE t \notin new
    BY <1>1, <1>6, <2>1, <2>3 DEF ReasonsBut
  <2> QED
    BY <2>2, <2>3
<1> QED
  BY <1>5, <1>6

LEMMA RefreshTasksKeeps ==
    ASSUME NEW d \in Tables, NEW r \in Refs, NEW kind, NEW q \in Refs, q # r
    PROVE  Keeps(d, RefreshTasks(d, r, kind), q)
<1> DEFINE e == RefreshTasks(d, r, kind)
           new == UNION {TasksForWait(d, r, w) : w \in {x \in d.inst[r].waits : x.kind = kind}}
<1>1. /\ e \in Tables
      /\ e.inst = d.inst /\ e.signals = d.signals /\ e.children = d.children
      /\ \A u \in new : u.act.ref = r
      /\ \A t \in e.tasks : t \in new \/ t \in d.tasks
      /\ \A t \in d.tasks : t \in e.tasks \/ t.act.ref = r
  BY RefreshTasksFields
<1> HIDE DEF e, new
<1>2. Inbox(e, q) = Inbox(d, q) /\ Reports(e, q) = Reports(d, q)
  BY <1>1 DEF Inbox, Reports
<1>3. KeptTasks(d, e, q) /\ OldTasks(d, e, q)
  BY <1>1 DEF KeptTasks, OldTasks
<1>4. Keeps(d, e, q)
  BY <1>1, <1>2, <1>3, KeepsSame
<1> QED
  BY <1>4 DEF e

\* A run that is given a migration task loses no other task.
LEMMA RefreshMigrationsKeeps ==
    ASSUME NEW d \in Tables, NEW shard, NEW now \in Nat, NEW version \in Nat, NEW q \in Refs
    PROVE  Keeps(d, RefreshMigrations(d, shard, now, version), q)
<1> DEFINE here  == {r \in Refs : ShardOf[r[1]] = shard /\ Running(d, r)}
           done  == {t \in d.tasks : /\ t.act.kind = "migration" /\ t.act.ref \in here
                                     /\ t.act.seq = d.inst[t.act.ref].seq
                                     /\ d.inst[t.act.ref].version >= version}
           stale == {r \in here : d.inst[r].version < version /\ CurrentTasks(d, r) = {}}
           new   == {TaskFor(d, r, "migration", 0, version, 0, now) : r \in stale}
           d1    == DeleteTasks(d, done)
<1>1. d1 \in Tables /\ d1.inst = d.inst
  BY DeleteTasksFields
<1>2. Keeps(d, d1, q)
  BY DeleteTasksKeeps
<1>3. RefreshMigrations(d, shard, now, version) = InsertTasks(d1, new)
  BY DEF RefreshMigrations
<1> HIDE DEF d1
<1>4. new \in SUBSET FreshTasks
  BY TaskForType DEF Kinds
<1>5. \A u \in new : u.act.kind = "migration" /\ Current(d1, u) /\ u.version = d1.inst[u.act.ref].version
  BY <1>1 DEF TaskFor, Current, Running
<1> HIDE DEF new
<1>6. Keeps(d1, InsertTasks(d1, new), q)
  BY <1>1, <1>4, <1>5, InsertTasksKeeps
<1> QED
  BY <1>2, <1>3, <1>6 DEF Keeps

-------------------------------------------------------------------------------
(* Steps that leave the runs, their inboxes and their children alone. *)

\* The tables with other claims, effects and stale tasks.
Quiet(d, e) ==
    /\ e.inst = d.inst /\ e.signals = d.signals /\ e.children = d.children
    /\ e.signalCounter = d.signalCounter /\ e.childCounter = d.childCounter
    /\ e.completed = d.completed
SameWork(d, e) ==
    /\ \A t \in d.tasks : Current(d, t) => \E u \in e.tasks : u.act = t.act /\ u.wait = t.wait
    /\ \A u \in e.tasks : \E t \in d.tasks : t.act = u.act /\ t.version = u.version
QuietlyKeeps(d, e) == Quiet(d, e) /\ \A r \in Refs : Keeps(d, e, r)

LEMMA QuietKeeps ==
    ASSUME NEW d \in Tables, NEW e \in Tables, Quiet(d, e), SameWork(d, e)
    PROVE  QuietlyKeeps(d, e)
<1>1. ASSUME NEW r \in Refs PROVE Keeps(d, e, r)
  <2>1. Inbox(e, r) = Inbox(d, r) /\ Reports(e, r) = Reports(d, r)
    BY DEF Quiet, Inbox, Reports
  <2>2. KeptTasks(d, e, r) /\ OldTasks(d, e, r)
    BY DEF SameWork, KeptTasks, OldTasks
  <2> QED
    BY <2>1, <2>2, KeepsSame DEF Quiet
<1> QED
  BY <1>1 DEF QuietlyKeeps

LEMMA QuietTransitive ==
    ASSUME NEW d, NEW e, NEW f, QuietlyKeeps(d, e), QuietlyKeeps(e, f)
    PROVE  QuietlyKeeps(d, f)
  BY DEF QuietlyKeeps, Quiet, Keeps

LEMMA QuietReflexive == ASSUME NEW d PROVE QuietlyKeeps(d, d)
  BY DEF QuietlyKeeps, Quiet, Keeps

LEMMA FreedQuiet ==
    ASSUME NEW d \in Tables, NEW T, NEW blocked, \A t \in T \cap d.tasks : blocked[t] \in Nat
    PROVE  QuietlyKeeps(d, Freed(d, T, blocked))
<1> DEFINE new(t) == IF t \in T THEN [Unclaimed(t) EXCEPT !.blocked = blocked[t]] ELSE t
           N == {new(t) : t \in d.tasks}
           e == Freed(d, T, blocked)
<1> SUFFICES QuietlyKeeps(d, e)
  OBVIOUS
<1>1. e \in Tables
  BY FreedSafe DEF Safe
<1>2. e.tasks = N /\ Quiet(d, e)
  BY DEF Freed, Tables, Quiet
<1> HIDE DEF e
<1>3. ASSUME NEW t \in d.tasks
      PROVE  new(t).act = t.act /\ new(t).wait = t.wait /\ new(t).version = t.version
  <2>1. t \in Task
    BY DEF Tables
  <2> QED
    BY <2>1 DEF Unclaimed, Task
<1> HIDE DEF new
<1>4. SameWork(d, e)
  BY <1>2, <1>3 DEF SameWork
<1> QED
  BY <1>1, <1>2, <1>4, QuietKeeps

\* The tables with another ledger.
LEMMA EffectsQuiet ==
    ASSUME NEW d \in Tables, NEW E, [d EXCEPT !.effects = E] \in Tables
    PROVE  QuietlyKeeps(d, [d EXCEPT !.effects = E])
<1> DEFINE e == [d EXCEPT !.effects = E]
<1>1. Quiet(d, e) /\ e.tasks = d.tasks
  BY DEF Quiet, Tables
<1>2. SameWork(d, e)
  <2> HIDE DEF e
  <2> QED
    BY <1>1 DEF SameWork
<1> QED
  BY <1>1, <1>2, QuietKeeps

\* The tables when a worker has given up its claim on an activation.
Released(d, a, w) ==
    LET T == {t \in TasksOfActivation(d, a) : t.owner = w}
    IN  Freed(d, T, [t \in T |-> t.blocked])
LEMMA ReleasedQuiet ==
    ASSUME NEW d \in Tables, NEW a, NEW w
    PROVE  QuietlyKeeps(d, Released(d, a, w))
<1> DEFINE T == {t \in TasksOfActivation(d, a) : t.owner = w}
           blocked == [t \in T |-> t.blocked]
<1>1. \A t \in T \cap d.tasks : blocked[t] \in Nat
  <2>1. d.tasks \in SUBSET Task
    BY DEF Tables
  <2> QED
    BY <2>1 DEF Task
<1> HIDE DEF T, blocked
<1>2. QuietlyKeeps(d, Freed(d, T, blocked))
  BY <1>1, FreedQuiet
<1> QED
  BY <1>2 DEF T, blocked, Released

LEMMA ExpireTimeoutsQuiet ==
    ASSUME NEW d \in Tables, NEW A, NEW now \in Nat
    PROVE  QuietlyKeeps(d, ExpireTimeouts(d, A, now))
<1> DEFINE late == {e \in d.effects : e.act \in A /\ Late(e, now)}
           last(a) == {e \in late : e.act = a /\ \A o \in late : o.act = a => o.key <= e.key}
           freed == {t \in d.tasks : \E e \in late : e.act = t.act}
           blocked == [t \in freed |-> IF last(t.act) = {} THEN 0
                                       ELSE BlockedAfter(CHOOSE e \in last(t.act) : TRUE, now, TRUE)]
           d1 == Freed(d, freed, blocked)
           E  == {IF e \in late THEN AfterFailure(e, now, TRUE) ELSE e : e \in d1.effects}
<1>1. ExpireTimeouts(d, A, now) = [d1 EXCEPT !.effects = E]
  BY DEF ExpireTimeouts
<1>2. ASSUME NEW t \in freed PROVE blocked[t] \in Nat
  <2>1. CASE last(t.act) = {}
    BY <2>1
  <2>2. CASE last(t.act) # {}
    <3>1. (CHOOSE e \in last(t.act) : TRUE) \in last(t.act)
      BY <2>2
    <3>2. last(t.act) \in SUBSET EffectRecord
      BY DEF Tables
    <3> HIDE DEF last
    <3> QED
      BY <2>2, <3>1, <3>2, BlockedAfterType
  <2> QED
    BY <2>1, <2>2
<1> HIDE DEF blocked, freed
<1>3. QuietlyKeeps(d, d1) /\ d1 \in Tables
  BY <1>2, FreedQuiet, FreedSafe DEF Safe
<1> HIDE DEF d1, E
<1>4. [d1 EXCEPT !.effects = E] \in Tables
  BY <1>1, ExpireTimeoutsSafe DEF Safe
<1>5. QuietlyKeeps(d1, [d1 EXCEPT !.effects = E])
  BY <1>3, <1>4, EffectsQuiet
<1> QED
  BY <1>1, <1>3, <1>5, QuietTransitive

LEMMA ReserveQuiet ==
    ASSUME NEW d \in Tables, NEW a \in Activation, NEW key \in EffectKeys, NEW token \in Token, NEW now \in Nat
    PROVE  QuietlyKeeps(d, Reserve(d, a, key, token, now))
<1>1. Reserve(d, a, key, token, now) \in Tables
  BY ReserveSafe DEF Safe
<1>2. PICK E : Reserve(d, a, key, token, now) = [d EXCEPT !.effects = E]
  BY DEF Reserve
<1> QED
  BY <1>1, <1>2, EffectsQuiet

LEMMA BeatQuiet ==
    ASSUME NEW d \in Tables, NEW e \in d.effects, NEW now \in Nat
    PROVE  QuietlyKeeps(d, Beat(d, e, now))
<1>1. Beat(d, e, now) \in Tables
  BY BeatSafe DEF Safe
<1>2. PICK E : Beat(d, e, now) = [d EXCEPT !.effects = E]
  BY DEF Beat
<1> QED
  BY <1>1, <1>2, EffectsQuiet

LEMMA CompleteQuiet ==
    ASSUME NEW d \in Tables, NEW e \in d.effects
    PROVE  QuietlyKeeps(d, Complete(d, e))
<1>1. Complete(d, e) \in Tables
  BY CompleteSafe DEF Safe
<1>2. PICK E : Complete(d, e) = [d EXCEPT !.effects = E]
  BY DEF Complete
<1> QED
  BY <1>1, <1>2, EffectsQuiet

LEMMA FailQuiet ==
    ASSUME NEW d \in Tables, NEW e \in d.effects, NEW now \in Nat, NEW retryable
    PROVE  QuietlyKeeps(d, Fail(d, e, now, retryable))
<1> DEFINE f  == AfterFailure(e, now, retryable)
           E  == (d.effects \ {e}) \cup {f}
           d1 == [d EXCEPT !.effects = E]
           T  == TasksOfActivation(d1, e.act)
           blocked == [t \in T |-> BlockedAfter(e, now, retryable)]
<1>1. e \in EffectRecord /\ d.effects \in SUBSET EffectRecord
  BY DEF Tables
<1>2. Fail(d, e, now, retryable) = Freed(d1, T, blocked)
  BY DEF Fail
<1>3. E \in SUBSET EffectRecord
  BY <1>1, AfterFailureType
<1>4. \A t \in T : blocked[t] \in Nat
  BY <1>1, BlockedAfterType
<1> HIDE DEF E
<1>5. d1 \in Tables
  BY <1>3 DEF Tables
<1>6. QuietlyKeeps(d, d1)
  BY <1>5, EffectsQuiet
<1> HIDE DEF d1, T, blocked
<1>7. QuietlyKeeps(d1, Freed(d1, T, blocked))
  BY <1>4, <1>5, FreedQuiet
<1> QED
  BY <1>2, <1>6, <1>7, QuietTransitive

LEMMA RecordFailuresQuiet ==
    ASSUME NEW d \in Tables, NEW a \in Activation, NEW keys \in SUBSET EffectKeys, NEW release
    PROVE  QuietlyKeeps(d, RecordFailures(d, a, keys, release))
<1> DEFINE E  == {e \in d.effects : ~ (e.act = a /\ e.key \in keys)} \cup FailureRecords(a, keys)
           d1 == [d EXCEPT !.effects = E]
           T  == TasksOfActivation(d1, a)
           blocked == [t \in T |-> 0]
<1>1. RecordFailures(d, a, keys, release) = IF release THEN Freed(d1, T, blocked) ELSE d1
  BY DEF RecordFailures
<1>2. E \in SUBSET EffectRecord
  BY FailureRecordsType DEF Tables
<1> HIDE DEF E
<1>3. d1 \in Tables
  BY <1>2 DEF Tables
<1>4. QuietlyKeeps(d, d1)
  BY <1>3, EffectsQuiet
<1>5. \A t \in T : blocked[t] \in Nat
  OBVIOUS
<1> HIDE DEF d1, T, blocked
<1>6. QuietlyKeeps(d1, Freed(d1, T, blocked))
  BY <1>3, <1>5, FreedQuiet
<1> QED
  BY <1>1, <1>4, <1>6, QuietTransitive

LEMMA RefreshMigrationsQuiet ==
    ASSUME NEW d \in Tables, NEW shard, NEW now \in Nat, NEW version \in Nat
    PROVE  Quiet(d, RefreshMigrations(d, shard, now, version))
<1> DEFINE here  == {r \in Refs : ShardOf[r[1]] = shard /\ Running(d, r)}
           done  == {t \in d.tasks : /\ t.act.kind = "migration" /\ t.act.ref \in here
                                     /\ t.act.seq = d.inst[t.act.ref].seq
                                     /\ d.inst[t.act.ref].version >= version}
           stale == {r \in here : d.inst[r].version < version /\ CurrentTasks(d, r) = {}}
           new   == {TaskFor(d, r, "migration", 0, version, 0, now) : r \in stale}
           d1    == DeleteTasks(d, done)
<1>1. d1 \in Tables /\ Quiet(d, d1)
  BY DeleteTasksFields DEF Quiet
<1>2. RefreshMigrations(d, shard, now, version) = InsertTasks(d1, new)
  BY DEF RefreshMigrations
<1>3. new \in SUBSET FreshTasks
  BY TaskForType DEF Kinds
<1> HIDE DEF d1, new
<1>4. Quiet(d1, InsertTasks(d1, new))
  BY <1>1, <1>3, InsertTasksFields DEF Quiet
<1> QED
  BY <1>1, <1>2, <1>4 DEF Quiet

LEMMA PreparedQuiet ==
    ASSUME NEW d \in Tables, NEW w \in Workers, NEW s, NEW now \in Nat
    PROVE  QuietlyKeeps(d, Prepared(d, w, s, now))
<1> DEFINE here == {a \in Expirable(d, w, now) : ShardOfRef(a.ref) = s}
           d1   == ExpireTimeouts(d, here, now)
           e    == RefreshMigrations(d1, s, now, VersionOf[w])
<1>1. QuietlyKeeps(d, d1) /\ d1 \in Tables
  BY ExpireTimeoutsQuiet, ExpireTimeoutsSafe DEF Safe
<1>2. Prepared(d, w, s, now) = e
  BY DEF Prepared
<1> HIDE DEF d1
<1>3. \A q \in Refs : Keeps(d1, e, q)
  BY <1>1, VersionOfType, RefreshMigrationsKeeps
<1>4. Quiet(d1, e)
  BY <1>1, VersionOfType, RefreshMigrationsQuiet
<1> QED
  BY <1>1, <1>2, <1>3, <1>4, QuietTransitive DEF QuietlyKeeps

\* Of a batch that is handed out only stale tasks are deleted, the others are still there.
LEMMA HandOutQuiet ==
    ASSUME NEW d \in Tables, NEW w \in Workers, NEW s \in Shards, NEW now \in Nat, NEW epoch \in Nat,
           NEW batch \in SUBSET d.tasks
    PROVE  LET e == HandOut(d, batch, w, s, now, epoch)
           IN  /\ QuietlyKeeps(d, e)
               /\ \A t \in Live(d, batch) : \E u \in e.tasks : u.act = t.act /\ u.version = t.version
<1> DEFINE T       == Live(d, batch)
           winners == Winners(d, s, now, VersionOf[w], epoch)
           passed  == {t \in Candidates(d, s, now, VersionOf[w]) :
                           /\ Taken(d, t, now) /\ ~ Competing(d, t, epoch)
                           /\ batch = winners \/ \E u \in batch : SortsBefore(t, u)}
           cleared == DeleteTasks(d, batch \ T)
           M       == UnmarkedFor(cleared.claimed, passed)
           d1      == [cleared EXCEPT !.claimed = M]
           until   == now + TaskLeaseMs
           taken(t) == IF t \in T THEN [t EXCEPT !.owner = w, !.epoch = epoch, !.until = until] ELSE t
           e       == TakeClaims(d1, T, w, epoch, until)
<1>1. HandOut(d, batch, w, s, now, epoch) = e
  BY DEF HandOut
<1>2. e \in Tables
  BY <1>1, HandOutTables
<1>3. /\ cleared \in Tables /\ cleared.tasks = d.tasks \ (batch \ T) /\ Quiet(d, cleared)
  BY DeleteTasksFields DEF Quiet
<1>4. T \subseteq batch /\ \A t \in batch : t \in T \/ ~ Current(d, t)
  BY DEF Live
<1> HIDE DEF cleared, M, T
<1>5. d1.tasks = cleared.tasks /\ Quiet(cleared, d1) /\ DOMAIN d1 = DOMAIN cleared
  BY <1>3 DEF Tables, Quiet
<1>6. e.tasks = {taken(t) : t \in d1.tasks} /\ Quiet(d1, e)
  <2>1. d1 = [d1 EXCEPT !.tasks = d1.tasks]
    BY <1>3 DEF Tables
  <2>2. DOMAIN d1 = {"inst", "signals", "children", "tasks", "claimed", "effects", "completed",
                     "signalCounter", "childCounter"}
    BY <1>3, <1>5 DEF Tables
  <2> HIDE DEF d1
  <2> QED
    BY <2>2 DEF TakeClaims, Quiet
<1>7. ASSUME NEW t \in d.tasks
      PROVE  taken(t).act = t.act /\ taken(t).wait = t.wait /\ taken(t).version = t.version
  <2>1. t \in Task
    BY DEF Tables
  <2> QED
    BY <2>1 DEF Task
<1> HIDE DEF taken, d1, e
<1>8. SameWork(d, e)
  BY <1>3, <1>4, <1>5, <1>6, <1>7 DEF SameWork
<1>9. Quiet(d, e)
  BY <1>3, <1>5, <1>6 DEF Quiet
<1>10. \A t \in T : \E u \in e.tasks : u.act = t.act /\ u.version = t.version
  BY <1>3, <1>4, <1>5, <1>6, <1>7
<1> QED
  BY <1>1, <1>2, <1>8, <1>9, <1>10, QuietKeeps DEF T

-------------------------------------------------------------------------------
(* Steps that start, wake and end runs. *)

\* What keeps a run, its events and all tasks of it, and adds none, keeps it.
LEMMA SameRunKeeps ==
    ASSUME NEW d \in Tables, NEW e \in Tables, NEW r \in Refs, e.inst[r] = d.inst[r],
           Inbox(e, r) = Inbox(d, r), Reports(e, r) = Reports(d, r),
           \A t : t.act.ref = r => (t \in e.tasks <=> t \in d.tasks)
    PROVE  Keeps(d, e, r)
  BY KeepsSame DEF KeptTasks, OldTasks

\* A run that is going gets another event of one kind; its tasks of this kind are rebuilt next.
LEMMA AnotherEvent ==
    ASSUME NEW d \in Tables, NEW e \in Tables, NEW r \in Refs, NEW kind \in {"signal", "child"},
           e.inst[r] = d.inst[r], e.tasks = d.tasks,
           kind # "signal" => Inbox(e, r) = Inbox(d, r),
           kind # "child" => Reports(e, r) = Reports(d, r)
    PROVE  /\ Wakes(d, r) => WakesBut(e, r, kind)
           /\ Reasons(d, r) => ReasonsBut(e, r, kind)
<1>1. ASSUME Wakes(d, r) PROVE WakesBut(e, r, kind)
  <2>1. SUFFICES ASSUME Running(d, r), NEW w \in d.inst[r].waits, w.kind # kind, NEW u \in TasksForWait(e, r, w)
                 PROVE  \E t \in d.tasks : t.act = u.act /\ t.wait = u.wait
    BY DEF WakesBut, Woken, Running
  <2>2. w \in Wait
    BY InstanceFields
  <2>3. u \in TasksForWait(d, r, w)
    BY <2>1, <2>2, SameEvents
  <2> QED
    BY <1>1, <2>1, <2>3 DEF Wakes, Woken
<1>2. ASSUME Reasons(d, r) PROVE ReasonsBut(e, r, kind)
  <2>1. SUFFICES ASSUME NEW t \in d.tasks, t.act.ref = r, ~ (t.act.seq = d.inst[r].seq /\ t.act.kind = kind)
                 PROVE  HasReason(e, t)
    BY DEF ReasonsBut
  <2>2. HasReason(d, t)
    BY <1>2, <2>1 DEF Reasons
  <2> QED
    BY <2>1, <2>2 DEF HasReason, Current, Running
<1> QED
  BY <1>1, <1>2

LEMMA NewInstanceFields ==
    ASSUME NEW d \in Tables, NEW r \in Refs, NEW version \in Nat, NEW waits \in SUBSET Wait,
           NEW parent \in Nat, NEW now \in Nat
    PROVE  LET e == NewInstance(d, r, version, waits, parent, now)
           IN  /\ e \in Tables
               /\ \A q \in Refs : q # r => e.inst[q] = d.inst[q]
               /\ e.inst[r].status = "running" /\ e.inst[r].seq = 0 /\ e.inst[r].parent = parent
               /\ e.tasks = d.tasks /\ e.signals = d.signals /\ e.children = d.children
               /\ e.completed = d.completed
               /\ e.signalCounter = d.signalCounter /\ e.childCounter = d.childCounter
<1> DEFINE i == [status |-> "running", seq |-> 0, version |-> version,
                 waits |-> StampWaits(d, waits, {}), parent |-> parent, createdAt |-> now, updatedAt |-> now]
           E == {e \in d.effects : e.act.ref # r}
           e == NewInstance(d, r, version, waits, parent, now)
<1>1. e \in Tables
  BY NewInstanceSafe DEF Safe
<1>2. e = [d EXCEPT !.inst[r] = i, !.effects = E]
  BY DEF NewInstance
<1>3. i.status = "running" /\ i.seq = 0 /\ i.parent = parent
  OBVIOUS
<1> HIDE DEF i, E, e
<1> QED
  BY <1>1, <1>2, <1>3 DEF Tables, e

\* A run that a client starts.
Begun(d, e, r) ==
    /\ e \in Tables
    /\ \A q \in Refs : q # r => e.inst[q] = d.inst[q]
    /\ e.inst[r].status = "running" /\ e.inst[r].seq = 0 /\ e.inst[r].parent = 0
    /\ e.signals = d.signals /\ e.children = d.children /\ e.completed = d.completed
    /\ e.signalCounter = d.signalCounter /\ e.childCounter = d.childCounter

LEMMA CreateInstanceKeeps ==
    ASSUME NEW d \in Tables, NEW r \in Refs, NEW version \in Nat, NEW waits \in SUBSET Wait, NEW now \in Nat
    PROVE  LET e == CreateInstance(d, r, version, waits, now)
           IN  Begun(d, e, r) /\ \A q \in Refs : Keeps(d, e, q)
<1> DEFINE n == NewInstance(d, r, version, waits, 0, now)
           e == ReplaceTasks(n, r)
<1>1. CreateInstance(d, r, version, waits, now) = e
  BY DEF CreateInstance
<1>2. /\ n \in Tables
      /\ \A q \in Refs : q # r => n.inst[q] = d.inst[q]
      /\ n.inst[r].status = "running" /\ n.inst[r].seq = 0 /\ n.inst[r].parent = 0
      /\ n.tasks = d.tasks /\ n.signals = d.signals /\ n.children = d.children
      /\ n.completed = d.completed
      /\ n.signalCounter = d.signalCounter /\ n.childCounter = d.childCounter
  BY NewInstanceFields
<1> HIDE DEF n
<1>3. /\ e \in Tables
      /\ e.inst = n.inst /\ e.signals = n.signals /\ e.children = n.children
      /\ e.completed = n.completed
      /\ e.signalCounter = n.signalCounter /\ e.childCounter = n.childCounter
  BY <1>2, ReplaceTasksFields
<1>4. ASSUME NEW q \in Refs PROVE Keeps(d, e, q)
  <2>1. CASE q = r
    BY <1>2, <2>1, ReplaceTasksOfRun DEF Keeps
  <2>2. CASE q # r
    <3>1. Inbox(n, q) = Inbox(d, q) /\ Reports(n, q) = Reports(d, q)
      BY <1>2 DEF Inbox, Reports
    <3>2. Keeps(d, n, q)
      BY <1>2, <2>2, <3>1, SameRunKeeps
    <3>3. Keeps(n, e, q)
      BY <1>2, <2>2, ReplaceTasksKeeps
    <3> QED
      BY <3>2, <3>3 DEF Keeps
  <2> QED
    BY <2>1, <2>2
<1> HIDE DEF e
<1>5. Begun(d, e, r)
  BY <1>2, <1>3 DEF Begun
<1> QED
  BY <1>1, <1>4, <1>5

\* A signal that is new.
LEMMA AppendSignalKeeps ==
    ASSUME NEW d \in Tables, NEW r \in Refs, NEW type \in SignalTypes,
           NEW key \in Keys \cup {NoKey}, NEW now \in Nat
    PROVE  LET e == AppendSignal(d, r, type, key, now)
               s == [id |-> d.signalCounter + 1, ref |-> r, type |-> type, key |-> key,
                     at |-> now, consumed |-> 0]
           IN  /\ e \in Tables
               /\ \A q \in Refs : Keeps(d, e, q)
               /\ e.inst = d.inst /\ e.children = d.children /\ e.completed = d.completed
               /\ e.childCounter = d.childCounter
               /\ IF SignalsWithKey(d, r, type, key) # {}
                  THEN e.signals = d.signals /\ e.signalCounter = d.signalCounter
                  ELSE e.signals = d.signals \cup {s} /\ e.signalCounter = d.signalCounter + 1
<1> DEFINE s  == [id |-> d.signalCounter + 1, ref |-> r, type |-> type, key |-> key,
                  at |-> now, consumed |-> 0]
           d1 == [d EXCEPT !.signalCounter = d.signalCounter + 1, !.signals = d.signals \cup {s}]
           f  == RefreshTasks(d1, r, "signal")
           e  == IF SignalsWithKey(d, r, type, key) # {} THEN d ELSE IF Running(d, r) THEN f ELSE d1
<1>1. AppendSignal(d, r, type, key, now) = e
  BY DEF AppendSignal
<1>2. s \in Signal /\ s.ref = r
  BY DEF Tables, Signal
<1>3. d.signalCounter + 1 \in Nat
  BY DEF Tables
<1> HIDE DEF s
<1>4. /\ d1 \in Tables /\ d1.tasks = d.tasks /\ d1.completed = d.completed
      /\ d1.signals = d.signals \cup {s} /\ d1.children = d.children /\ d1.inst = d.inst
      /\ d1.signalCounter = d.signalCounter + 1 /\ d1.childCounter = d.childCounter
  BY <1>2, <1>3 DEF Tables
<1> HIDE DEF d1
<1>5. /\ f \in Tables /\ f.completed = d1.completed
      /\ f.signals = d1.signals /\ f.children = d1.children /\ f.inst = d1.inst
      /\ f.signalCounter = d1.signalCounter /\ f.childCounter = d1.childCounter
  BY <1>4, RefreshTasksFields, RefreshTasksSafe DEF Safe
<1>6. \A q \in Refs : Reports(d1, q) = Reports(d, q)
  BY <1>4 DEF Reports
<1>7. ASSUME NEW q \in Refs, q # r PROVE Keeps(d, d1, q) /\ Keeps(d, f, q)
  <2>1. Inbox(d1, q) = Inbox(d, q)
    BY <1>2, <1>4, <1>7 DEF Inbox
  <2>2. Keeps(d, d1, q)
    BY <1>4, <1>6, <2>1, SameRunKeeps
  <2>3. Keeps(d1, f, q)
    BY <1>4, <1>7, RefreshTasksKeeps
  <2> QED
    BY <2>2, <2>3 DEF Keeps
<1>8. ASSUME Running(d, r) PROVE Keeps(d, f, r)
  <2>1. (Wakes(d, r) => WakesBut(d1, r, "signal")) /\ (Reasons(d, r) => ReasonsBut(d1, r, "signal"))
    BY <1>4, <1>6, AnotherEvent
  <2>2. Running(d1, r)
    BY <1>4, <1>8 DEF Running
  <2> QED
    BY <1>4, <2>1, <2>2, RefreshTasksOfRun DEF Keeps
<1>9. ASSUME ~ Running(d, r) PROVE Keeps(d, d1, r)
  BY <1>4, <1>9 DEF Keeps, Wakes, Reasons, HasReason, Current, Running
<1>10. \A q \in Refs : Keeps(d, e, q)
  <2>1. \A q \in Refs : Keeps(d, d, q)
    BY DEF Keeps
  <2> HIDE DEF f
  <2> QED
    BY <1>7, <1>8, <1>9, <2>1
<1> HIDE DEF f
<1> SUFFICES /\ e \in Tables
             /\ e.inst = d.inst /\ e.children = d.children /\ e.completed = d.completed
             /\ e.childCounter = d.childCounter
             /\ IF SignalsWithKey(d, r, type, key) # {}
                THEN e.signals = d.signals /\ e.signalCounter = d.signalCounter
                ELSE e.signals = d.signals \cup {s} /\ e.signalCounter = d.signalCounter + 1
  BY <1>1, <1>10 DEF s
<1> QED
  BY <1>4, <1>5

-------------------------------------------------------------------------------
(* Child starts. *)

\* A record of a child that is only just started is no report yet.
LEMMA WithRecordKeeps ==
    ASSUME NEW d \in Tables, NEW a \in Activation, NEW start \in ChildStart, NEW r \in Refs
    PROVE  LET e == WithRecord(d, a, start, r)
           IN  /\ e \in Tables
               /\ \A q \in Refs : Keeps(d, e, q)
               /\ e.inst = d.inst /\ e.tasks = d.tasks /\ e.signals = d.signals
               /\ e.completed = d.completed /\ e.signalCounter = d.signalCounter
               /\ e.children = d.children \cup {ChildRecord(d, a, start, r)}
               /\ e.childCounter = d.childCounter + 1
<1> DEFINE x == ChildRecord(d, a, start, r)
           e == [d EXCEPT !.childCounter = d.childCounter + 1, !.children = d.children \cup {x}]
<1>1. x \in Child /\ d.childCounter + 1 \in Nat
  BY ChildRecordType DEF Tables
<1>2. WithRecord(d, a, start, r) = e
  BY DEF WithRecord
<1>3. x.status = "started"
  BY DEF ChildRecord
<1> HIDE DEF x
<1>4. /\ e \in Tables /\ e.tasks = d.tasks /\ e.completed = d.completed
      /\ e.signals = d.signals /\ e.children = d.children \cup {x}
      /\ e.signalCounter = d.signalCounter /\ e.childCounter = d.childCounter + 1
      /\ e.inst = d.inst
  BY <1>1 DEF Tables
<1> HIDE DEF e
<1>5. ASSUME NEW q \in Refs PROVE Keeps(d, e, q)
  <2>1. Inbox(e, q) = Inbox(d, q) /\ Reports(e, q) = Reports(d, q)
    BY <1>3, <1>4 DEF Inbox, Reports
  <2> QED
    BY <1>4, <2>1, SameRunKeeps
<1> QED
  BY <1>2, <1>4, <1>5 DEF x

\* What starting runs, among those named in S that are not there yet, makes of the tables.
StartsRuns(d, e, S) ==
    /\ e \in Tables
    /\ \A q \in Refs : \/ e.inst[q] = d.inst[q]
                       \/ /\ q \in S /\ d.inst[q].status = "absent"
                          /\ e.inst[q].status = "running" /\ e.inst[q].seq = 0
    /\ e.signals = d.signals /\ e.signalCounter = d.signalCounter /\ e.completed = d.completed
    /\ d.childCounter <= e.childCounter
    /\ d.children \subseteq e.children
    /\ \A c \in e.children \ d.children :
         c.id > d.childCounter /\ c.status = "started" /\ c.delivered = 0

LEMMA StartChildKeeps ==
    ASSUME NEW d \in Tables, NEW a \in Activation, NEW start \in ChildStart,
           NEW version \in Nat, NEW waits \in SUBSET Wait, NEW now \in Nat,
           d.inst[start.ref].status = "absent"
    PROVE  LET e == StartChild(d, a, start, version, waits, now)
           IN  StartsRuns(d, e, {start.ref}) /\ \A q \in Refs : Keeps(d, e, q)
<1> DEFINE r  == start.ref
           id == d.childCounter + 1
           d1 == NewInstance(d, r, version, waits, id, now)
           d2 == WithRecord(d1, a, start, r)
           e  == ReplaceTasks(d2, r)
<1>1. /\ r \in Refs /\ id \in Nat /\ d.childCounter \in Nat /\ id > d.childCounter
      /\ d.inst[r].status = "absent"
  BY DEF ChildStart, Tables
<1>2. StartChild(d, a, start, version, waits, now) = e
  BY DEF StartChild
<1> HIDE DEF r, id
<1>3. /\ d1 \in Tables
      /\ \A q \in Refs : q # r => d1.inst[q] = d.inst[q]
      /\ d1.inst[r].status = "running" /\ d1.inst[r].seq = 0
      /\ d1.tasks = d.tasks /\ d1.signals = d.signals /\ d1.children = d.children
      /\ d1.completed = d.completed
      /\ d1.signalCounter = d.signalCounter /\ d1.childCounter = d.childCounter
  BY <1>1, NewInstanceFields
<1> HIDE DEF d1
<1> DEFINE x == ChildRecord(d1, a, start, r)
<1>4. /\ d2 \in Tables
      /\ \A q \in Refs : Keeps(d1, d2, q)
      /\ d2.inst = d1.inst /\ d2.signals = d1.signals
      /\ d2.completed = d1.completed /\ d2.signalCounter = d1.signalCounter
      /\ d2.children = d1.children \cup {x}
      /\ d2.childCounter = d1.childCounter + 1
  BY <1>1, <1>3, WithRecordKeeps
<1>5. x.id = id /\ x.status = "started" /\ x.delivered = 0
  BY <1>3 DEF ChildRecord, id
<1> HIDE DEF x, d2
<1>6. /\ e \in Tables
      /\ e.inst = d2.inst /\ e.signals = d2.signals /\ e.children = d2.children
      /\ e.completed = d2.completed
      /\ e.signalCounter = d2.signalCounter /\ e.childCounter = d2.childCounter
  BY <1>1, <1>4, ReplaceTasksFields
<1>7. ASSUME NEW q \in Refs PROVE Keeps(d, e, q)
  <2>1. CASE q = r
    BY <1>4, <2>1, ReplaceTasksOfRun DEF Keeps
  <2>2. CASE q # r
    <3>1. Inbox(d1, q) = Inbox(d, q) /\ Reports(d1, q) = Reports(d, q)
      BY <1>3 DEF Inbox, Reports
    <3>2. Keeps(d, d1, q)
      BY <1>3, <2>2, <3>1, SameRunKeeps
    <3>3. Keeps(d2, e, q)
      BY <1>1, <1>4, <2>2, ReplaceTasksKeeps
    <3> QED
      BY <1>4, <3>2, <3>3 DEF Keeps
  <2> QED
    BY <2>1, <2>2
<1> HIDE DEF e
<1>8. e.childCounter = id
  BY <1>3, <1>4, <1>6 DEF id
<1>9. StartsRuns(d, e, {r})
  BY <1>1, <1>3, <1>4, <1>5, <1>6, <1>8 DEF StartsRuns
<1> QED
  BY <1>2, <1>7, <1>9 DEF r

LEMMA KeptRunType ==
    ASSUME NEW d \in Tables, NEW start
    PROVE  \A k \in KeptRun(d, start) : k \in Refs /\ k[1] = start.ref[1] /\ d.inst[k].status # "absent"
  BY DEF KeptRun, Latest, LastOf, RunsOf

\* A start that restarts no run: the one it names is new, or the reuse policy keeps a run.
Accepted(d, start) ==
    /\ start.conflict # "terminate_existing"
    /\ d.inst[start.ref].status = "absent" \/ KeptRun(d, start) # {}

LEMMA WriteChildStartKeeps ==
    ASSUME NEW d \in Tables, NEW a \in Activation, NEW start \in ChildStart,
           NEW version \in Nat, NEW waits \in SUBSET Wait, NEW now \in Nat,
           Accepted(d, start)
    PROVE  LET e == WriteChildStart(d, a, start, version, waits, now)
           IN  StartsRuns(d, e, {start.ref}) /\ \A q \in Refs : Keeps(d, e, q)
<1> DEFINE kept == KeptRun(d, start)
           k    == CHOOSE r \in kept : TRUE
           f    == WithRecord(d, a, start, k)
           g    == StartChild(d, a, start, version, waits, now)
<1>1. /\ WriteChildStart(d, a, start, version, waits, now) = IF kept # {} THEN f ELSE g
      /\ kept # {} \/ d.inst[start.ref].status = "absent"
  BY DEF WriteChildStart, Accepted
<1>2. ASSUME kept # {} PROVE StartsRuns(d, f, {start.ref}) /\ \A q \in Refs : Keeps(d, f, q)
  <2>1. k \in Refs
    BY <1>2, KeptRunType
  <2> DEFINE x == ChildRecord(d, a, start, k)
  <2>2. x.id = d.childCounter + 1 /\ x.status = "started" /\ x.delivered = 0 /\ d.childCounter \in Nat
    BY DEF ChildRecord, Tables
  <2> HIDE DEF k
  <2>3. /\ f \in Tables
        /\ \A q \in Refs : Keeps(d, f, q)
        /\ f.inst = d.inst /\ f.signals = d.signals
        /\ f.completed = d.completed /\ f.signalCounter = d.signalCounter
        /\ f.children = d.children \cup {x}
        /\ f.childCounter = d.childCounter + 1
    BY <2>1, WithRecordKeeps
  <2> HIDE DEF f, x
  <2> QED
    BY <2>2, <2>3 DEF StartsRuns
<1>3. ASSUME kept = {} PROVE StartsRuns(d, g, {start.ref}) /\ \A q \in Refs : Keeps(d, g, q)
  BY <1>1, <1>3, StartChildKeeps
<1> HIDE DEF f, g, kept
<1> QED
  BY <1>1, <1>2, <1>3

LEMMA StartsTransitive ==
    ASSUME NEW d \in Tables, NEW e, NEW f, NEW S, NEW T, StartsRuns(d, e, S), StartsRuns(e, f, T)
    PROVE  StartsRuns(d, f, S \cup T)
<1>1. e \in Tables /\ f \in Tables /\ d.childCounter \in Nat /\ e.childCounter \in Nat /\ f.childCounter \in Nat
  BY DEF StartsRuns, Tables
<1>2. \A c \in e.children \cup f.children : c.id \in Nat
  BY <1>1 DEF Tables, Child
<1> QED
  BY <1>1, <1>2 DEF StartsRuns

LEMMA StartsNone == ASSUME NEW d \in Tables PROVE StartsRuns(d, d, {})
  BY DEF StartsRuns, Tables

LEMMA StartedKeeps ==
    ASSUME NEW d \in Tables, NEW c \in Claim, NEW start \in ChildStart, NEW now \in Nat,
           Accepted(d, start)
    PROVE  LET e == Started(d, c, start, now)
           IN  StartsRuns(d, e, {start.ref}) /\ \A q \in Refs : Keeps(d, e, q)
<1>1. start.ref \in Refs /\ start.at \in Nat
  BY DEF ChildStart
<1>2. Materialize(InitialWaits[start.ref[1]], start.at, start.at) \in SUBSET Wait
  BY <1>1, InitialWaitsType
<1>3. c.act \in Activation /\ VersionOf[c.worker] \in Nat
  BY VersionOfType, ClaimFields
<1> QED
  BY <1>2, <1>3, WriteChildStartKeeps DEF Started

\* A start is still accepted when another run has started, or when a run of another id, or any
\* run if it is always to be a new one, has advanced.
LEMMA AcceptedAfterStart ==
    ASSUME NEW d \in Tables, NEW e, NEW start \in ChildStart, NEW q \in Refs, q # start.ref,
           StartsRuns(d, e, {q}), Accepted(d, start)
    PROVE  Accepted(e, start)
<1> DEFINE id == start.ref[1]
<1>1. /\ start.ref \in Refs /\ \A k \in Refs \ {q} : e.inst[k] = d.inst[k]
      /\ e.inst[q] = d.inst[q] \/ (d.inst[q].status = "absent" /\ e.inst[q].status = "running")
  BY DEF StartsRuns, ChildStart
<1>2. CASE d.inst[start.ref].status = "absent"
  BY <1>1, <1>2 DEF Accepted
<1>3. ASSUME NEW k \in KeptRun(d, start) PROVE KeptRun(e, start) # {}
  <2>1. /\ k \in RunsOf(d, id) /\ \A o \in RunsOf(d, id) : RunOrder(d, o, k)
        /\ ~ ShouldCreate(start.reuse, d.inst[k].status)
    BY DEF KeptRun, Latest, LastOf
  <2>2. start.reuse # "always" /\ start.reuse \in ReusePolicies
    BY <2>1 DEF ShouldCreate, ChildStart
  <2>3. ~ ShouldCreate(start.reuse, "running")
    BY <2>2 DEF ShouldCreate, ReusePolicies
  <2>4. \A o \in Refs : e.inst[o].createdAt \in Nat /\ d.inst[o].createdAt \in Nat /\ o[2] \in Nat
    <3>1. \A o \in Refs : e.inst[o] \in Instance /\ d.inst[o] \in Instance /\ o[2] \in RunIds
      BY DEF StartsRuns, Tables, Refs
    <3> QED
      BY <3>1, NumberAssumption DEF Instance
  <2>5. k \in Refs /\ RunsOf(d, id) \subseteq Refs
    BY <2>1 DEF RunsOf
  <2>6. CASE RunsOf(e, id) = RunsOf(d, id) /\ \A o \in RunsOf(d, id) : e.inst[o] = d.inst[o]
    <3>1. \A o \in RunsOf(e, id) : RunOrder(e, o, k)
      BY <2>1, <2>6 DEF RunOrder
    <3>2. k \in KeptRun(e, start)
      BY <2>1, <2>6, <3>1 DEF KeptRun, Latest, LastOf
    <3> QED
      BY <3>2
  <2>7. CASE /\ q \in RunsOf(e, id) /\ q \notin RunsOf(d, id) /\ e.inst[q].status = "running"
             /\ RunsOf(e, id) = RunsOf(d, id) \cup {q} /\ \A o \in RunsOf(d, id) : e.inst[o] = d.inst[o]
    <3>1. \A o \in RunsOf(d, id) : RunOrder(e, o, k)
      BY <2>1, <2>7 DEF RunOrder
    <3>2. RunOrder(e, q, k) \/ RunOrder(e, k, q)
      BY <2>4, <2>5 DEF RunOrder
    <3>3. CASE RunOrder(e, q, k)
      <4>1. k \in KeptRun(e, start)
        BY <2>1, <2>7, <3>1, <3>3 DEF KeptRun, Latest, LastOf
      <4> QED
        BY <4>1
    <3>4. CASE RunOrder(e, k, q)
      <4>1. \A o \in RunsOf(d, id) : RunOrder(e, o, q)
        BY <2>4, <2>5, <3>1, <3>4 DEF RunOrder
      <4>2. RunOrder(e, q, q)
        BY <2>4 DEF RunOrder
      <4>3. q \in KeptRun(e, start)
        BY <2>3, <2>7, <4>1, <4>2 DEF KeptRun, Latest, LastOf
      <4> QED
        BY <4>3
    <3> QED
      BY <3>2, <3>3, <3>4
  <2> QED
    BY <1>1, <2>6, <2>7 DEF RunsOf
<1> QED
  BY <1>2, <1>3 DEF Accepted

LEMMA AcceptedAfterAdvance ==
    ASSUME NEW d \in Tables, NEW e, NEW start \in ChildStart, NEW r \in Refs, Running(d, r),
           \A q \in Refs : q # r => e.inst[q] = d.inst[q],
           start.reuse # "always" => start.ref[1] # r[1], Accepted(d, start)
    PROVE  Accepted(e, start)
<1> DEFINE id == start.ref[1]
<1>1. start.ref \in Refs
  BY DEF ChildStart
<1>2. CASE d.inst[start.ref].status = "absent"
  BY <1>1, <1>2 DEF Accepted, Running
<1>3. ASSUME NEW k \in KeptRun(d, start) PROVE KeptRun(e, start) # {}
  <2>1. /\ k \in RunsOf(d, id) /\ \A o \in RunsOf(d, id) : RunOrder(d, o, k)
        /\ ~ ShouldCreate(start.reuse, d.inst[k].status)
    BY DEF KeptRun, Latest, LastOf
  <2>2. r[1] # id
    BY <2>1 DEF ShouldCreate
  <2>3. RunsOf(e, id) = RunsOf(d, id) /\ \A o \in RunsOf(d, id) : e.inst[o] = d.inst[o]
    BY <2>2 DEF RunsOf
  <2>4. \A o \in RunsOf(e, id) : RunOrder(e, o, k)
    BY <2>1, <2>3 DEF RunOrder
  <2>5. k \in KeptRun(e, start)
    BY <2>1, <2>3, <2>4 DEF KeptRun, Latest, LastOf
  <2> QED
    BY <2>5
<1> QED
  BY <1>2, <1>3 DEF Accepted

Distinct(starts) == \A k, l \in DOMAIN starts : k # l => starts[k].ref # starts[l].ref

LEMMA StartedAllKeeps ==
    ASSUME NEW d \in Tables, NEW c \in Claim, NEW starts \in Seq(ChildStart), Len(starts) <= 2, NEW now \in Nat,
           Distinct(starts), \A i \in DOMAIN starts : Accepted(d, starts[i])
    PROVE  LET e == StartedAll(d, c, starts, now)
           IN  /\ StartsRuns(d, e, {starts[i].ref : i \in DOMAIN starts})
               /\ \A q \in Refs : Keeps(d, e, q)
<1> DEFINE S == {starts[i].ref : i \in DOMAIN starts}
<1>1. /\ Len(starts) \in Nat /\ DOMAIN starts = 1..Len(starts)
      /\ \A i \in 1..Len(starts) : starts[i] \in ChildStart
  OBVIOUS
<1>2. CASE Len(starts) = 0
  <2>1. StartedAll(d, c, starts, now) = d /\ S = {}
    BY <1>2, <1>1 DEF StartedAll
  <2> QED
    BY <2>1, StartsNone DEF Keeps
<1>3. CASE Len(starts) = 1
  <2>1. /\ StartedAll(d, c, starts, now) = Started(d, c, starts[1], now)
        /\ starts[1] \in ChildStart /\ Accepted(d, starts[1]) /\ S = {starts[1].ref}
    <3>1. DOMAIN starts = {1}
      BY <1>3, <1>1
    <3> QED
      BY <1>3, <1>1, <3>1 DEF StartedAll, Distinct
  <2> QED
    BY <2>1, StartedKeeps
<1>4. CASE Len(starts) = 2
  <2> DEFINE e == Started(d, c, starts[1], now)
             f == Started(e, c, starts[2], now)
  <2>1. /\ StartedAll(d, c, starts, now) = f
        /\ starts[1] \in ChildStart /\ starts[2] \in ChildStart
        /\ Accepted(d, starts[1]) /\ Accepted(d, starts[2]) /\ starts[1].ref # starts[2].ref
        /\ S = {starts[1].ref} \cup {starts[2].ref}
    <3>1. DOMAIN starts = {1, 2}
      BY <1>4, <1>1
    <3> QED
      BY <1>4, <1>1, <3>1 DEF StartedAll, Distinct
  <2>2. StartsRuns(d, e, {starts[1].ref}) /\ \A q \in Refs : Keeps(d, e, q)
    BY <2>1, StartedKeeps
  <2>3. e \in Tables /\ starts[1].ref \in Refs
    BY <2>1, <2>2 DEF StartsRuns, ChildStart
  <2> HIDE DEF e
  <2>4. StartsRuns(e, f, {starts[2].ref}) /\ \A q \in Refs : Keeps(e, f, q)
    <3>1. Accepted(e, starts[2])
      BY <2>1, <2>2, <2>3, AcceptedAfterStart
    <3> QED
      BY <2>1, <2>3, <3>1, StartedKeeps
  <2> HIDE DEF f
  <2>5. StartsRuns(d, f, S)
    BY <2>1, <2>2, <2>4, StartsTransitive
  <2> QED
    BY <2>1, <2>2, <2>4, <2>5 DEF Keeps
<1>5. \A n \in Nat : n <= 2 => n = 0 \/ n = 1 \/ n = 2
  OBVIOUS
<1> QED
  BY <1>2, <1>3, <1>4, <1>5, <1>1

-------------------------------------------------------------------------------
(* Children that close. *)

\* The tables with other records of the children of a run, whose child tasks are rebuilt next
\* if it is going.
LEMMA ReportKeeps ==
    ASSUME NEW d \in Tables, NEW e \in Tables, NEW p \in Refs,
           e.inst = d.inst, e.tasks = d.tasks, e.signals = d.signals,
           \A q \in Refs : q # p => Reports(e, q) = Reports(d, q)
    PROVE  /\ Running(d, p) \/ d.inst[p].waits = {} =>
                  \A q \in Refs : Keeps(d, RefreshTasks(e, p, "child"), q)
           /\ ~ Running(d, p) => \A q \in Refs : Keeps(d, e, q)
<1> DEFINE f == RefreshTasks(e, p, "child")
<1>1. \A q \in Refs : Inbox(e, q) = Inbox(d, q)
  BY DEF Inbox
<1>2. \A q \in Refs : q # p => Keeps(d, e, q)
  BY <1>1, SameRunKeeps
<1>3. \A q \in Refs : q # p => Keeps(e, f, q)
  BY RefreshTasksKeeps
<1>4. ASSUME Running(d, p) \/ d.inst[p].waits = {} PROVE Keeps(d, f, p)
  <2>1. (Wakes(d, p) => WakesBut(e, p, "child")) /\ (Reasons(d, p) => ReasonsBut(e, p, "child"))
    BY <1>1, AnotherEvent
  <2>2. Running(e, p) \/ e.inst[p].waits = {}
    BY <1>4 DEF Running
  <2> QED
    BY <2>1, <2>2, RefreshTasksOfRun DEF Keeps
<1>5. ASSUME ~ Running(d, p) PROVE Keeps(d, e, p)
  BY <1>5 DEF Keeps, Wakes, Reasons, HasReason, Current, Running
<1> HIDE DEF f
<1>6. Running(d, p) \/ d.inst[p].waits = {} => \A q \in Refs : Keeps(d, f, q)
  BY <1>2, <1>3, <1>4 DEF Keeps
<1> QED
  BY <1>2, <1>5, <1>6 DEF f

\* The records D are the records C, some of which have closed, a few with the sequences given.
SameChild(c, f) ==
    f.id = c.id /\ f.parent = c.parent /\ f.act = c.act /\ f.key = c.key /\ f.ref = c.ref /\ f.policy = c.policy
Closing(C, D, seqs) ==
    /\ \A c \in C : \E f \in D : SameChild(c, f) /\ (c.status # "started" => f = c)
    /\ \A f \in D : \E c \in C : /\ SameChild(c, f)
                                 /\ c.status # "started" => f = c
                                 /\ f = c \/ f.status # "started"
                                 /\ f.delivered \in {c.delivered} \cup seqs

LEMMA ClosingNone == ASSUME NEW C, NEW seqs PROVE Closing(C, C, seqs)
  BY DEF Closing, SameChild

LEMMA UpdateParentRecordKeeps ==
    ASSUME NEW d \in Tables, NEW previous \in Instance, NEW next, NEW now \in Nat,
           Numbered(d.children, d.childCounter), StoppedWaitForNothing(d.inst)
    PROVE  LET e == UpdateParentRecord(d, previous, next, now)
           IN  /\ e \in Tables
               /\ \A q \in Refs : Keeps(d, e, q)
               /\ e.inst = d.inst /\ e.signals = d.signals /\ e.completed = d.completed
               /\ e.signalCounter = d.signalCounter /\ e.childCounter = d.childCounter
               /\ Closing(d.children, e.children, {})
<1> DEFINE mine == {c \in d.children : c.id = previous.parent}
           outcome == IF next = "completed" THEN "completed" ELSE "failed"
           closed(c) == IF c \in mine /\ c.status = "started" THEN [c EXCEPT !.status = outcome, !.completedAt = now] ELSE c
           C  == {closed(c) : c \in d.children}
           d1 == [d EXCEPT !.children = C]
           x  == CHOOSE c \in mine : TRUE
           p  == x.parent
           f  == RefreshTasks(d1, p, "child")
           e  == UpdateParentRecord(d, previous, next, now)
<1> SUFFICES /\ e \in Tables
             /\ \A q \in Refs : Keeps(d, e, q)
             /\ e.inst = d.inst /\ e.signals = d.signals /\ e.completed = d.completed
             /\ e.signalCounter = d.signalCounter /\ e.childCounter = d.childCounter
             /\ Closing(d.children, e.children, {})
  OBVIOUS
<1>1. e = IF next = "running" \/ mine = {} THEN d ELSE f
  BY DEF UpdateParentRecord
<1>2. \A c \in d.children : /\ closed(c) \in Child /\ SameChild(c, closed(c))
                            /\ closed(c).delivered = c.delivered
                            /\ c \notin mine \/ c.status # "started" => closed(c) = c
                            /\ closed(c) = c \/ closed(c).status # "started"
  <2>1. d.children \in SUBSET Child
    BY DEF Tables
  <2> QED
    BY <2>1 DEF Child, SameChild
<1> HIDE DEF closed
<1>3. C \in SUBSET Child /\ Closing(d.children, C, {})
  BY <1>2 DEF Closing
<1>4. CASE next = "running" \/ mine = {}
  <2>1. e = d
    BY <1>1, <1>4
  <2> HIDE DEF e
  <2> QED
    BY <2>1, ClosingNone DEF Keeps
<1>5. CASE ~ (next = "running" \/ mine = {})
  <2>1. x \in mine
    BY <1>5
  <2>2. mine = {x}
    BY <2>1 DEF Numbered
  <2>3. p \in Refs
    <3>1. x \in Child
      BY <2>1 DEF Tables
    <3> QED
      BY <3>1 DEF Child
  <2> HIDE DEF x, p, mine
  <2>4. ASSUME NEW q \in Refs, q # p, NEW c \in d.children, c.parent = q PROVE closed(c) = c
    BY <1>2, <2>2, <2>4 DEF p
  <2>5. \A c \in d.children : closed(c).parent = c.parent
    BY <1>2 DEF SameChild
  <2>6. ASSUME NEW q \in Refs, q # p
        PROVE  {c \in C : c.parent = q} = {c \in d.children : c.parent = q}
    BY <2>4, <2>5, <2>6
  <2> HIDE DEF C
  <2>7. /\ d1 \in Tables /\ d1.tasks = d.tasks /\ d1.inst = d.inst /\ d1.signals = d.signals
        /\ d1.children = C /\ d1.completed = d.completed
        /\ d1.signalCounter = d.signalCounter /\ d1.childCounter = d.childCounter
    BY <1>3 DEF Tables
  <2> HIDE DEF d1
  <2>8. \A q \in Refs : q # p => Reports(d1, q) = Reports(d, q)
    BY <2>6, <2>7 DEF Reports
  <2>9. Running(d, p) \/ d.inst[p].waits = {}
    BY <2>3 DEF StoppedWaitForNothing, Running
  <2>10. \A q \in Refs : Keeps(d, f, q)
    BY <2>3, <2>7, <2>8, <2>9, ReportKeeps
  <2>11. /\ f \in Tables /\ f.inst = d1.inst /\ f.signals = d1.signals /\ f.children = d1.children
         /\ f.completed = d1.completed
         /\ f.signalCounter = d1.signalCounter /\ f.childCounter = d1.childCounter
    BY <2>3, <2>7, RefreshTasksFields
  <2>12. e = f
    BY <1>1, <1>5
  <2> HIDE DEF e, f
  <2> QED
    BY <1>3, <2>7, <2>10, <2>11, <2>12
<1> QED
  BY <1>4, <1>5

\* The runs above a run: those above the run of a record that is canceled with its parent are
\* above the run of the record, and more records have as many above.
LEMMA LineageUp ==
    ASSUME NEW d, NEW r \in Refs, NEW x \in d.children, x.policy = "cancel", x.ref \in Refs,
           r \in Lineage(d, x.parent)
    PROVE  r \in Lineage(d, x.ref)
<1> SUFFICES ASSUME NEW S \in SUBSET Refs, x.ref \in S,
                    \A y \in d.children : y.policy = "cancel" /\ y.ref \in S => y.parent \in S
             PROVE  r \in S
  BY DEF Lineage
<1>1. x.parent \in S
  OBVIOUS
<1> QED
  BY <1>1 DEF Lineage

LEMMA LineageGrows ==
    ASSUME NEW d, NEW e, NEW r, \A x \in d.children : \E f \in e.children : SameChild(x, f)
    PROVE  Lineage(d, r) \subseteq Lineage(e, r)
<1> SUFFICES ASSUME NEW q \in Lineage(d, r), NEW S \in SUBSET Refs, r \in S,
                    \A y \in e.children : y.policy = "cancel" /\ y.ref \in S => y.parent \in S
             PROVE  q \in S
  BY DEF Lineage
<1>1. \A y \in d.children : y.policy = "cancel" /\ y.ref \in S => y.parent \in S
  BY DEF SameChild
<1> QED
  BY <1>1 DEF Lineage

\* The records that closing a run reaches are of the runs below it.
LEMMA ClosedBelow ==
    ASSUME NEW d \in Tables, NEW r, NEW c \in ClosedWith(d, r)
    PROVE  r \in Lineage(d, c.parent)
<1> DEFINE open  == {x \in d.children : x.status = "started"}
           below == {x \in open : r \in Lineage(d, x.parent)}
<1>1. \A x \in d.children : x.parent \in Refs /\ x.ref \in Refs
  BY DEF Tables, Child
<1>2. \A x \in open : x.parent = r => x \in below
  BY <1>1 DEF Lineage
<1>3. ASSUME NEW x \in open, NEW y \in below, y.policy = "cancel", y.ref = x.parent PROVE x \in below
  <2>1. r \in Refs /\ y \in d.children /\ y.ref \in Refs /\ r \in Lineage(d, y.parent)
    BY <1>1 DEF Lineage
  <2>2. r \in Lineage(d, y.ref)
    BY <1>3, <2>1, LineageUp
  <2> QED
    BY <1>3, <2>2
<1>4. \A x \in open : x.parent = r \/ (\E y \in below : y.policy = "cancel" /\ y.ref = x.parent) => x \in below
  BY <1>2, <1>3
<1>5. below \in SUBSET open
  OBVIOUS
<1> HIDE DEF below
<1>6. c \in below
  BY <1>4, <1>5 DEF ClosedWith
<1> QED
  BY <1>6 DEF below

\* A child that is closed with its parent leaves no task and no report.
LEMMA ApplyClosePolicyKeeps ==
    ASSUME NEW d \in Tables, NEW r, NEW next, NEW seq \in Nat \ {0}, NEW now \in Nat
    PROVE  LET e == ApplyClosePolicy(d, r, next, seq, now)
           IN  /\ e \in Tables
               /\ \A q \in Refs : Keeps(d, e, q)
               /\ \A q \in Refs :
                    \/ e.inst[q] = d.inst[q]
                    \/ /\ next \in {"failed", "canceled"} /\ Running(d, q)
                       /\ e.inst[q].status = "canceled" /\ e.inst[q].seq = d.inst[q].seq
                       /\ e.inst[q].version = d.inst[q].version
               /\ e.signals = d.signals /\ e.completed = d.completed
               /\ e.signalCounter = d.signalCounter /\ e.childCounter = d.childCounter
               /\ Closing(d.children, e.children, IF next \in {"failed", "canceled"} THEN {seq} ELSE {})
               /\ \A f \in e.children : \/ f \in d.children
                                        \/ next \in {"failed", "canceled"} /\ r \in Lineage(d, f.parent)
               /\ next \in {"failed", "canceled"} =>
                    \A q \in Refs : q = r \/ e.inst[q] # d.inst[q] => OpenUnder(e, q) = {}
<1> DEFINE hit    == ClosedWith(d, r)
           killed == {c.ref : c \in {x \in hit : x.policy = "cancel" /\ Running(d, x.ref)}}
           close(c) == IF c.policy = "abandon" THEN [c EXCEPT !.status = "abandoned", !.delivered = seq]
                       ELSE [c EXCEPT !.status = "failed", !.completedAt = now, !.delivered = seq]
           settled(c) == IF c \in hit THEN close(c) ELSE c
           inst(q) == IF q \in killed THEN [d.inst[q] EXCEPT !.status = "canceled", !.waits = {}, !.updatedAt = now] ELSE d.inst[q]
           C  == {settled(c) : c \in d.children}
           I  == [q \in Refs |-> inst(q)]
           gone == {t \in d.tasks : t.act.ref \in killed}
           d1 == DeleteTasks(d, gone)
           e  == [d1 EXCEPT !.children = C, !.inst = I]
<1>1. /\ d1 \in Tables /\ d1.tasks = d.tasks \ gone
      /\ d1.inst = d.inst /\ d1.signals = d.signals /\ d1.children = d.children
      /\ d1.completed = d.completed
      /\ d1.signalCounter = d.signalCounter /\ d1.childCounter = d.childCounter
  BY DeleteTasksFields
<1>2. ApplyClosePolicy(d, r, next, seq, now) = IF next \notin {"failed", "canceled"} THEN d ELSE e
  BY <1>1 DEF ApplyClosePolicy
<1>3. \A c \in hit : c \in d.children /\ c.status = "started"
  BY DEF ClosedWith
<1>4. \A q \in killed : Running(d, q)
  OBVIOUS
<1>5. \A c \in d.children : c.status = "started" /\ (c.parent = r \/ c.parent \in killed) => c \in hit
  BY DEF ClosedWith
<1> HIDE DEF d1, hit, killed
<1>6. \A c \in d.children : /\ settled(c) \in Child /\ SameChild(c, settled(c))
                            /\ settled(c).delivered \in {c.delivered, seq}
                            /\ c \notin hit => settled(c) = c
                            /\ c \in hit => settled(c).delivered # 0 /\ settled(c).status # "started"
  <2>1. d.children \in SUBSET Child
    BY DEF Tables
  <2> QED
    BY <2>1 DEF Child, SameChild
<1>7. \A q \in Refs : /\ inst(q) \in Instance
                      /\ q \notin killed => inst(q) = d.inst[q]
                      /\ q \in killed => /\ inst(q).status = "canceled" /\ inst(q).seq = d.inst[q].seq
                                         /\ inst(q).version = d.inst[q].version
  <2>1. ASSUME NEW q \in Refs
        PROVE  LET k == [d.inst[q] EXCEPT !.status = "canceled", !.waits = {}, !.updatedAt = now]
               IN  /\ k \in Instance /\ k.status = "canceled" /\ k.seq = d.inst[q].seq
                   /\ k.version = d.inst[q].version /\ d.inst[q] \in Instance
    <3>1. d.inst[q] \in Instance
      BY InstanceFields
    <3> QED
      BY <3>1 DEF Instance, Closed
  <2> QED
    BY <2>1
<1> HIDE DEF settled, inst
<1>8. C \in SUBSET Child /\ I \in [Refs -> Instance] /\ \A q \in Refs : I[q] = inst(q)
  BY <1>6, <1>7
<1>9. Closing(d.children, C, {seq})
  BY <1>3, <1>6 DEF Closing
<1>91. \A f \in C : f \in d.children \/ r \in Lineage(d, f.parent)
  <2>1. \A c \in hit : r \in Lineage(d, c.parent)
    BY ClosedBelow DEF hit
  <2> QED
    BY <1>6, <2>1 DEF SameChild
<1>10. ASSUME NEW f \in C, f.status = "started" PROVE f.parent # r /\ f.parent \notin killed
  BY <1>5, <1>6, <1>10
<1>11. \A q \in Refs : {c \in C : c.parent = q /\ c.status # "started" /\ c.delivered = 0} = Reports(d, q)
  <2>1. ASSUME NEW q \in Refs, NEW c \in C, c.parent = q, c.status # "started", c.delivered = 0
        PROVE  c \in Reports(d, q)
    BY <1>6, <2>1 DEF Reports
  <2>2. ASSUME NEW q \in Refs, NEW c \in Reports(d, q)
        PROVE  c \in C /\ c.parent = q /\ c.status # "started" /\ c.delivered = 0
    BY <1>3, <1>6, <2>2 DEF Reports
  <2> QED
    BY <2>1, <2>2
<1> HIDE DEF C, I
<1>12. /\ e \in Tables /\ e.tasks = d1.tasks /\ e.inst = I /\ e.children = C
       /\ e.signals = d1.signals /\ e.completed = d1.completed
       /\ e.signalCounter = d1.signalCounter /\ e.childCounter = d1.childCounter
  BY <1>1, <1>8 DEF Tables
<1> HIDE DEF e
<1>13. ASSUME NEW q \in Refs, q \in killed PROVE Keeps(d, e, q)
  BY <1>1, <1>7, <1>8, <1>12, <1>13 DEF Keeps, Wakes, Reasons, Running
<1>14. ASSUME NEW q \in Refs, q \notin killed PROVE Keeps(d, e, q)
  <2>1. Inbox(e, q) = Inbox(d, q) /\ Reports(e, q) = Reports(d, q)
    BY <1>1, <1>11, <1>12 DEF Inbox, Reports
  <2>2. e.inst[q] = d.inst[q]
    BY <1>7, <1>8, <1>12, <1>14
  <2>3. \A t : t.act.ref = q => (t \in e.tasks <=> t \in d.tasks)
    BY <1>1, <1>12, <1>14
  <2> QED
    BY <1>12, <2>1, <2>2, <2>3, SameRunKeeps
<1>15. \A q \in Refs : q = r \/ e.inst[q] # d.inst[q] => OpenUnder(e, q) = {}
  BY <1>1, <1>7, <1>8, <1>12, <1>10 DEF OpenUnder
<1>16. CASE next \notin {"failed", "canceled"}
  BY <1>2, <1>16, ClosingNone DEF Keeps
<1>17. CASE next \in {"failed", "canceled"}
  BY <1>1, <1>2, <1>15, <1>4, <1>7, <1>8, <1>9, <1>91, <1>12, <1>13, <1>14, <1>17
<1> QED
  BY <1>16, <1>17

LEMMA CancelChildRunKeeps ==
    ASSUME NEW d \in Tables, NEW p \in Refs, NEW r \in Refs, NEW now \in Nat
    PROVE  LET e == CancelChildRun(d, p, r, now)
           IN  /\ e \in Tables
               /\ \A q \in Refs : Keeps(d, e, q)
               /\ \A q \in Refs :
                    \/ e.inst[q] = d.inst[q]
                    \/ /\ q = r /\ Running(d, r)
                       /\ e.inst[q].status = "canceled" /\ e.inst[q].seq = d.inst[q].seq
                       /\ e.inst[q].version = d.inst[q].version
               /\ e.signals = d.signals /\ e.completed = d.completed
               /\ e.signalCounter = d.signalCounter /\ e.childCounter = d.childCounter
               /\ Closing(d.children, e.children, {})
<1> DEFINE started == {x \in d.children : x.parent = p /\ x.ref = r /\ x.status = "started"}
           first   == {x \in started : \A y \in started : x.id <= y.id}
           i       == [d.inst[r] EXCEPT !.status = "canceled", !.waits = {}, !.updatedAt = now]
           closed  == [d EXCEPT !.inst[r] = i]
           gone    == TasksOf(d, r)
           d1 == IF Running(d, r) THEN DeleteTasks(closed, gone) ELSE d
           failed(x) == IF x \in first THEN [x EXCEPT !.status = "failed", !.completedAt = now] ELSE x
           C  == {failed(x) : x \in d1.children}
           d2 == [d1 EXCEPT !.children = C]
           f  == RefreshTasks(d2, p, "child")
           e  == IF started = {} THEN d ELSE IF Running(d2, p) THEN f ELSE d2
<1>1. CancelChildRun(d, p, r, now) = e
  BY DEF CancelChildRun
<1>2. \A x \in first : x \in d.children /\ x.parent = p /\ x.status = "started"
  OBVIOUS
<1>3. /\ i \in Instance /\ i.status = "canceled" /\ i.seq = d.inst[r].seq /\ i.version = d.inst[r].version
  <2>1. d.inst[r] \in Instance
    BY InstanceFields
  <2> QED
    BY <2>1 DEF Instance, Closed
<1>4. \A t \in gone : t.act.ref = r
  BY DEF TasksOf
<1>5. \A t \in d.tasks \ gone : t.act.ref # r
  BY DEF TasksOf
<1> HIDE DEF first, i, gone
<1>6. /\ closed \in Tables /\ closed.tasks = d.tasks /\ closed.inst = [d.inst EXCEPT ![r] = i]
      /\ closed.signals = d.signals /\ closed.children = d.children /\ closed.completed = d.completed
      /\ closed.signalCounter = d.signalCounter /\ closed.childCounter = d.childCounter
  BY <1>3 DEF Tables
<1> HIDE DEF closed
<1>7. LET g == DeleteTasks(closed, gone)
      IN  /\ g \in Tables /\ g.tasks = closed.tasks \ gone /\ g.inst = closed.inst
          /\ g.signals = closed.signals /\ g.children = closed.children /\ g.completed = closed.completed
          /\ g.signalCounter = closed.signalCounter /\ g.childCounter = closed.childCounter
  BY <1>6, DeleteTasksFields
<1>8. /\ d1 \in Tables
      /\ d1.signals = d.signals /\ d1.children = d.children /\ d1.completed = d.completed
      /\ d1.signalCounter = d.signalCounter /\ d1.childCounter = d.childCounter
  BY <1>6, <1>7
<1>9. Running(d, r) => d1.tasks = d.tasks \ gone /\ d1.inst = [d.inst EXCEPT ![r] = i]
  BY <1>6, <1>7
<1>10. ~ Running(d, r) => d1.tasks = d.tasks /\ d1.inst = d.inst
  OBVIOUS
<1> HIDE DEF d1
<1>11. \A q \in Refs : Inbox(d1, q) = Inbox(d, q) /\ Reports(d1, q) = Reports(d, q)
  BY <1>8 DEF Inbox, Reports
<1>12. \A q \in Refs : d1.inst[q] = IF q = r /\ Running(d, r) THEN i ELSE d.inst[q]
  BY <1>3, <1>9, <1>10 DEF Tables
<1>13. ASSUME NEW q \in Refs PROVE Keeps(d, d1, q)
  <2>1. CASE q = r /\ Running(d, r)
    BY <1>3, <1>5, <1>9, <1>12, <2>1 DEF Keeps, Wakes, Reasons, Running
  <2>2. CASE ~ (q = r /\ Running(d, r))
    <3>1. \A t : t.act.ref = q => (t \in d1.tasks <=> t \in d.tasks)
      BY <1>4, <1>9, <1>10, <2>2
    <3> QED
      BY <1>8, <1>11, <1>12, <2>2, <3>1, SameRunKeeps
  <2> QED
    BY <2>1, <2>2
<1>14. \A x \in d1.children : /\ failed(x) \in Child /\ SameChild(x, failed(x))
                              /\ failed(x).delivered = x.delivered
                              /\ x \notin first => failed(x) = x
                              /\ failed(x) = x \/ failed(x).status # "started"
  <2>1. d1.children \in SUBSET Child
    BY <1>8 DEF Tables
  <2> QED
    BY <2>1 DEF Child, SameChild
<1> HIDE DEF failed
<1>15. C \in SUBSET Child /\ Closing(d1.children, C, {})
  BY <1>2, <1>8, <1>14 DEF Closing
<1>16. ASSUME NEW q \in Refs, q # p
       PROVE  {x \in C : x.parent = q} = {x \in d1.children : x.parent = q}
  <2>1. ASSUME NEW x \in d1.children, x.parent = q PROVE failed(x) = x
    BY <1>2, <1>8, <1>14, <1>16, <2>1
  <2>2. \A x \in d1.children : failed(x).parent = x.parent
    BY <1>14 DEF SameChild
  <2> QED
    BY <2>1, <2>2
<1> HIDE DEF C
<1>17. /\ d2 \in Tables /\ d2.tasks = d1.tasks /\ d2.inst = d1.inst /\ d2.signals = d1.signals
       /\ d2.children = C /\ d2.completed = d1.completed
       /\ d2.signalCounter = d1.signalCounter /\ d2.childCounter = d1.childCounter
  BY <1>8, <1>15 DEF Tables
<1> HIDE DEF d2
<1>18. \A q \in Refs : q # p => Reports(d2, q) = Reports(d1, q)
  BY <1>16, <1>17 DEF Reports
<1>19. Running(d2, p) <=> Running(d1, p)
  BY <1>17 DEF Running
<1>20. /\ Running(d2, p) => \A q \in Refs : Keeps(d1, f, q)
       /\ ~ Running(d2, p) => \A q \in Refs : Keeps(d1, d2, q)
  BY <1>8, <1>17, <1>18, <1>19, ReportKeeps
<1>21. /\ f \in Tables /\ f.inst = d2.inst /\ f.signals = d2.signals /\ f.children = d2.children
       /\ f.completed = d2.completed
       /\ f.signalCounter = d2.signalCounter /\ f.childCounter = d2.childCounter
  BY <1>17, RefreshTasksFields
<1> HIDE DEF f
<1>22. CASE started = {}
  <2>1. e = d
    BY <1>22
  <2> HIDE DEF e
  <2> QED
    BY <1>1, <2>1, ClosingNone DEF Keeps
<1>23. CASE started # {}
  <2>1. e = IF Running(d2, p) THEN f ELSE d2
    BY <1>23
  <2> HIDE DEF e, started
  <2>2. \A q \in Refs : Keeps(d1, e, q)
    BY <1>20, <2>1
  <2>3. \A q \in Refs : Keeps(d, e, q)
    BY <1>13, <2>2 DEF Keeps
  <2>4. /\ e \in Tables /\ e.inst = d1.inst /\ e.signals = d1.signals /\ e.children = C
        /\ e.completed = d1.completed
        /\ e.signalCounter = d1.signalCounter /\ e.childCounter = d1.childCounter
    BY <1>17, <1>21, <2>1
  <2> QED
    BY <1>1, <1>3, <1>8, <1>12, <1>15, <2>3, <2>4
<1> QED
  BY <1>22, <1>23

-------------------------------------------------------------------------------
(* Checkpoints. *)

\* The event that woke an activation is of its run, and it alone is taken.
LEMMA ConsumedKeeps ==
    ASSUME NEW d \in Tables, NEW a \in Activation, NEW seq \in Nat \ {0},
           Numbered(d.signals, d.signalCounter), Numbered(d.children, d.childCounter),
           a.kind = "signal" => \E s \in d.signals : s.id = a.n /\ s.ref = a.ref /\ s.consumed = 0,
           a.kind = "child" => \E x \in d.children : x.id = a.n /\ x.parent = a.ref /\ x.delivered = 0
    PROVE  LET e == Consumed(d, a, seq)
           IN  /\ e \in Tables
               /\ \A q \in Refs : q # a.ref => Keeps(d, e, q)
               /\ e.inst = d.inst /\ e.completed = d.completed
               /\ e.signalCounter = d.signalCounter /\ e.childCounter = d.childCounter
               /\ e.signals = {IF a.kind = "signal" /\ s.id = a.n THEN [s EXCEPT !.consumed = seq] ELSE s : s \in d.signals}
               /\ e.children = {IF a.kind = "child" /\ x.id = a.n THEN [x EXCEPT !.delivered = seq] ELSE x : x \in d.children}
<1> DEFINE take(s) == IF a.kind = "signal" /\ s.id = a.n THEN [s EXCEPT !.consumed = seq] ELSE s
           deliver(x) == IF a.kind = "child" /\ x.id = a.n THEN [x EXCEPT !.delivered = seq] ELSE x
           S == {take(s) : s \in d.signals}
           C == {deliver(x) : x \in d.children}
           e == [d EXCEPT !.signals = S, !.children = C]
<1>1. Consumed(d, a, seq) = e
  BY DEF Consumed
<1>2. \A s \in d.signals : /\ take(s) \in Signal /\ take(s).ref = s.ref
                           /\ s.ref # a.ref => take(s) = s
  <2>1. d.signals \in SUBSET Signal
    BY DEF Tables
  <2>2. \A s \in d.signals : a.kind = "signal" /\ s.id = a.n => s.ref = a.ref
    BY DEF Numbered
  <2> QED
    BY <2>1, <2>2 DEF Signal
<1>3. \A x \in d.children : /\ deliver(x) \in Child /\ deliver(x).parent = x.parent
                            /\ x.parent # a.ref => deliver(x) = x
  <2>1. d.children \in SUBSET Child
    BY DEF Tables
  <2>2. \A x \in d.children : a.kind = "child" /\ x.id = a.n => x.parent = a.ref
    BY DEF Numbered
  <2> QED
    BY <2>1, <2>2 DEF Child
<1> SUFFICES /\ e \in Tables /\ e.inst = d.inst /\ e.completed = d.completed
             /\ e.signalCounter = d.signalCounter /\ e.childCounter = d.childCounter
             /\ e.signals = S /\ e.children = C
             /\ \A q \in Refs : q # a.ref => Keeps(d, e, q)
  BY <1>1
<1> HIDE DEF take, deliver
<1>4. S \in SUBSET Signal /\ C \in SUBSET Child
  BY <1>2, <1>3
<1>5. \A q : q # a.ref => {s \in S : s.ref = q} = {s \in d.signals : s.ref = q}
  BY <1>2
<1>6. \A q : q # a.ref => {x \in C : x.parent = q} = {x \in d.children : x.parent = q}
  BY <1>3
<1> HIDE DEF S, C
<1>7. /\ e \in Tables /\ e.inst = d.inst /\ e.completed = d.completed /\ e.tasks = d.tasks
      /\ e.signalCounter = d.signalCounter /\ e.childCounter = d.childCounter
      /\ e.signals = S /\ e.children = C
  BY <1>4 DEF Tables
<1> HIDE DEF e
<1>8. ASSUME NEW q \in Refs, q # a.ref PROVE Keeps(d, e, q)
  <2>1. Inbox(e, q) = Inbox(d, q)
    <3>1. {s \in S : s.ref = q} = {s \in d.signals : s.ref = q}
      BY <1>5, <1>8
    <3> QED
      BY <1>7, <3>1 DEF Inbox
  <2>2. Reports(e, q) = Reports(d, q)
    <3>1. {x \in C : x.parent = q} = {x \in d.children : x.parent = q}
      BY <1>6, <1>8
    <3> QED
      BY <1>7, <3>1 DEF Reports
  <2> QED
    BY <1>7, <2>1, <2>2, SameRunKeeps
<1> QED
  BY <1>7, <1>8

LEMMA ReplaceTasksAsItIs ==
    ASSUME NEW d \in Tables, NEW r \in Refs
    PROVE  ReplaceTasksAs(d, r, d.inst[r]) = ReplaceTasks(d, r)
<1> DEFINE f == ReplaceTasks(d, r)
<1>1. [d EXCEPT !.inst[r] = d.inst[r]] = d
  BY DEF Tables
<1>2. f \in Tables /\ f.inst = d.inst
  BY ReplaceTasksFields
<1>3. ReplaceTasksAs(d, r, d.inst[r]) = [f EXCEPT !.inst = d.inst]
  BY <1>1 DEF ReplaceTasksAs
<1> HIDE DEF f
<1>4. [f EXCEPT !.inst = d.inst] = f
  BY <1>2 DEF Tables
<1> QED
  BY <1>3, <1>4 DEF f

\* The outcome a wakes its run with, and the sequence given to outcomes dropped by a stop.
Wakened(a, x) == a.kind = "child" /\ x.id = a.n
Dropped(next, seq) == IF next \in {"failed", "canceled"} THEN {seq} ELSE {}

\* What has been delivered was, or is the outcome that woke the claim, or is dropped below the run
\* of the claim as it stops; and the outcome that woke it is delivered.
Delivers(d, c, next, e) ==
    LET seq == d.inst[c.act.ref].seq + 1
    IN  /\ \A f \in e.children :
             \/ next \in {"failed", "canceled"} /\ c.act.ref \in Lineage(e, f.parent)
             \/ \E x \in d.children :
                  SameChild(x, f) /\ f.delivered \in {x.delivered} \cup (IF Wakened(c.act, x) THEN {seq} ELSE {})
             \/ f.delivered = 0
        /\ \A x \in d.children : Wakened(c.act, x) /\ x.status # "started" =>
             \E f \in e.children : SameChild(x, f) /\ f.delivered = seq

\* What a checkpoint of the claim c, which starts runs among those named in S, makes of the
\* tables: its run has advanced, other runs have started or were canceled with it, the event
\* that woke it is consumed, and the records of children have closed or were added.
Advanced(d, c, next, S, e) ==
    LET r   == c.act.ref
        seq == d.inst[r].seq + 1
    IN  /\ e \in Tables
        /\ e.inst[r].status = next /\ e.inst[r].seq = seq /\ e.inst[r].version = VersionOf[c.worker]
        /\ \A q \in Refs \ {r} :
             \/ e.inst[q] = d.inst[q]
             \/ /\ q \in S /\ d.inst[q].status = "absent"
                /\ e.inst[q].status \in {"running", "canceled"} /\ e.inst[q].seq = 0
             \/ /\ Running(d, q) /\ e.inst[q].status = "canceled"
                /\ e.inst[q].seq = d.inst[q].seq /\ e.inst[q].version = d.inst[q].version
        /\ e.signals = {IF c.act.kind = "signal" /\ s.id = c.act.n THEN [s EXCEPT !.consumed = seq] ELSE s : s \in d.signals}
        /\ e.signalCounter = d.signalCounter
        /\ d.childCounter <= e.childCounter
        /\ e.completed = d.completed \cup {[act |-> c.act, owner |-> c.worker]}
        /\ \A x \in d.children : \E f \in e.children :
             SameChild(x, f) /\ (x.status # "started" /\ ~ Wakened(c.act, x) => f = x)
        /\ \A f \in e.children :
             \/ \E x \in d.children :
                  /\ SameChild(x, f)
                  /\ x.status # "started" /\ ~ Wakened(c.act, x) => f = x
                  /\ f.delivered \in {x.delivered} \cup (IF Wakened(c.act, x) THEN {seq} ELSE {}) \cup Dropped(next, seq)
                  /\ f.status = "started" => /\ x.status = "started"
                                             /\ f.delivered \in {x.delivered} \cup (IF Wakened(c.act, x) THEN {seq} ELSE {})
             \/ /\ f.id > d.childCounter /\ f.delivered \in {0} \cup Dropped(next, seq)
                /\ f.status = "started" => f.delivered = 0
        /\ \A q \in Refs : Running(d, q) /\ Stopped(e, q) => OpenUnder(e, q) = {}
        /\ Delivers(d, c, next, e)

\* The event that woke a claim is there to be consumed.
Consumable(d, a) ==
    /\ a.kind = "signal" => \E s \in d.signals : s.id = a.n /\ s.ref = a.ref /\ s.consumed = 0
    /\ a.kind = "child" => \E x \in d.children : x.id = a.n /\ x.parent = a.ref /\ x.delivered = 0

LEMMA CheckpointKeeps ==
    ASSUME NEW d \in Tables, NEW c \in Claim, NEW next \in {"running"} \cup Closed,
           NEW waits \in SUBSET Wait, NEW starts \in Seq(ChildStart), Len(starts) <= 2,
           NEW now \in Nat, Sound(d), Running(d, c.act.ref), Consumable(d, c.act), Distinct(starts),
           \A k \in DOMAIN starts : /\ Accepted(d, starts[k])
                                    /\ starts[k].reuse # "always" => starts[k].ref[1] # c.act.ref[1]
    PROVE  LET e == Checkpoint(d, c, next, waits, starts, now)
           IN  /\ Advanced(d, c, next, {starts[k].ref : k \in DOMAIN starts}, e)
               /\ \A q \in Refs : Keeps(d, e, q)
<1> DEFINE r   == c.act.ref
           a   == c.act
           i   == d.inst[r]
           seq == i.seq + 1
           n   == NextInstance(d, i, next, waits, VersionOf[c.worker], now)
           d1  == [d EXCEPT !.inst[r] = n]
           d1c == Consumed(d1, a, seq)
           E   == Settled(d1c.effects, c)
           d2  == [d1c EXCEPT !.effects = E]
           d3  == StartedAll(d2, c, starts, now)
           d4p == UpdateParentRecord(d3, i, next, now)
           d4  == ApplyClosePolicy(d4p, r, next, seq, now)
           d5  == ReplaceTasksAs(d4, r, d1.inst[r])
           done == [act |-> c.act, owner |-> c.worker]
           e   == [d5 EXCEPT !.completed = d5.completed \cup {done}]
           S   == {starts[k].ref : k \in DOMAIN starts}
<1>1. Checkpoint(d, c, next, waits, starts, now) = e
  BY DEF Checkpoint
<1>2. r \in Refs /\ i \in Instance /\ seq \in Nat \ {0} /\ a \in Activation /\ done \in CompletedClaim
  BY ClaimFields, InstanceFields DEF CompletedClaim
<1>3. n \in Instance /\ n.status = next /\ n.seq = seq /\ n.version = VersionOf[c.worker]
      /\ (next # "running" => n.waits = {})
  <2>1. n \in Instance
    BY <1>2, NextInstanceType, VersionOfType, ClaimFields
  <2> QED
    BY <1>2, <2>1 DEF NextInstance, Instance
<1>4. /\ Running(d, r)
       /\ \A k \in DOMAIN starts : /\ Accepted(d, starts[k]) /\ starts[k] \in ChildStart
                                   /\ starts[k].reuse # "always" => starts[k].ref[1] # r[1]
  OBVIOUS
<1> HIDE DEF r, a, i, seq, n, done, S
<1>5. /\ d1 \in Tables /\ d1.tasks = d.tasks /\ d1.completed = d.completed /\ d1.claimed = d.claimed
      /\ d1.signals = d.signals /\ d1.children = d.children /\ d1.effects = d.effects
      /\ d1.signalCounter = d.signalCounter /\ d1.childCounter = d.childCounter
      /\ d1.inst = [d.inst EXCEPT ![r] = n] /\ d1.inst[r] = n
  BY <1>2, <1>3 DEF Tables
<1> HIDE DEF d1
<1>6. Sound(d1)
  <2>1. StoppedWaitForNothing(d1.inst)
    BY <1>3, <1>5 DEF Sound, StoppedWaitForNothing, Tables
  <2> QED
    BY <1>5, <2>1 DEF Sound
<1>7. \A q \in Refs : q # r => Keeps(d, d1, q)
  <2>1. \A q \in Refs : Inbox(d1, q) = Inbox(d, q) /\ Reports(d1, q) = Reports(d, q)
    BY <1>5 DEF Inbox, Reports
  <2>2. \A q \in Refs : q # r => d1.inst[q] = d.inst[q]
    BY <1>5 DEF Tables
  <2> QED
    BY <1>5, <2>1, <2>2, SameRunKeeps
<1>8. /\ d1c \in Tables
      /\ \A q \in Refs : q # r => Keeps(d1, d1c, q)
      /\ d1c.inst = d1.inst /\ d1c.completed = d1.completed
      /\ d1c.signalCounter = d1.signalCounter /\ d1c.childCounter = d1.childCounter
      /\ d1c.signals = {IF a.kind = "signal" /\ s.id = a.n THEN [s EXCEPT !.consumed = seq] ELSE s : s \in d1.signals}
      /\ d1c.children = {IF a.kind = "child" /\ x.id = a.n THEN [x EXCEPT !.delivered = seq] ELSE x : x \in d1.children}
  <2>1. Numbered(d1.signals, d1.signalCounter) /\ Numbered(d1.children, d1.childCounter)
    BY <1>6 DEF Sound
  <2>2. r = a.ref
    BY DEF r, a
  <2>3. /\ a.kind = "signal" => \E s \in d1.signals : s.id = a.n /\ s.ref = a.ref /\ s.consumed = 0
        /\ a.kind = "child" => \E x \in d1.children : x.id = a.n /\ x.parent = a.ref /\ x.delivered = 0
    BY <1>5 DEF Consumable, a
  <2> QED
    BY <1>2, <1>5, <2>1, <2>2, <2>3, ConsumedKeeps
<1>9. Sound(d1c)
  BY <1>2, <1>5, <1>6, ConsumedSafe DEF Safe
<1> HIDE DEF d1c
<1>10. d2 \in Tables /\ Sound(d2)
  <2> DEFINE F == FailureRecords(c.act, c.failed)
  <2>1. /\ F \in SUBSET EffectRecord /\ WithinPolicy(F) /\ OneRecordEach(F)
        /\ \A f \in F : f.act = c.act
    BY FailureRecordsType, ClaimFields
  <2> HIDE DEF F
  <2>2. E = IF c.failed = {} THEN d1c.effects ELSE {f \in d1c.effects : f.act # c.act} \cup F
    BY DEF Settled, F
  <2>3. E \in SUBSET EffectRecord
    BY <1>8, <2>1, <2>2 DEF Tables
  <2> HIDE DEF E
  <2>4. /\ WithinPolicy(d1c.effects) => WithinPolicy(E)
        /\ OneRecordEach(d1c.effects) => OneRecordEach(E)
    BY <2>1, <2>2 DEF WithinPolicy, OneRecordEach
  <2>5. Safe(d1c, d2)
    BY <1>8, <2>3, <2>4, NewEffects
  <2> QED
    BY <1>9, <2>5 DEF Safe
<1> HIDE DEF E
<1>11. QuietlyKeeps(d1c, d2)
  BY <1>8, <1>10, EffectsQuiet
<1> HIDE DEF d2
<1>12. StartsRuns(d2, d3, S) /\ \A q \in Refs : Keeps(d2, d3, q)
  <2>1. \A q \in Refs : q # r => d2.inst[q] = d.inst[q]
    BY <1>5, <1>8, <1>11 DEF QuietlyKeeps, Quiet, Tables
  <2>2. \A k \in DOMAIN starts : Accepted(d2, starts[k])
    BY <1>2, <1>4, <2>1, AcceptedAfterAdvance
  <2> QED
    BY <1>10, <2>2, StartedAllKeeps DEF S
<1>13. d3 \in Tables /\ Sound(d3)
  BY <1>10, StartedAllSafe DEF Safe
<1> HIDE DEF d3
<1>14. /\ d4p \in Tables
       /\ \A q \in Refs : Keeps(d3, d4p, q)
       /\ d4p.inst = d3.inst /\ d4p.signals = d3.signals /\ d4p.completed = d3.completed
       /\ d4p.signalCounter = d3.signalCounter /\ d4p.childCounter = d3.childCounter
       /\ Closing(d3.children, d4p.children, {})
  BY <1>2, <1>13, UpdateParentRecordKeeps DEF Sound
<1> HIDE DEF d4p
<1>15. /\ d4 \in Tables
       /\ \A q \in Refs : Keeps(d4p, d4, q)
       /\ \A q \in Refs :
            \/ d4.inst[q] = d4p.inst[q]
            \/ /\ next \in {"failed", "canceled"} /\ Running(d4p, q)
               /\ d4.inst[q].status = "canceled" /\ d4.inst[q].seq = d4p.inst[q].seq
               /\ d4.inst[q].version = d4p.inst[q].version
       /\ d4.signals = d4p.signals /\ d4.completed = d4p.completed
       /\ d4.signalCounter = d4p.signalCounter /\ d4.childCounter = d4p.childCounter
       /\ Closing(d4p.children, d4.children, Dropped(next, seq))
       /\ \A f \in d4.children : \/ f \in d4p.children
                                 \/ next \in {"failed", "canceled"} /\ r \in Lineage(d4p, f.parent)
       /\ next \in {"failed", "canceled"} =>
            \A q \in Refs : q = r \/ d4.inst[q] # d4p.inst[q] => OpenUnder(d4, q) = {}
  BY <1>2, <1>14, ApplyClosePolicyKeeps DEF Dropped
<1> HIDE DEF d4
<1>16. d3.inst[r] = n
  <2>1. d2.inst[r] = n
    BY <1>5, <1>8, <1>11 DEF QuietlyKeeps, Quiet
  <2> QED
    BY <1>2, <1>3, <1>12, <2>1 DEF StartsRuns, Closed
<1>17. d4.inst[r] = d1.inst[r]
  BY <1>2, <1>3, <1>5, <1>14, <1>15, <1>16 DEF Running
<1>18. d5 = ReplaceTasks(d4, r)
  BY <1>2, <1>15, <1>17, ReplaceTasksAsItIs
<1>19. /\ d5 \in Tables
       /\ d5.inst = d4.inst /\ d5.signals = d4.signals /\ d5.children = d4.children
       /\ d5.completed = d4.completed
       /\ d5.signalCounter = d4.signalCounter /\ d5.childCounter = d4.childCounter
  BY <1>2, <1>15, <1>18, ReplaceTasksFields
<1>20. /\ \A q \in Refs : q # r => Keeps(d4, d5, q)
       /\ Wakes(d5, r) /\ Reasons(d5, r)
  BY <1>2, <1>15, <1>18, ReplaceTasksKeeps, ReplaceTasksOfRun
<1> HIDE DEF d5
<1>21. /\ e \in Tables /\ e.tasks = d5.tasks /\ e.inst = d5.inst
       /\ e.completed = d5.completed \cup {done}
       /\ e.signals = d5.signals /\ e.children = d5.children
       /\ e.signalCounter = d5.signalCounter /\ e.childCounter = d5.childCounter
  BY <1>2, <1>19 DEF Tables
<1> HIDE DEF e
<1>22. \A q \in Refs : Keeps(d5, e, q)
  <2>1. \A q \in Refs : Inbox(e, q) = Inbox(d5, q) /\ Reports(e, q) = Reports(d5, q)
    BY <1>21 DEF Inbox, Reports
  <2> QED
    BY <1>19, <1>21, <2>1, SameRunKeeps
<1>23. ASSUME NEW q \in Refs, q # r PROVE Keeps(d, e, q)
  <2>1. Keeps(d, d1, q) /\ Keeps(d1, d1c, q) /\ Keeps(d1c, d2, q) /\ Keeps(d2, d3, q)
    BY <1>7, <1>8, <1>11, <1>12, <1>23 DEF QuietlyKeeps
  <2>2. Keeps(d3, d4p, q) /\ Keeps(d4p, d4, q) /\ Keeps(d4, d5, q) /\ Keeps(d5, e, q)
    BY <1>14, <1>15, <1>20, <1>22, <1>23
  <2>3. Keeps(d, d3, q)
    BY <2>1 DEF Keeps
  <2> QED
    BY <2>2, <2>3 DEF Keeps
<1>24. Keeps(d, e, r)
  BY <1>2, <1>20, <1>22 DEF Keeps
<1>25. e.inst[r] = n
  BY <1>5, <1>17, <1>19, <1>21
<1>26. ASSUME NEW q \in Refs, q # r
       PROVE  \/ e.inst[q] = d.inst[q]
              \/ /\ q \in S /\ d.inst[q].status = "absent"
                 /\ e.inst[q].status \in {"running", "canceled"} /\ e.inst[q].seq = 0
              \/ /\ Running(d, q) /\ e.inst[q].status = "canceled"
                 /\ e.inst[q].seq = d.inst[q].seq /\ e.inst[q].version = d.inst[q].version
  <2>1. d2.inst[q] = d.inst[q]
    BY <1>5, <1>8, <1>11, <1>26 DEF QuietlyKeeps, Quiet, Tables
  <2>2. d4p.inst[q] = d3.inst[q] /\ e.inst[q] = d4.inst[q]
    BY <1>14, <1>19, <1>21
  <2>3. \/ d3.inst[q] = d.inst[q]
        \/ q \in S /\ d.inst[q].status = "absent" /\ d3.inst[q].status = "running" /\ d3.inst[q].seq = 0
    BY <1>12, <2>1 DEF StartsRuns
  <2> QED
    BY <1>15, <2>2, <2>3 DEF Running
<1> DEFINE woken(x) == IF Wakened(a, x) THEN {seq} ELSE {}
<1>27. d2.children = {IF Wakened(a, x) THEN [x EXCEPT !.delivered = seq] ELSE x : x \in d.children}
  BY <1>5, <1>8, <1>11 DEF QuietlyKeeps, Quiet, Wakened
<1>28. ASSUME NEW x \in d.children
       PROVE  LET y == IF Wakened(a, x) THEN [x EXCEPT !.delivered = seq] ELSE x
              IN  /\ SameChild(x, y) /\ y.status = x.status /\ (~ Wakened(a, x) => y = x)
                  /\ y.delivered \in {x.delivered} \cup woken(x) /\ (Wakened(a, x) => y.delivered = seq)
  <2>1. x \in Child
    BY DEF Tables
  <2> QED
    BY <2>1 DEF SameChild, Child
<1>29. \A x \in d.children : \E y \in d3.children :
         /\ SameChild(x, y) /\ y.status = x.status /\ (~ Wakened(a, x) => y = x)
         /\ Wakened(a, x) => y.delivered = seq
  <2> SUFFICES ASSUME NEW x \in d.children
               PROVE  \E y \in d3.children :
                        /\ SameChild(x, y) /\ y.status = x.status /\ (~ Wakened(a, x) => y = x)
                        /\ Wakened(a, x) => y.delivered = seq
    OBVIOUS
  <2> DEFINE z == IF Wakened(a, x) THEN [x EXCEPT !.delivered = seq] ELSE x
  <2>1. z \in d3.children
    BY <1>12, <1>27 DEF StartsRuns
  <2>2. SameChild(x, z) /\ z.status = x.status /\ (~ Wakened(a, x) => z = x) /\ (Wakened(a, x) => z.delivered = seq)
    BY <1>28
  <2> HIDE DEF z
  <2> QED
    BY <2>1, <2>2
<1>30. \A y \in d3.children :
         \/ \E x \in d.children : /\ SameChild(x, y) /\ y.status = x.status /\ (~ Wakened(a, x) => y = x)
                                 /\ y.delivered \in {x.delivered} \cup woken(x)
         \/ y.id > d.childCounter /\ y.delivered = 0
  <2>1. d2.childCounter = d.childCounter
    BY <1>5, <1>8, <1>11 DEF QuietlyKeeps, Quiet
  <2>2. \A y \in d3.children \ d2.children : y.id > d.childCounter /\ y.delivered = 0
    BY <1>12, <2>1 DEF StartsRuns
  <2>3. ASSUME NEW y \in d2.children
        PROVE  \E x \in d.children : /\ SameChild(x, y) /\ y.status = x.status /\ (~ Wakened(a, x) => y = x)
                                    /\ y.delivered \in {x.delivered} \cup woken(x)
    <3>1. PICK x \in d.children : y = IF Wakened(a, x) THEN [x EXCEPT !.delivered = seq] ELSE x
      BY <1>27
    <3> HIDE DEF woken
    <3> QED
      BY <1>28, <3>1
  <2> QED
    BY <2>2, <2>3
<1>31. \A y \in d3.children : \E f \in e.children : SameChild(y, f) /\ (y.status # "started" => f = y)
  <2>1. e.children = d4.children
    BY <1>19, <1>21
  <2>2. ASSUME NEW y \in d3.children
        PROVE  \E f \in d4.children : SameChild(y, f) /\ (y.status # "started" => f = y)
    <3>1. PICK z \in d4p.children : SameChild(y, z) /\ (y.status # "started" => z = y)
      BY <1>14 DEF Closing
    <3>2. PICK f \in d4.children : SameChild(z, f) /\ (z.status # "started" => f = z)
      BY <1>15 DEF Closing
    <3> QED
      BY <3>1, <3>2 DEF SameChild
  <2> QED
    BY <2>1, <2>2
<1>32. \A f \in e.children : \E y \in d3.children :
         /\ SameChild(y, f) /\ (y.status # "started" => f = y)
         /\ f = y \/ f.status # "started"
         /\ f.delivered \in {y.delivered} \cup Dropped(next, seq)
  <2>1. e.children = d4.children
    BY <1>19, <1>21
  <2>2. ASSUME NEW f \in d4.children
        PROVE  \E y \in d3.children : /\ SameChild(y, f) /\ (y.status # "started" => f = y)
                                      /\ f = y \/ f.status # "started"
                                      /\ f.delivered \in {y.delivered} \cup Dropped(next, seq)
    <3>1. PICK z \in d4p.children : /\ SameChild(z, f) /\ (z.status # "started" => f = z)
                                    /\ f = z \/ f.status # "started"
                                    /\ f.delivered \in {z.delivered} \cup Dropped(next, seq)
      BY <1>15 DEF Closing
    <3>2. PICK y \in d3.children : /\ SameChild(y, z) /\ (y.status # "started" => z = y)
                                   /\ z = y \/ z.status # "started"
                                   /\ z.delivered \in {y.delivered} \cup {}
      BY <1>14 DEF Closing
    <3>3. SameChild(y, f)
      BY <3>1, <3>2 DEF SameChild
    <3>4. (y.status # "started" => f = y) /\ (f = y \/ f.status # "started")
      BY <3>1, <3>2
    <3>5. f.delivered \in {y.delivered} \cup Dropped(next, seq)
      BY <3>1, <3>2
    <3> QED
      BY <3>3, <3>4, <3>5
  <2> QED
    BY <2>1, <2>2
<1>33. ASSUME NEW x \in d.children
       PROVE  \E f \in e.children : SameChild(x, f) /\ (x.status # "started" /\ ~ Wakened(a, x) => f = x)
  <2>1. PICK y \in d3.children : SameChild(x, y) /\ y.status = x.status /\ (~ Wakened(a, x) => y = x)
    BY <1>29
  <2>2. PICK f \in e.children : SameChild(y, f) /\ (y.status # "started" => f = y)
    BY <1>31
  <2> QED
    BY <2>1, <2>2 DEF SameChild
<1>34. ASSUME NEW f \in e.children
       PROVE  \/ \E x \in d.children :
                   /\ SameChild(x, f)
                   /\ x.status # "started" /\ ~ Wakened(a, x) => f = x
                   /\ f.delivered \in {x.delivered} \cup woken(x) \cup Dropped(next, seq)
                   /\ f.status = "started" => x.status = "started" /\ f.delivered \in {x.delivered} \cup woken(x)
              \/ /\ f.id > d.childCounter /\ f.delivered \in {0} \cup Dropped(next, seq)
                 /\ f.status = "started" => f.delivered = 0
  <2>1. PICK y \in d3.children : /\ SameChild(y, f) /\ (y.status # "started" => f = y)
                                 /\ f = y \/ f.status # "started"
                                 /\ f.delivered \in {y.delivered} \cup Dropped(next, seq)
    BY <1>32
  <2>2. CASE y.id > d.childCounter /\ y.delivered = 0
    BY <2>1, <2>2 DEF SameChild
  <2>3. CASE \E x \in d.children : /\ SameChild(x, y) /\ y.status = x.status /\ (~ Wakened(a, x) => y = x)
                                  /\ y.delivered \in {x.delivered} \cup woken(x)
    <3>1. PICK x \in d.children : /\ SameChild(x, y) /\ y.status = x.status /\ (~ Wakened(a, x) => y = x)
                                  /\ y.delivered \in {x.delivered} \cup woken(x)
      BY <2>3
    <3> HIDE DEF woken
    <3>2. SameChild(x, f) /\ (x.status # "started" /\ ~ Wakened(a, x) => f = x)
      BY <2>1, <3>1 DEF SameChild
    <3>3. f.delivered \in {x.delivered} \cup woken(x) \cup Dropped(next, seq)
      BY <2>1, <3>1
    <3>4. f.status = "started" => x.status = "started" /\ f.delivered \in {x.delivered} \cup woken(x)
      BY <2>1, <3>1
    <3> QED
      BY <3>2, <3>3, <3>4
  <2> QED
    BY <1>30, <2>2, <2>3
<1>35. /\ e.signalCounter = d.signalCounter /\ d.childCounter <= e.childCounter
       /\ e.completed = d.completed \cup {done}
       /\ e.signals = {IF a.kind = "signal" /\ s.id = a.n THEN [s EXCEPT !.consumed = seq] ELSE s : s \in d.signals}
  BY <1>5, <1>8, <1>11, <1>12, <1>14, <1>15, <1>19, <1>21 DEF QuietlyKeeps, Quiet, StartsRuns
<1>36. seq = d.inst[c.act.ref].seq + 1
  BY DEF seq, i, r
<1>37. ASSUME NEW q \in Refs, Running(d, q), Stopped(e, q) PROVE OpenUnder(e, q) = {}
  <2>1. OpenUnder(e, q) = OpenUnder(d4, q) /\ e.inst[q] = d4.inst[q]
    BY <1>19, <1>21 DEF OpenUnder
  <2>2. CASE q = r
    BY <1>2, <1>3, <1>15, <1>25, <1>37, <2>1, <2>2 DEF Stopped
  <2>3. CASE q # r
    <3>1. d2.inst[q] = d.inst[q]
      BY <1>5, <1>8, <1>11, <2>3 DEF QuietlyKeeps, Quiet, Tables
    <3>2. d4p.inst[q] = d.inst[q]
      BY <1>12, <1>14, <1>37, <3>1 DEF StartsRuns, Running
    <3>3. d4.inst[q] # d4p.inst[q]
      BY <1>37, <2>1, <3>2 DEF Stopped, Running
    <3> QED
      BY <1>15, <2>1, <3>3
  <2> QED
    BY <2>2, <2>3
<1>371. \A f \in e.children :
           \/ next \in {"failed", "canceled"} /\ c.act.ref \in Lineage(e, f.parent)
           \/ \E x \in d.children : SameChild(x, f) /\ f.delivered \in {x.delivered} \cup woken(x)
           \/ f.delivered = 0
  <2> SUFFICES ASSUME NEW f \in e.children
               PROVE  \/ next \in {"failed", "canceled"} /\ r \in Lineage(e, f.parent)
                      \/ \E x \in d.children : SameChild(x, f) /\ f.delivered \in {x.delivered} \cup woken(x)
                      \/ f.delivered = 0
    BY DEF r
  <2>1. e.children = d4.children
    BY <1>19, <1>21
  <2>2. Lineage(d4p, f.parent) \subseteq Lineage(e, f.parent)
    <3>1. \A x \in d4p.children : \E g \in e.children : SameChild(x, g)
      BY <1>15, <2>1 DEF Closing
    <3> QED
      BY <3>1, LineageGrows
  <2>3. CASE f \in d4p.children
    <3>1. PICK y \in d3.children : SameChild(y, f) /\ f.delivered \in {y.delivered} \cup {}
      BY <1>14, <2>3 DEF Closing
    <3>2. CASE y.delivered = 0
      BY <3>1, <3>2
    <3>3. ASSUME NEW x \in d.children, SameChild(x, y), y.delivered \in {x.delivered} \cup woken(x)
          PROVE  SameChild(x, f) /\ f.delivered \in {x.delivered} \cup woken(x)
      <4> HIDE DEF woken
      <4> QED
        BY <3>1, <3>3 DEF SameChild
    <3> QED
      BY <1>30, <3>2, <3>3
  <2> QED
    BY <1>15, <2>1, <2>2, <2>3
<1>372. ASSUME NEW x \in d.children, Wakened(a, x), x.status # "started"
        PROVE  \E f \in e.children : SameChild(x, f) /\ f.delivered = seq
  <2>1. PICK y \in d3.children : SameChild(x, y) /\ y.status = x.status /\ y.delivered = seq
    BY <1>29, <1>372
  <2>2. y \in e.children
    BY <1>31, <1>372, <2>1
  <2> QED
    BY <2>1, <2>2
<1>373. Delivers(d, c, next, e)
  BY <1>36, <1>371, <1>372 DEF Delivers, a
<1>38. Advanced(d, c, next, S, e)
  <2>1. /\ e \in Tables
        /\ e.inst[c.act.ref].status = next /\ e.inst[c.act.ref].seq = d.inst[c.act.ref].seq + 1
        /\ e.inst[c.act.ref].version = VersionOf[c.worker]
    BY <1>3, <1>21, <1>25, <1>36 DEF r
  <2>2. \A q \in Refs \ {c.act.ref} :
           \/ e.inst[q] = d.inst[q]
           \/ /\ q \in S /\ d.inst[q].status = "absent"
              /\ e.inst[q].status \in {"running", "canceled"} /\ e.inst[q].seq = 0
           \/ /\ Running(d, q) /\ e.inst[q].status = "canceled"
              /\ e.inst[q].seq = d.inst[q].seq /\ e.inst[q].version = d.inst[q].version
    BY <1>26 DEF r
  <2>3. /\ e.signals = {IF c.act.kind = "signal" /\ s.id = c.act.n
                        THEN [s EXCEPT !.consumed = d.inst[c.act.ref].seq + 1] ELSE s : s \in d.signals}
        /\ e.signalCounter = d.signalCounter /\ d.childCounter <= e.childCounter
        /\ e.completed = d.completed \cup {[act |-> c.act, owner |-> c.worker]}
    BY <1>35, <1>36 DEF a, done
  <2>4. \A x \in d.children : \E f \in e.children :
           SameChild(x, f) /\ (x.status # "started" /\ ~ Wakened(c.act, x) => f = x)
    BY <1>33 DEF a
  <2>5. \A f \in e.children :
           \/ \E x \in d.children :
                /\ SameChild(x, f)
                /\ x.status # "started" /\ ~ Wakened(c.act, x) => f = x
                /\ f.delivered \in {x.delivered} \cup (IF Wakened(c.act, x) THEN {seq} ELSE {}) \cup Dropped(next, seq)
                /\ f.status = "started" => /\ x.status = "started"
                                           /\ f.delivered \in {x.delivered} \cup (IF Wakened(c.act, x) THEN {seq} ELSE {})
           \/ /\ f.id > d.childCounter /\ f.delivered \in {0} \cup Dropped(next, seq)
              /\ f.status = "started" => f.delivered = 0
    BY <1>34 DEF a
  <2>6. \A q \in Refs : Running(d, q) /\ Stopped(e, q) => OpenUnder(e, q) = {}
    BY <1>37
  <2> QED
    BY <1>36, <1>373, <2>1, <2>2, <2>3, <2>4, <2>5, <2>6 DEF Advanced
<1> QED
  BY <1>1, <1>23, <1>24, <1>38 DEF S

-------------------------------------------------------------------------------
(* The steps of the engine, by what they do with the runs. *)

QuietStep == QuietlyKeeps(db, db')
Creates == \E c \in held, now \in Instants : \E start \in At(EagerStarts, c) : CreateChild(c, start, now)
Cancels == \E c \in held, now \in Instants, r \in Refs : CancelChild(c, r, now)
StartsOrSignals == \E now \in Instants :
    \/ \E in \in ClientStarts : StartWorkflow(in, now)
    \/ \E in \in Appends : Signals(in, now)
    \/ \E in \in SendStarts : StartSendSignal(in, now)

LEMMA ClaimTasksQuiet ==
    ASSUME TypeOK, NEW w \in alive, NEW s \in Shards, NEW now \in Instants, ClaimTasks(w, s, now)
    PROVE  QuietStep
<1> DEFINE epoch == leases[s].epoch
           d1    == Prepared(db, w, s, now)
<1>1. now \in Nat /\ db \in Tables /\ w \in Workers /\ epoch \in Nat
  BY InstantsType DEF TypeOK, ShardLease
<1>2. PICK batch \in Batches(d1, s, now, VersionOf[w], epoch, Slots(w)) :
         db' = HandOut(d1, batch, w, s, now, epoch)
  BY DEF ClaimTasks
<1>3. QuietlyKeeps(db, d1) /\ d1 \in Tables
  BY <1>1, PreparedQuiet, PreparedSafe DEF Safe
<1> HIDE DEF d1, epoch
<1>4. batch \in SUBSET d1.tasks
  BY <1>2 DEF Batches, Winners, Candidates
<1>5. QuietlyKeeps(d1, db')
  BY <1>1, <1>2, <1>3, <1>4, HandOutQuiet
<1> QED
  BY <1>3, <1>5, QuietTransitive DEF QuietStep

LEMMA ReserveEffectQuiet ==
    ASSUME TypeOK, NEW c \in held, NEW now \in Instants, NEW key \in EagerKeys, ReserveEffect(c, key, now)
    PROVE  QuietStep
<1> DEFINE d1 == ExpireTimeouts(db, Expirable(db, c.worker, now), now)
           token(n) == [n |-> n, worker |-> c.worker]
<1>1. now \in Nat /\ c \in Claim /\ key \in EffectKeys /\ db \in Tables
  BY InstantsType, InputAssumption DEF TypeOK
<1>2. c.act \in Activation /\ c.worker \in Workers
  BY <1>1, ClaimFields
<1>3. QuietlyKeeps(db, d1) /\ d1 \in Tables
  BY <1>1, ExpireTimeoutsQuiet, ExpireTimeoutsSafe DEF Safe
<1>4. (\E n \in FreshIds : db' = Reserve(d1, c.act, key, token(n), now)) \/ db' = d1
  BY DEF ReserveEffect
<1> HIDE DEF d1
<1>5. ASSUME NEW n \in FreshIds PROVE token(n) \in Token
  <2>1. n \in Nat
    BY InputAssumption DEF FreshIds
  <2> QED
    BY <1>2, <2>1 DEF Token
<1> HIDE DEF token
<1>6. ASSUME NEW n \in FreshIds, db' = Reserve(d1, c.act, key, token(n), now) PROVE QuietStep
  <2>1. QuietlyKeeps(d1, db')
    BY <1>1, <1>2, <1>3, <1>5, <1>6, ReserveQuiet
  <2> QED
    BY <1>3, <2>1, QuietTransitive DEF QuietStep
<1> QED
  BY <1>3, <1>4, <1>6 DEF QuietStep

LEMMA ActivityQuiet ==
    ASSUME TypeOK, NEW x \in attempts, Activity(x)
    PROVE  QuietStep
<1>1. PICK now \in Instants : \/ HeartbeatEffect(x, now)
                              \/ CompleteEffect(x, now)
                              \/ \E retryable \in BOOLEAN : FailEffect(x, retryable, now)
  BY DEF Activity
<1> DEFINE d1 == ExpireTimeouts(db, Expirable(db, x.token.worker, now), now)
           E  == PendingAttempt(d1, x.act, x.key, x.token)
           e  == CHOOSE y \in E : TRUE
<1>2. now \in Nat /\ db \in Tables
  BY InstantsType DEF TypeOK
<1>3. QuietlyKeeps(db, d1) /\ d1 \in Tables
  BY <1>2, ExpireTimeoutsQuiet, ExpireTimeoutsSafe DEF Safe
<1>4. \/ db' = IF E = {} THEN d1 ELSE Beat(d1, e, now)
      \/ db' = IF E = {} THEN d1 ELSE Complete(d1, e)
      \/ \E retryable \in BOOLEAN : db' = IF E = {} THEN d1 ELSE Fail(d1, e, now, retryable)
  BY <1>1 DEF HeartbeatEffect, CompleteEffect, FailEffect
<1> HIDE DEF d1
<1>5. ASSUME E # {} PROVE e \in d1.effects
  BY <1>5 DEF PendingAttempt, EffectFor, EffectsOf
<1> HIDE DEF E, e
<1>6. CASE E = {}
  BY <1>3, <1>4, <1>6 DEF QuietStep
<1>7. CASE E # {}
  <2>1. e \in d1.effects
    BY <1>5, <1>7
  <2>2. /\ QuietlyKeeps(d1, Beat(d1, e, now))
        /\ QuietlyKeeps(d1, Complete(d1, e))
        /\ \A retryable \in BOOLEAN : QuietlyKeeps(d1, Fail(d1, e, now, retryable))
    BY <1>2, <1>3, <2>1, BeatQuiet, CompleteQuiet, FailQuiet
  <2>3. QuietlyKeeps(d1, db')
    BY <1>4, <1>7, <2>2
  <2> QED
    BY <1>3, <2>3, QuietTransitive DEF QuietStep
<1> QED
  BY <1>6, <1>7

LEMMA UnchangedQuiet == ASSUME db' = db PROVE QuietStep
  BY QuietReflexive DEF QuietStep

LEMMA StepKinds ==
    ASSUME TypeOK, [Next]_vars
    PROVE  QuietStep \/ StartsOrSignals \/ Commits \/ Creates \/ Cancels
<1>1. CASE Clients
  BY <1>1 DEF Clients, StartsOrSignals
<1>2. ASSUME NEW w \in alive, NEW s \in Shards, Shard(w, s) PROVE QuietStep
  <2>1. CASE ReleaseShard(w, s)
    BY <2>1, UnchangedQuiet DEF ReleaseShard
  <2>2. ASSUME NEW now \in Instants, ClaimShard(w, s, now) \/ HeartbeatShard(w, s, now) PROVE QuietStep
    BY <2>2, UnchangedQuiet DEF ClaimShard, HeartbeatShard
  <2> QED
    BY <1>2, <2>1, <2>2, ClaimTasksQuiet DEF Shard
<1>3. ASSUME NEW c \in held, Settles(c) PROVE QuietStep \/ Commits
  <2>1. CASE ReleaseClaim(c) \/ HandlerFails(c)
    <3>1. db' = Released(db, c.act, c.worker)
      BY <2>1 DEF ReleaseClaim, HandlerFails, Released
    <3>2. db \in Tables
      BY DEF TypeOK
    <3> QED
      BY <3>1, <3>2, ReleasedQuiet DEF QuietStep
  <2>2. ASSUME NEW now \in Instants, CommitRefused(c, now) \/ CommitRejected(c, now) PROVE QuietStep
    BY <2>2, UnchangedQuiet DEF CommitRefused, CommitRejected
  <2> QED
    BY <1>3, <2>1, <2>2 DEF Settles, Commits
<1>4. ASSUME NEW c \in held, Handler(c) PROVE QuietStep \/ Creates \/ Cancels
  <2>1. ASSUME NEW start \in c.starts, CancelBuffered(c, start) PROVE QuietStep
    BY <2>1, UnchangedQuiet DEF CancelBuffered
  <2>2. ASSUME NEW k \in CheckpointKeys, FailLocally(c, k) PROVE QuietStep
    BY <2>2, UnchangedQuiet DEF FailLocally
  <2>3. ASSUME NEW now \in Instants, NEW start, BufferStart(c, start, now) PROVE QuietStep
    BY <2>3, UnchangedQuiet DEF BufferStart
  <2>4. ASSUME NEW k \in CheckpointKeys, NEW release \in BOOLEAN, RecordActivationFailure(c, k, release)
        PROVE  QuietStep
    <3>1. c.act \in Activation /\ {k} \in SUBSET EffectKeys
      BY ClaimFields, InputAssumption DEF TypeOK
    <3>2. db' = RecordFailures(db, c.act, {k}, release)
      BY <2>4 DEF RecordActivationFailure
    <3>3. db \in Tables
      BY DEF TypeOK
    <3> QED
      BY <3>1, <3>2, <3>3, RecordFailuresQuiet DEF QuietStep
  <2> QED
    BY <1>4, <2>1, <2>2, <2>3, <2>4, ReserveEffectQuiet DEF Handler, Creates, Cancels
<1>5. CASE \E x \in attempts : Activity(x)
  BY <1>5, ActivityQuiet
<1>6. CASE \E w \in Workers : Crash(w)
  BY <1>6, UnchangedQuiet DEF Crash
<1>7. CASE Tick \/ UNCHANGED vars
  BY <1>7, UnchangedQuiet DEF Tick, vars
<1> QED
  BY <1>1, <1>2, <1>3, <1>4, <1>5, <1>6, <1>7 DEF Next

-------------------------------------------------------------------------------
(* The claims in the hands of workers. *)

\* What a claim f is after a step: a claim that was there before, with no more starts buffered;
\* one that its handler has buffered a start in; or one just handed out, with a task that may
\* wake its run.
Remains(c, f) == f.worker = c.worker /\ f.act = c.act /\ f.starts \subseteq c.starts
Buffers(c, start, now, f) ==
    /\ BufferStart(c, start, now) /\ start \in At(CheckpointStarts, c)
    /\ f.worker = c.worker /\ f.act = c.act /\ f.starts = c.starts \cup {Decided(start, now)}
Buffered(f) == \E c \in held, now \in Instants, start \in ChildStart : Buffers(c, start, now, f)
Handed(f) ==
    /\ f.starts = {} /\ QuietStep
    /\ \E t \in db'.tasks : t.act = f.act /\ Current(db', t) /\ t.version <= VersionOf[f.worker]

LEMMA NewClaimHanded ==
    ASSUME Inv, NEW w \in alive, NEW s \in Shards, NEW now \in Instants, ClaimTasks(w, s, now),
           NEW f \in held', f \notin held
    PROVE  Handed(f)
<1> DEFINE epoch == leases[s].epoch
           d1    == Prepared(db, w, s, now)
<1>1. now \in Nat /\ db \in Tables /\ w \in Workers /\ epoch \in Nat
  BY InstantsType DEF Inv, TypeOK, ShardLease
<1>2. PICK batch \in Batches(d1, s, now, VersionOf[w], epoch, Slots(w)) :
         /\ db' = HandOut(d1, batch, w, s, now, epoch)
         /\ held' = held \cup {NewClaim(d1, t, w, epoch) : t \in Live(d1, batch)}
  BY DEF ClaimTasks
<1>3. d1 \in Tables
  BY <1>1, PreparedSafe DEF Safe
<1> HIDE DEF d1, epoch
<1>4. \A t \in batch : t \in d1.tasks /\ t.version <= VersionOf[w]
  BY <1>2 DEF Batches, Winners, Candidates
<1>5. /\ QuietlyKeeps(d1, db')
      /\ \A t \in Live(d1, batch) : \E u \in db'.tasks : u.act = t.act /\ u.version = t.version
  <2>1. batch \in SUBSET d1.tasks
    BY <1>4
  <2> QED
    BY <1>1, <1>2, <1>3, <2>1, HandOutQuiet
<1>6. PICK t \in Live(d1, batch) : f = NewClaim(d1, t, w, epoch)
  BY <1>2
<1>7. f.starts = {} /\ f.act = t.act /\ f.worker = w
  BY <1>6 DEF NewClaim
<1>8. PICK u \in db'.tasks : u.act = t.act /\ u.version = t.version
  BY <1>5
<1>9. Current(d1, t) /\ t.version <= VersionOf[w]
  BY <1>4 DEF Live
<1>10. Current(db', u)
  BY <1>5, <1>8, <1>9 DEF Current, Running, QuietlyKeeps, Quiet
<1>11. QuietStep
  BY ClaimTasksQuiet DEF Inv
<1> QED
  BY <1>7, <1>8, <1>9, <1>10, <1>11 DEF Handed

LEMMA ForgottenRemains ==
    ASSUME NEW w, NEW H \in SUBSET Claim, NEW f \in Forgotten(w, H)
    PROVE  \E c \in H : Remains(c, f)
<1>1. PICK c \in H : f = IF c.worker = w THEN [c EXCEPT !.state = "forgotten"] ELSE c
  BY DEF Forgotten
<1>2. c \in Claim
  OBVIOUS
<1> QED
  BY <1>1, <1>2 DEF Claim, Remains

LEMMA BufferStartBuffers ==
    ASSUME Inv, NEW c \in held, NEW now \in Instants, NEW start \in At(CheckpointStarts, c),
           BufferStart(c, start, now), NEW f \in held', f \notin held
    PROVE  Buffered(f)
<1>1. f = [c EXCEPT !.starts = c.starts \cup {Decided(start, now)}] /\ c \in Claim
  BY DEF BufferStart, Inv, TypeOK
<1>2. start \in ChildStart
  BY InputAssumption DEF At
<1>3. Buffers(c, start, now, f)
  BY <1>1, <1>2 DEF Buffers, Claim
<1> QED
  BY <1>2, <1>3 DEF Buffered

LEMMA HeldStep ==
    ASSUME Inv, [Next]_vars, NEW f \in held'
    PROVE  (\E c \in held : Remains(c, f)) \/ Buffered(f) \/ Handed(f)
<1> DEFINE Old == \E c \in held : Remains(c, f)
<1>1. held \subseteq Claim
  BY DEF Inv, TypeOK
<1>2. f \in held => Old
  BY DEF Remains
<1>3. ASSUME Clients \/ (\E x \in attempts : Activity(x)) \/ Tick \/ UNCHANGED vars PROVE f \in held
  BY <1>3 DEF Clients, StartWorkflow, Signals, StartSendSignal, Activity, HeartbeatEffect, CompleteEffect,
              FailEffect, Tick, vars
<1>4. ASSUME NEW w \in alive, NEW s \in Shards, Shard(w, s) PROVE Old \/ Handed(f)
  <2>1. ASSUME NEW now \in Instants, ClaimTasks(w, s, now) PROVE f \in held \/ Handed(f)
    BY <2>1, NewClaimHanded
  <2>2. ASSUME ReleaseShard(w, s) PROVE f \in held
    BY <2>2 DEF ReleaseShard
  <2>3. ASSUME NEW now \in Instants, ClaimShard(w, s, now) \/ HeartbeatShard(w, s, now) PROVE f \in held
    BY <2>3 DEF ClaimShard, HeartbeatShard
  <2> QED
    BY <1>2, <1>4, <2>1, <2>2, <2>3 DEF Shard
<1>5. ASSUME NEW c \in held, Settles(c) PROVE Old
  <2>1. ASSUME ReleaseClaim(c) \/ (\E now \in Instants : \E res \in Results(c) : Commit(c, res, now)) PROVE f \in held
    BY <2>1 DEF ReleaseClaim, Commit
  <2>2. ASSUME HandlerFails(c) PROVE Old
    <3>1. held' = Forgotten(c.worker, held \ {c}) /\ held \ {c} \in SUBSET Claim
      BY <1>1, <2>2 DEF HandlerFails
    <3> QED
      BY <3>1, ForgottenRemains
  <2>3. ASSUME NEW now \in Instants, CommitRejected(c, now) PROVE Old
    <3>1. held' = Forgotten(c.worker, held) /\ held \in SUBSET Claim
      BY <1>1, <2>3 DEF CommitRejected
    <3> QED
      BY <3>1, ForgottenRemains
  <2>4. ASSUME NEW now \in Instants, CommitRefused(c, now) PROVE Old
    <3>1. f \in held \/ f = [c EXCEPT !.state = "refused"]
      BY <2>4 DEF CommitRefused
    <3>2. c \in Claim
      BY <1>1
    <3>3. Remains(c, [c EXCEPT !.state = "refused"])
      BY <3>2 DEF Claim, Remains
    <3> QED
      BY <1>2, <3>1, <3>3
  <2> QED
    BY <1>2, <1>5, <2>1, <2>2, <2>3, <2>4 DEF Settles
<1>6. ASSUME NEW c \in held, Handler(c) PROVE Old \/ Buffered(f)
  <2>1. c \in Claim
    BY <1>1
  <2>2. ASSUME NEW start \in c.starts, CancelBuffered(c, start) PROVE Old
    <3>1. f \in held \/ f = [c EXCEPT !.starts = c.starts \ {start}]
      BY <2>2 DEF CancelBuffered
    <3>2. Remains(c, [c EXCEPT !.starts = c.starts \ {start}])
      BY <2>1 DEF Claim, Remains
    <3> QED
      BY <1>2, <3>1, <3>2
  <2>3. ASSUME NEW k \in CheckpointKeys, FailLocally(c, k) PROVE Old
    <3>1. f \in held \/ f = [c EXCEPT !.failed = c.failed \cup {k}]
      BY <2>3 DEF FailLocally
    <3>2. Remains(c, [c EXCEPT !.failed = c.failed \cup {k}])
      BY <2>1 DEF Claim, Remains
    <3> QED
      BY <1>2, <3>1, <3>2
  <2>4. ASSUME NEW now \in Instants, NEW start \in At(CheckpointStarts, c), BufferStart(c, start, now)
        PROVE  f \in held \/ Buffered(f)
    BY <2>4, BufferStartBuffers
  <2>5. ASSUME NEW k \in CheckpointKeys, NEW release \in BOOLEAN, RecordActivationFailure(c, k, release)
        PROVE  f \in held
    BY <2>5 DEF RecordActivationFailure
  <2>6. ASSUME NEW now \in Instants,
               \/ \E start \in At(EagerStarts, c) : CreateChild(c, start, now)
               \/ \E r \in Refs : CancelChild(c, r, now)
               \/ \E k \in EagerKeys : ReserveEffect(c, k, now)
        PROVE  f \in held
    BY <2>6 DEF CreateChild, CancelChild, ReserveEffect
  <2> QED
    BY <1>2, <1>6, <2>2, <2>3, <2>4, <2>5, <2>6 DEF Handler
<1>7. ASSUME NEW w \in Workers, Crash(w) PROVE f \in held
  BY <1>7 DEF Crash
<1> QED
  BY <1>2, <1>3, <1>4, <1>5, <1>6, <1>7 DEF Next

-------------------------------------------------------------------------------
(* What the steps make of the runs. *)

\* The starts the runtime buffers ask to fail if the run exists (DurableContext::child_start,
\* lib.rs 7187), and a workflow does not start its own id under a policy that may find itself.
RuntimeStarts == \A x \in CheckpointStarts : x.start.conflict = "fail"
NoSelfStart == \A x \in CheckpointStarts : x.start.reuse # "always" => x.start.ref[1] # x.id

\* So are the starts in the hands of workers, each for a run of its own.
HeldStarts ==
    \A c \in held :
        /\ \A x \in c.starts : /\ x.conflict = "fail"
                               /\ x.reuse # "always" => x.ref[1] # c.act.ref[1]
        /\ \A x, y \in c.starts : x # y => x.ref # y.ref

LEMMA DecidedFields ==
    ASSUME NEW start \in ChildStart, NEW now \in Nat
    PROVE  LET x == Decided(start, now)
           IN  x.conflict = start.conflict /\ x.reuse = start.reuse /\ x.ref[1] = start.ref[1]
<1> DEFINE kept == KeptRun(db, start)
           ref  == IF kept = {} THEN start.ref ELSE CHOOSE r \in kept : TRUE
<1>1. Decided(start, now) = [start EXCEPT !.at = now, !.ref = ref]
  BY DEF Decided
<1>2. ref[1] = start.ref[1]
  <2>1. \A r \in kept : r[1] = start.ref[1]
    BY DEF KeptRun, Latest, LastOf, RunsOf
  <2> HIDE DEF kept
  <2> QED
    BY <2>1
<1> HIDE DEF ref
<1> QED
  BY <1>1, <1>2 DEF ChildStart

LEMMA HeldStartsStep ==
    ASSUME Inv, HeldStarts, [Next]_vars, RuntimeStarts, NoSelfStart
    PROVE  HeldStarts'
<1> SUFFICES ASSUME NEW f \in held'
             PROVE  /\ \A x \in f.starts : /\ x.conflict = "fail"
                                           /\ x.reuse # "always" => x.ref[1] # f.act.ref[1]
                    /\ \A x, y \in f.starts : x # y => x.ref # y.ref
  BY DEF HeldStarts
<1>1. CASE \E c \in held : Remains(c, f)
  BY <1>1 DEF HeldStarts, Remains
<1>2. CASE Handed(f)
  BY <1>2 DEF Handed
<1>3. ASSUME NEW c \in held, NEW now \in Instants, NEW start \in ChildStart, Buffers(c, start, now, f)
      PROVE  /\ \A x \in f.starts : /\ x.conflict = "fail"
                                    /\ x.reuse # "always" => x.ref[1] # f.act.ref[1]
             /\ \A x, y \in f.starts : x # y => x.ref # y.ref
  <2> DEFINE new == Decided(start, now)
  <2>1. f.act = c.act /\ f.starts = c.starts \cup {new} /\ \A x \in c.starts : x.ref # new.ref
    BY <1>3 DEF Buffers, BufferStart
  <2>2. start.conflict = "fail" /\ (start.reuse # "always" => start.ref[1] # c.act.ref[1])
    BY <1>3 DEF Buffers, At, RuntimeStarts, NoSelfStart
  <2>3. new.conflict = start.conflict /\ new.reuse = start.reuse /\ new.ref[1] = start.ref[1]
    <3>1. now \in Nat
      BY InstantsType DEF Inv
    <3> QED
      BY <3>1, DecidedFields
  <2> HIDE DEF new
  <2> QED
    BY <2>1, <2>2, <2>3 DEF HeldStarts
<1> QED
  BY <1>1, <1>2, <1>3, HeldStep DEF Buffered

\* A signal that is new for a run or known already.
SignalAdded(d, e, r) ==
    /\ e \in Tables
    /\ e.inst = d.inst /\ e.children = d.children /\ e.completed = d.completed
    /\ e.childCounter = d.childCounter
    /\ \/ e.signals = d.signals /\ e.signalCounter = d.signalCounter
       \/ \E s \in Signal : /\ s.id = d.signalCounter + 1 /\ s.ref = r /\ s.consumed = 0
                            /\ e.signals = d.signals \cup {s} /\ e.signalCounter = d.signalCounter + 1

\* What a client's call makes of the tables.
Begins(r) == Begun(db, db', r) /\ (db.inst[r].status = "absent" \/ \E in \in ClientStarts : in.conflict = "terminate_existing")
Receives(r) == SignalAdded(db, db', r) /\ db.signalCounter < MaxSignals
BeginsWithSignal(r) ==
    /\ db.inst[r].status = "absent" /\ db.signalCounter < MaxSignals
    /\ \E e \in Tables : Begun(db, e, r) /\ SignalAdded(e, db', r)
Arrives == \E r \in Refs : Begins(r) \/ Receives(r) \/ BeginsWithSignal(r)

KeepsAll == \A q \in Refs : Keeps(db, db', q)

LEMMA SignalArrives ==
    ASSUME NEW d \in Tables, NEW r \in Refs, NEW type \in SignalTypes,
           NEW key \in Keys \cup {NoKey}, NEW now \in Nat
    PROVE  LET e == AppendSignal(d, r, type, key, now)
           IN  SignalAdded(d, e, r) /\ \A q \in Refs : Keeps(d, e, q)
<1> DEFINE s == [id |-> d.signalCounter + 1, ref |-> r, type |-> type, key |-> key,
                 at |-> now, consumed |-> 0]
           e == AppendSignal(d, r, type, key, now)
<1>1. s \in Signal /\ s.id = d.signalCounter + 1 /\ s.ref = r /\ s.consumed = 0
  BY DEF Tables, Signal
<1>2. /\ e \in Tables
      /\ \A q \in Refs : Keeps(d, e, q)
      /\ e.inst = d.inst /\ e.children = d.children /\ e.completed = d.completed
      /\ e.childCounter = d.childCounter
      /\ IF SignalsWithKey(d, r, type, key) # {}
         THEN e.signals = d.signals /\ e.signalCounter = d.signalCounter
         ELSE e.signals = d.signals \cup {s} /\ e.signalCounter = d.signalCounter + 1
  BY AppendSignalKeeps
<1> HIDE DEF s, e
<1>3. SignalAdded(d, e, r)
  BY <1>1, <1>2 DEF SignalAdded
<1> QED
  BY <1>2, <1>3 DEF e

LEMMA StartArrives ==
    ASSUME NEW d \in Tables, NEW r \in Refs, NEW version \in Versions, NEW now \in Nat
    PROVE  LET e == CreateInstance(d, r, version, Materialize(InitialWaits[r[1]], now, now), now)
           IN  Begun(d, e, r) /\ \A q \in Refs : Keeps(d, e, q)
<1> DEFINE W == Materialize(InitialWaits[r[1]], now, now)
           e == CreateInstance(d, r, version, W, now)
<1>1. W \in SUBSET Wait /\ version \in Nat
  BY InitialWaitsType, NumberAssumption
<1> HIDE DEF W
<1>2. Begun(d, e, r) /\ \A q \in Refs : Keeps(d, e, q)
  BY <1>1, CreateInstanceKeeps
<1> QED
  BY <1>2 DEF W

LEMMA ClientsArrive ==
    ASSUME TypeOK, StartsOrSignals
    PROVE  Arrives /\ KeepsAll
<1>1. db \in Tables /\ Instants \subseteq Nat
  BY InstantsType DEF TypeOK
<1>2. ASSUME NEW now \in Instants, NEW in \in ClientStarts, StartWorkflow(in, now) PROVE Arrives /\ KeepsAll
  <2>1. in.ref \in Refs /\ in.version \in Versions
    BY InputAssumption
  <2>2. Begun(db, db', in.ref) /\ KeepsAll
    BY <1>1, <1>2, <2>1, StartArrives DEF StartWorkflow, KeepsAll
  <2> QED
    BY <1>2, <2>1, <2>2 DEF StartWorkflow, Arrives, Begins
<1>3. ASSUME NEW now \in Instants, NEW in \in Appends, Signals(in, now) PROVE Arrives /\ KeepsAll
  <2>1. in.ref \in Refs /\ in.type \in SignalTypes /\ in.key \in Keys \cup {NoKey}
    BY InputAssumption
  <2>2. SignalAdded(db, db', in.ref) /\ KeepsAll
    BY <1>1, <1>3, <2>1, SignalArrives DEF Signals, KeepsAll
  <2> QED
    BY <1>3, <2>1, <2>2 DEF Signals, Arrives, Receives
<1>4. ASSUME NEW now \in Instants, NEW in \in SendStarts, StartSendSignal(in, now) PROVE Arrives /\ KeepsAll
  <2>1. /\ in.ref \in Refs /\ in.version \in Versions
        /\ in.type \in SignalTypes /\ in.key \in Keys \cup {NoKey}
    BY InputAssumption
  <2>2. db.signalCounter < MaxSignals
    BY <1>4 DEF StartSendSignal
  <2>3. ASSUME NEW r \in Refs, db' = AppendSignal(db, r, in.type, in.key, now) PROVE Arrives /\ KeepsAll
    <3>1. SignalAdded(db, db', r) /\ KeepsAll
      BY <1>1, <2>1, <2>3, SignalArrives DEF KeepsAll
    <3> QED
      BY <2>2, <3>1 DEF Arrives, Receives
  <2>4. CASE SendToTarget(in, now)
    BY <2>1, <2>3, <2>4 DEF SendToTarget
  <2>5. CASE SendToRunning(in, now)
    BY <2>3, <2>5 DEF SendToRunning, LatestRunning, LastOf, RunsOf
  <2>6. CASE SendAndStart(in, now)
    <3> DEFINE e == CreateInstance(db, in.ref, in.version, Materialize(InitialWaits[in.ref[1]], now, now), now)
    <3>1. db' = AppendSignal(e, in.ref, in.type, in.key, now) /\ db.inst[in.ref].status = "absent"
      BY <2>6 DEF SendAndStart
    <3>2. Begun(db, e, in.ref) /\ \A q \in Refs : Keeps(db, e, q)
      BY <1>1, <2>1, StartArrives
    <3> HIDE DEF e
    <3>3. e \in Tables
      BY <3>2 DEF Begun
    <3>4. SignalAdded(e, db', in.ref) /\ \A q \in Refs : Keeps(e, db', q)
      BY <1>1, <2>1, <3>1, <3>3, SignalArrives
    <3>5. BeginsWithSignal(in.ref)
      BY <2>2, <3>1, <3>2, <3>3, <3>4 DEF BeginsWithSignal
    <3>6. KeepsAll
      BY <3>2, <3>4 DEF KeepsAll, Keeps
    <3> QED
      BY <2>1, <3>5, <3>6 DEF Arrives
  <2> QED
    BY <1>4, <2>4, <2>5, <2>6 DEF StartSendSignal
<1> QED
  BY <1>2, <1>3, <1>4 DEF StartsOrSignals

\* What a commit, a child started or canceled by a handler make of the tables.
Advances ==
    \E c \in held, next \in {"running"} \cup Closed, S \in SUBSET Refs :
        /\ held' = held \ {c} /\ Running(db, c.act.ref) /\ db.inst[c.act.ref].seq = c.act.seq
        /\ Consumable(db, c.act)
        /\ Advanced(db, c, next, S, db')
Spawns == \E r \in Refs : StartsRuns(db, db', {r})
Halted(d, e, r) ==
    /\ e \in Tables
    /\ \A q \in Refs :
         \/ e.inst[q] = d.inst[q]
         \/ /\ q = r /\ Running(d, r)
            /\ e.inst[q].status = "canceled" /\ e.inst[q].seq = d.inst[q].seq
            /\ e.inst[q].version = d.inst[q].version
    /\ e.signals = d.signals /\ e.completed = d.completed
    /\ e.signalCounter = d.signalCounter /\ e.childCounter = d.childCounter
    /\ Closing(d.children, e.children, {})
Halts == \E r \in Refs : Halted(db, db', r)

\* What the tables must be like for a checkpoint to be accepted.
LEMMA AgreeableClaim ==
    ASSUME NEW d, NEW c, Conflict(d, c) = "none"
    PROVE  /\ Running(d, c.act.ref) /\ d.inst[c.act.ref].seq = c.act.seq
           /\ Consumable(d, c.act)
           /\ \A x \in c.starts : \/ d.inst[x.ref].status = "absent"
                                  \/ x.conflict = "terminate_existing"
                                  \/ x.ref \in KeptRun(d, x)
<1>1. Running(d, c.act.ref) /\ d.inst[c.act.ref].seq = c.act.seq
  BY DEF Conflict
<1>2. Consumable(d, c.act)
  BY DEF Conflict, Consumable
<1>3. StartConflict(d, c.starts) = "none"
  BY <1>1, <1>2 DEF Conflict, Consumable
<1> QED
  BY <1>1, <1>2, <1>3 DEF StartConflict

LEMMA CommitAdvances ==
    ASSUME Inv, HeldStarts, Commits
    PROVE  Advances /\ KeepsAll
<1>1. PICK c \in held, now \in Instants : \E res \in Results(c) : Commit(c, res, now)
  BY DEF Commits
<1>2. PICK res \in Results(c) : Commit(c, res, now)
  BY <1>1
<1> DEFINE waits == Materialize(res.template, c.at, now)
<1>3. now \in Nat /\ db \in Tables /\ c \in Claim /\ c.starts \in SUBSET ChildStart /\ Sound(db)
  BY InstantsType, ClaimFields DEF Inv, TypeOK
<1>4. res.next \in {"running"} \cup Closed /\ waits \in SUBSET Wait
  BY <1>3, ResultsType, ClaimFields, MaterializeType
<1>5. PICK starts \in Orders(c.starts) : db' = Checkpoint(db, c, res.next, waits, starts, now)
  BY <1>2 DEF Commit
<1> HIDE DEF waits
<1>6. starts \in Seq(ChildStart) /\ Len(starts) <= 2
  BY <1>3, <1>5, OrdersType
<1>7. /\ \A k \in DOMAIN starts : starts[k] \in c.starts
      /\ \A k, l \in DOMAIN starts : k # l => starts[k] # starts[l]
  BY <1>5 DEF Orders
<1>8. Conflict(db, c) = "none" /\ held' = held \ {c}
  BY <1>2 DEF Commit, Refusal
<1>9. /\ Running(db, c.act.ref) /\ db.inst[c.act.ref].seq = c.act.seq /\ Consumable(db, c.act)
      /\ \A x \in c.starts : Accepted(db, x) /\ (x.reuse # "always" => x.ref[1] # c.act.ref[1])
  BY <1>8, AgreeableClaim DEF HeldStarts, Accepted
<1>10. Distinct(starts)
  BY <1>7 DEF Distinct, HeldStarts
<1> DEFINE S == {starts[k].ref : k \in DOMAIN starts}
<1>11. S \in SUBSET Refs
  BY <1>3, <1>7 DEF ChildStart
<1>12. Advanced(db, c, res.next, S, db') /\ KeepsAll
  BY <1>3, <1>4, <1>5, <1>6, <1>7, <1>9, <1>10, CheckpointKeeps DEF KeepsAll
<1> HIDE DEF S
<1> QED
  BY <1>4, <1>8, <1>9, <1>11, <1>12 DEF Advances

LEMMA CreatesSpawns ==
    ASSUME TypeOK, Creates
    PROVE  Spawns /\ KeepsAll
<1>1. PICK c \in held, now \in Instants : \E start \in At(EagerStarts, c) : CreateChild(c, start, now)
  BY DEF Creates
<1>2. PICK start \in At(EagerStarts, c) : CreateChild(c, start, now)
  BY <1>1
<1> DEFINE eager == [start EXCEPT !.at = now, !.conflict = "fail"]
<1>3. c \in Claim /\ db \in Tables /\ now \in Nat
  BY InstantsType DEF TypeOK
<1>4. start \in ChildStart
  BY InputAssumption DEF At
<1>5. /\ eager \in ChildStart /\ eager.ref = start.ref /\ eager.conflict = "fail"
      /\ eager.reuse = start.reuse
  BY <1>3, <1>4 DEF ChildStart, ConflictPolicies
<1>6. db' = Started(db, c, eager, now) /\ (KeptRun(db, start) = {} => db.inst[start.ref].status = "absent")
  BY <1>2 DEF CreateChild
<1> HIDE DEF eager
<1>7. KeptRun(db, eager) = KeptRun(db, start)
  BY <1>5 DEF KeptRun
<1>8. Accepted(db, eager)
  BY <1>5, <1>6, <1>7 DEF Accepted
<1>9. StartsRuns(db, db', {eager.ref}) /\ KeepsAll
  BY <1>3, <1>5, <1>6, <1>8, StartedKeeps DEF KeepsAll
<1>10. eager.ref \in Refs
  BY <1>4, <1>5 DEF ChildStart
<1> QED
  BY <1>9, <1>10 DEF Spawns

LEMMA CancelsHalts ==
    ASSUME TypeOK, Cancels
    PROVE  Halts /\ KeepsAll
<1>1. PICK c \in held, now \in Instants, r \in Refs : CancelChild(c, r, now)
  BY DEF Cancels
<1>2. c.act.ref \in Refs /\ db \in Tables /\ now \in Nat
  BY InstantsType, ClaimFields DEF TypeOK
<1>3. db' = CancelChildRun(db, c.act.ref, r, now)
  BY <1>1 DEF CancelChild
<1>4. Halted(db, db', r) /\ KeepsAll
  BY <1>2, <1>3, CancelChildRunKeeps DEF Halted, KeepsAll
<1> QED
  BY <1>4 DEF Halts

\* Every step of the engine keeps the wake-ups and reasons of every run.
LEMMA EngineStep ==
    ASSUME Inv, HeldStarts, [Next]_vars
    PROVE  KeepsAll /\ (QuietStep \/ Arrives \/ Advances \/ Spawns \/ Halts)
<1>1. TypeOK
  BY DEF Inv
<1>2. QuietStep => KeepsAll
  BY DEF QuietStep, QuietlyKeeps, KeepsAll
<1> QED
  BY <1>1, <1>2, StepKinds, ClientsArrive, CommitAdvances, CreatesSpawns, CancelsHalts

-------------------------------------------------------------------------------
(* The oldest of the events a wait can take. *)

LEMMA Least == ASSUME NEW S \in SUBSET Nat, S # {} PROVE \E x \in S : \A y \in S : x <= y
<1> DEFINE R == {ss \in Nat \X Nat : ss[1] < ss[2]}
<1>1. IsWellFoundedOn(R, Nat)
  BY NatLessThanWellFounded DEF OpToRel
<1>2. PICK x \in S : \A y \in S : ~ (<<y, x>> \in R)
  <2> HIDE DEF R
  <2> QED BY <1>1, WFMin
<1>3. \A y \in S : <<y, x>> \in Nat \X Nat /\ <<y, x>>[1] = y /\ <<y, x>>[2] = x
  OBVIOUS
<1>4. \A y \in S : ~ (y < x)
  BY <1>2, <1>3
<1> QED
  BY <1>4

\* Induction, over a set of numbers.
LEMMA FromZeroUp ==
    ASSUME NEW S, 0 \in S, \A n \in Nat : n \in S => n + 1 \in S
    PROVE  \A n \in Nat : n \in S
<1> DEFINE B == {n \in Nat : n \notin S}
<1> SUFFICES ASSUME B # {} PROVE FALSE
  OBVIOUS
<1>1. PICK x \in B : \A y \in B : x <= y
  BY Least
<1>2. x \in Nat /\ x # 0 /\ x - 1 \in Nat
  OBVIOUS
<1>3. x - 1 \in S
  BY <1>1, <1>2
<1> QED
  BY <1>2, <1>3

LEMMA EarliestExists ==
    ASSUME NEW S, NEW at, S # {}, \A x \in S : x[at] \in Nat /\ x.id \in Nat
    PROVE  \E o \in Earliest(S, at) : \A y \in S : o[at] <= y[at]
<1> DEFINE T == {x[at] : x \in S}
<1>1. PICK x \in S : \A y \in S : x[at] <= y[at]
  <2>1. T \in SUBSET Nat /\ T # {}
    OBVIOUS
  <2>2. PICK t \in T : \A y \in T : t <= y
    BY <2>1, Least
  <2> QED
    BY <2>2
<1> DEFINE U == {y \in S : y[at] = x[at]}
           I == {y.id : y \in U}
<1>2. PICK o \in U : \A y \in U : o.id <= y.id
  <2>1. I \in SUBSET Nat /\ I # {}
    OBVIOUS
  <2>2. PICK i \in I : \A y \in I : i <= y
    BY <2>1, Least
  <2> QED
    BY <2>2
<1>3. \A y \in S : o[at] < y[at] \/ (o[at] = y[at] /\ o.id <= y.id)
  BY <1>1, <1>2
<1>4. o \in Earliest(S, at)
  BY <1>2, <1>3 DEF Earliest
<1> QED
  BY <1>1, <1>4

LEMMA CarriedTask ==
    ASSUME TypeOK, NEW r \in Refs, NEW w \in Wait, NEW u \in TasksForWait(db, r, w), Woken(db, r, w)
    PROVE  TaskCarries(r, w, u.act.n)
<1>1. PICK t \in db.tasks : t.act = u.act /\ t.wait = u.wait
  BY DEF Woken
<1>2. db \in Tables
  BY DEF TypeOK
<1> QED
  BY <1>1, <1>2, WaitTaskFields DEF TaskCarries

LEMMA CarriedSignal ==
    ASSUME TypeOK, NEW r \in Refs, NEW w \in Wait, w.kind = "signal", Woken(db, r, w),
           NEW s \in Deliverable(db, r, w)
    PROVE  \E o \in db.signals : o.at <= s.at /\ o.type = s.type /\ TaskCarries(r, w, o.id)
<1> DEFINE S == Deliverable(db, r, w)
<1>1. \A x \in S : x \in db.signals /\ x.at \in Nat /\ x.id \in Nat /\ x.type = w.type
  <2>1. db.signals \in SUBSET Signal
    BY DEF TypeOK, Tables
  <2> QED
    BY <2>1 DEF Deliverable, Signal
<1> HIDE DEF S
<1>2. PICK o \in Earliest(S, "at") : \A y \in S : o["at"] <= y["at"]
  BY <1>1, EarliestExists DEF S
<1>3. o \in S
  BY DEF Earliest
<1>4. o.at <= s.at /\ o.type = s.type /\ o \in db.signals
  BY <1>1, <1>2, <1>3 DEF S
<1> DEFINE u == TaskFor(db, r, "signal", 0, o.id, w.name, o.at)
<1>5. u \in TasksForWait(db, r, w)
  BY DEF TasksForWait, S
<1>6. u.act.n = o.id
  BY DEF TaskFor
<1> HIDE DEF u
<1>7. TaskCarries(r, w, o.id)
  BY <1>5, <1>6, CarriedTask
<1> QED
  BY <1>4, <1>7

LEMMA CarriedReport ==
    ASSUME TypeOK, NEW r \in Refs, NEW w \in Wait, w.kind = "child", Woken(db, r, w),
           NEW c \in Finished(db, r, w)
    PROVE  \E o \in db.children : o.completedAt <= c.completedAt /\ TaskCarries(r, w, o.id)
<1> DEFINE S == Finished(db, r, w)
<1>1. \A x \in S : x \in db.children /\ x.completedAt \in Nat /\ x.id \in Nat
  <2>1. db.children \in SUBSET Child
    BY DEF TypeOK, Tables
  <2> QED
    BY <2>1 DEF Finished, Child
<1> HIDE DEF S
<1>2. PICK o \in Earliest(S, "completedAt") : \A y \in S : o["completedAt"] <= y["completedAt"]
  BY <1>1, EarliestExists DEF S
<1>3. o \in S
  BY DEF Earliest
<1>4. o.completedAt <= c.completedAt /\ o \in db.children
  BY <1>1, <1>2, <1>3 DEF S
<1> DEFINE u == TaskFor(db, r, "child", 0, o.id, w.name, o.completedAt)
<1>5. u \in TasksForWait(db, r, w)
  BY WaitFields DEF TasksForWait, S
<1>6. u.act.n = o.id
  BY DEF TaskFor
<1> HIDE DEF u
<1>7. TaskCarries(r, w, o.id)
  BY <1>5, <1>6, CarriedTask
<1> QED
  BY <1>4, <1>7

-------------------------------------------------------------------------------
(* Theorems. *)

\* The tasks are what the waits and the events of the runs call for.
WorkInv == Inv /\ HeldStarts /\ \A r \in Refs : Wakes(db, r) /\ Reasons(db, r)

LEMMA WorkInit == Init => WorkInv
<1> SUFFICES ASSUME Init PROVE WorkInv
  OBVIOUS
<1>1. Inv /\ HeldStarts
  BY InitInv DEF Init, HeldStarts
<1>2. \A r \in Refs : Wakes(db, r) /\ Reasons(db, r)
  BY DEF Init, EmptyTables, NoInstance, Wakes, Reasons, Running
<1> QED
  BY <1>1, <1>2 DEF WorkInv

LEMMA WorkStep ==
    ASSUME WorkInv, [Next]_vars, RuntimeStarts, NoSelfStart
    PROVE  WorkInv'
<1>1. Inv' /\ HeldStarts'
  BY NextStep, HeldStartsStep DEF WorkInv
<1>2. KeepsAll
  BY EngineStep DEF WorkInv
<1>3. \A r \in Refs : Wakes(db', r) /\ Reasons(db', r)
  BY <1>2 DEF WorkInv, KeepsAll, Keeps
<1>4. (\A r \in Refs : Wakes(db, r) /\ Reasons(db, r))'
  BY <1>3 DEF Wakes, Reasons, Woken, TasksForWait, TaskFor, Deliverable, Finished, HasReason, Current, Running, Inbox, Reports
<1> QED
  BY <1>1, <1>4 DEF WorkInv

\* The tasks stay what the waits and the events of the runs call for, in every behaviour of the
\* engine (replace_tasks_for_instance and the refreshes of the tasks).
THEOREM WorkHolds == ASSUME RuntimeStarts, NoSelfStart PROVE Spec => []WorkInv
<1>1. WorkInv /\ [Next]_vars => WorkInv'
  BY WorkStep
<1> QED
  BY WorkInit, <1>1, PTL DEF Spec

\* No wake-up is lost: whatever clients, workers, children and timeouts do, a running run has
\* a task for every wait that is ready, for the oldest event it can take
\* (replace_tasks_for_instance, refresh_signal_tasks_for_instance,
\* refresh_child_tasks_for_instance, insert_task_for_wait).
THEOREM WakeUpsAreKept == ASSUME RuntimeStarts, NoSelfStart PROVE Spec => []NoLostWakeUp
<1>1. ASSUME WorkInv PROVE NoLostWakeUp
  <2>1. SUFFICES ASSUME NEW r \in Refs, Running(db, r), NEW w \in db.inst[r].waits
        PROVE  /\ w.kind = "run" => TaskCarries(r, w, 0)
               /\ w.kind = "timer" => TaskCarries(r, w, w.at)
               /\ w.kind = "signal" => \A s \in Deliverable(db, r, w) :
                    \E o \in db.signals : o.at <= s.at /\ o.type = s.type /\ TaskCarries(r, w, o.id)
               /\ w.kind = "child" => \A c \in Finished(db, r, w) :
                    \E o \in db.children : o.completedAt <= c.completedAt /\ TaskCarries(r, w, o.id)
    BY DEF NoLostWakeUp, Deliverable, Finished
  <2>2. TypeOK /\ db \in Tables
    BY <1>1 DEF WorkInv, Inv, TypeOK
  <2>3. w \in Wait
    BY <2>1, <2>2, InstanceFields
  <2>4. Woken(db, r, w)
    BY <1>1, <2>1 DEF WorkInv, Wakes
  <2>5. ASSUME w.kind = "run" PROVE TaskCarries(r, w, 0)
    <3>1. TaskFor(db, r, "run", w.name, 0, w.name, w.at) \in TasksForWait(db, r, w)
      BY <2>5 DEF TasksForWait
    <3>2. TaskFor(db, r, "run", w.name, 0, w.name, w.at).act.n = 0
      BY DEF TaskFor
    <3> QED
      BY <2>2, <2>3, <2>4, <3>1, <3>2, CarriedTask
  <2>6. ASSUME w.kind = "timer" PROVE TaskCarries(r, w, w.at)
    <3>1. TaskFor(db, r, "timer", w.name, w.at, w.name, w.at) \in TasksForWait(db, r, w)
      BY <2>6 DEF TasksForWait
    <3>2. TaskFor(db, r, "timer", w.name, w.at, w.name, w.at).act.n = w.at
      BY DEF TaskFor
    <3> QED
      BY <2>2, <2>3, <2>4, <3>1, <3>2, CarriedTask
  <2> QED
    BY <2>2, <2>3, <2>4, <2>5, <2>6, CarriedSignal, CarriedReport
<1> QED
  BY <1>1, WorkHolds, PTL

\* No task outlives its reason: every task is of a running run at its current sequence, and a
\* signal or child task is for an event nobody has taken, so that a worker that claims it can
\* commit it (delete_task wherever a run advances, closes or is canceled).
THEOREM TasksHaveReasons == ASSUME RuntimeStarts, NoSelfStart PROVE Spec => []NoPhantomTask
<1>1. ASSUME WorkInv PROVE NoPhantomTask
  <2>1. SUFFICES ASSUME NEW t \in db.tasks
        PROVE  /\ Running(db, t.act.ref) /\ db.inst[t.act.ref].seq = t.act.seq
               /\ t.act.kind = "signal" =>
                    \E s \in db.signals : s.id = t.act.n /\ s.ref = t.act.ref /\ s.consumed = 0
               /\ t.act.kind = "child" =>
                    \E c \in db.children : c.id = t.act.n /\ c.parent = t.act.ref /\ c.delivered = 0
    BY DEF NoPhantomTask
  <2>2. t.act.ref \in Refs
    BY <1>1, TaskFields DEF WorkInv, Inv
  <2>3. HasReason(db, t)
    BY <1>1, <2>2 DEF WorkInv, Reasons
  <2> QED
    BY <2>3 DEF HasReason, Current, Inbox, Reports
<1> QED
  BY <1>1, WorkHolds, PTL
===============================================================================
