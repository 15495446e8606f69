---------------------------- MODULE ShardRunProofs ----------------------------
(***************************************************************************)
(* What a user of the engine may rely on, for every number of runs,        *)
(* signals, children, shards and workers: a checkpoint for each sequence   *)
(* and no more, a signal or an outcome consumed with the checkpoint it     *)
(* woke and for good, closed runs that stay closed, and the runs of        *)
(* DurableRuns behind it all.  The proofs use what ShardWakeUpProofs says  *)
(* a step makes of the runs (EngineStep), not how it does so.              *)
(***************************************************************************)
EXTENDS ShardWakeUpProofs, FiniteSetTheorems

\* No client asks to terminate a run that exists: with terminate_existing a run id may be used
\* again, and the new run of that id starts from nothing.
NobodyTerminates == \A in \in ClientStarts : in.conflict # "terminate_existing"

-------------------------------------------------------------------------------
(* The steps that commit nothing. *)

OtherStep == QuietStep \/ Arrives \/ Spawns \/ Halts

\* Such a step leaves what has been committed, consumed and delivered as it was.
LEMMA OtherTables ==
    ASSUME Inv, OtherStep
    PROVE  /\ db'.completed = db.completed
           /\ db.signalCounter <= db'.signalCounter /\ db.childCounter <= db'.childCounter
           /\ \A s \in db.signals : s \in db'.signals
           /\ \A s \in db'.signals : s \in db.signals \/ s.consumed = 0
           /\ \A x \in db.children : \E f \in db'.children : SameChild(x, f) /\ (x.status # "started" => f = x)
           /\ \A f \in db'.children :
                \/ \E x \in db.children : /\ SameChild(x, f) /\ (x.status # "started" => f = x)
                                          /\ f.status = "started" => f = x
                                          /\ f.delivered = x.delivered
                \/ f.id > db.childCounter /\ f.delivered = 0
<1> DEFINE Goal(e) ==
           /\ e.completed = db.completed
           /\ db.signalCounter <= e.signalCounter /\ db.childCounter <= e.childCounter
           /\ \A s \in db.signals : s \in e.signals
           /\ \A s \in e.signals : s \in db.signals \/ s.consumed = 0
           /\ \A x \in db.children : \E f \in e.children : SameChild(x, f) /\ (x.status # "started" => f = x)
           /\ \A f \in e.children :
                \/ \E x \in db.children : /\ SameChild(x, f) /\ (x.status # "started" => f = x)
                                          /\ f.status = "started" => f = x
                                          /\ f.delivered = x.delivered
                \/ f.id > db.childCounter /\ f.delivered = 0
<1>1. db \in Tables /\ db.signalCounter \in Nat /\ db.childCounter \in Nat
  BY DEF Inv, TypeOK, Tables
<1>2. CASE QuietStep
  <2>1. Quiet(db, db')
    BY <1>2 DEF QuietStep, QuietlyKeeps
  <2> QED
    BY <1>1, <2>1 DEF Quiet, SameChild
<1>3. CASE Arrives
  <2>1. \A r \in Refs, e \in Tables : Begun(db, e, r) => Goal(e)
    BY <1>1 DEF Begun, SameChild
  <2>2. ASSUME NEW r \in Refs, NEW e \in Tables, e.signals = db.signals, e.signalCounter = db.signalCounter,
               e.children = db.children, e.childCounter = db.childCounter, e.completed = db.completed,
               SignalAdded(e, db', r)
        PROVE  Goal(db')
    BY <1>1, <2>2 DEF SignalAdded, SameChild
  <2> HIDE DEF Goal
  <2>3. \A r \in Refs : Begins(r) => Goal(db')
    BY <2>1 DEF Begins, Begun
  <2>4. \A r \in Refs : Receives(r) => Goal(db')
    BY <1>1, <2>2 DEF Receives
  <2>5. \A r \in Refs : BeginsWithSignal(r) => Goal(db')
    BY <2>2 DEF BeginsWithSignal, Begun
  <2>6. Goal(db')
    BY <1>3, <2>3, <2>4, <2>5 DEF Arrives
  <2> QED
    BY <2>6 DEF Goal
<1>4. CASE Spawns
  <2>1. PICK r \in Refs : StartsRuns(db, db', {r})
    BY <1>4 DEF Spawns
  <2> QED
    BY <1>1, <2>1 DEF StartsRuns, SameChild
<1>5. CASE Halts
  <2>1. PICK r \in Refs : Halted(db, db', r)
    BY <1>5 DEF Halts
  <2>2. Closing(db.children, db'.children, {})
    BY <2>1 DEF Halted
  <2> QED
    BY <1>1, <2>1, <2>2 DEF Halted, Closing
<1> QED
  BY <1>2, <1>3, <1>4, <1>5 DEF OtherStep

\* A run that is not there has made no checkpoint.
Unstarted == \A r \in Refs : db.inst[r].status = "absent" => db.inst[r].seq = 0

\* What such a step may do to a run.
LEMMA OtherRuns ==
    ASSUME Inv, Unstarted, OtherStep, NobodyTerminates, NEW r \in Refs
    PROVE  /\ db'.inst[r].seq = db.inst[r].seq
           /\ db'.inst[r].status = "absent" => db.inst[r].status = "absent"
           /\ db.inst[r].status \in Closed => db'.inst[r].status = db.inst[r].status
           /\ db.inst[r].status # "absent" => db'.inst[r].version = db.inst[r].version
<1>1. CASE QuietStep
  BY <1>1 DEF QuietStep, QuietlyKeeps, Quiet
<1>2. CASE Arrives
  <2>1. ASSUME NEW q \in Refs, Begins(q) \/ BeginsWithSignal(q)
        PROVE  /\ db.inst[q].status = "absent" /\ db'.inst[q].status = "running" /\ db'.inst[q].seq = 0
               /\ \A p \in Refs : p # q => db'.inst[p] = db.inst[p]
    BY <2>1 DEF Begins, BeginsWithSignal, Begun, SignalAdded, NobodyTerminates
  <2>2. ASSUME NEW q \in Refs, Receives(q) PROVE db'.inst = db.inst
    BY <2>2 DEF Receives, SignalAdded
  <2> QED
    BY <1>2, <2>1, <2>2 DEF Arrives, Unstarted, Closed
<1>3. CASE Spawns
  BY <1>3 DEF Spawns, StartsRuns, Unstarted, Closed
<1>4. CASE Halts
  BY <1>4 DEF Halts, Halted, Running, Closed
<1> QED
  BY <1>1, <1>2, <1>3, <1>4 DEF OtherStep

LEMMA UnstartedStep ==
    ASSUME Inv, HeldStarts, Unstarted, [Next]_vars
    PROVE  Unstarted'
<1> SUFFICES ASSUME NEW r \in Refs, db'.inst[r].status = "absent" PROVE db'.inst[r].seq = 0
  BY DEF Unstarted
<1>1. CASE QuietStep
  BY <1>1 DEF QuietStep, QuietlyKeeps, Quiet, Unstarted
<1>2. CASE Arrives
  BY <1>2 DEF Arrives, Begins, BeginsWithSignal, Receives, Begun, SignalAdded, Unstarted
<1>3. CASE Spawns
  BY <1>3 DEF Spawns, StartsRuns, Unstarted
<1>4. CASE Halts
  BY <1>4 DEF Halts, Halted, Unstarted
<1>5. CASE Advances
  BY <1>5 DEF Advances, Advanced, Closed, Unstarted
<1> QED
  BY <1>1, <1>2, <1>3, <1>4, <1>5, EngineStep

LEMMA StepIsOtherOrAdvances ==
    ASSUME Inv, HeldStarts, [Next]_vars
    PROVE  OtherStep \/ Advances
  BY EngineStep DEF OtherStep

\* Everything below is proved from this invariant.
BaseInv == WorkInv /\ Unstarted

\* It holds in every behaviour of the engine: a run that has not started, or was deleted, has
\* made no checkpoint (create_instance, delete_instance_records).
THEOREM BaseHolds == ASSUME RuntimeStarts, NoSelfStart PROVE Spec => []BaseInv
<1>1. Init => BaseInv
  <2>1. Init => Unstarted
    BY DEF Init, EmptyTables, NoInstance, Unstarted
  <2> QED
    BY <2>1, WorkInit DEF BaseInv
<1>2. BaseInv /\ [Next]_vars => BaseInv'
  <2>1. ASSUME BaseInv, [Next]_vars PROVE BaseInv'
    BY <2>1, WorkStep, UnstartedStep DEF BaseInv, WorkInv
  <2> QED
    BY <2>1
<1> QED
  BY <1>1, <1>2, PTL DEF Spec

-------------------------------------------------------------------------------
(* Checkpoints. *)

\* What an accepted commit of the claim c does to the runs and to what has been committed.
LEMMA AdvanceRuns ==
    ASSUME Inv, NEW c \in held, NEW next \in {"running"} \cup Closed, NEW S \in SUBSET Refs,
           Advanced(db, c, next, S, db'), Running(db, c.act.ref), Unstarted
    PROVE  /\ c.act.ref \in Refs /\ c.act.seq \in Nat /\ db.inst[c.act.ref].seq \in Nat
           /\ db'.inst[c.act.ref].seq = db.inst[c.act.ref].seq + 1
           /\ db'.inst[c.act.ref].status = next
           /\ db'.completed = db.completed \cup {[act |-> c.act, owner |-> c.worker]}
           /\ \A q \in Refs \ {c.act.ref} :
                /\ db'.inst[q].seq = db.inst[q].seq
                /\ db'.inst[q].status = "absent" => db.inst[q].status = "absent"
                /\ db.inst[q].status \in Closed => db'.inst[q].status = db.inst[q].status
                /\ db.inst[q].status # "absent" => db'.inst[q].version = db.inst[q].version
<1>1. c \in Claim /\ db \in Tables
  BY DEF Inv, TypeOK
<1>2. c.act.ref \in Refs /\ c.act.seq \in Nat /\ db.inst[c.act.ref].seq \in Nat
  BY <1>1, ClaimFields, InstanceFields DEF Activation, Instance
<1>3. /\ db'.inst[c.act.ref].seq = db.inst[c.act.ref].seq + 1
      /\ db'.inst[c.act.ref].status = next
      /\ db'.completed = db.completed \cup {[act |-> c.act, owner |-> c.worker]}
  BY DEF Advanced
<1>4. ASSUME NEW q \in Refs \ {c.act.ref}
      PROVE  /\ db'.inst[q].seq = db.inst[q].seq
             /\ db'.inst[q].status = "absent" => db.inst[q].status = "absent"
             /\ db.inst[q].status \in Closed => db'.inst[q].status = db.inst[q].status
             /\ db.inst[q].status # "absent" => db'.inst[q].version = db.inst[q].version
  <2>1. \/ db'.inst[q] = db.inst[q]
        \/ db.inst[q].status = "absent" /\ db'.inst[q].status \in {"running", "canceled"} /\ db'.inst[q].seq = 0
        \/ /\ Running(db, q) /\ db'.inst[q].status = "canceled"
           /\ db'.inst[q].seq = db.inst[q].seq /\ db'.inst[q].version = db.inst[q].version
    BY <1>4 DEF Advanced
  <2> QED
    BY <2>1 DEF Running, Closed, Unstarted
<1> QED
  BY <1>2, <1>3, <1>4

\* A closed run stays as it closed: no handler that still executes for it, no parent, no
\* signal and no repeated start changes its status or its sequence (commit_checkpoint,
\* create_instance, cancel_child_in_state, apply_parent_close_policy).
THEOREM ClosedRunsStayClosed ==
    ASSUME RuntimeStarts, NoSelfStart, NobodyTerminates PROVE Spec => ClosedStaysClosed
<1> DEFINE Stays == \A r \in Refs : db.inst[r].status \in Closed =>
                        db'.inst[r].status = db.inst[r].status /\ db'.inst[r].seq = db.inst[r].seq
<1>1. ASSUME BaseInv, [Next]_vars PROVE Stays
  <2> SUFFICES ASSUME NEW r \in Refs, db.inst[r].status \in Closed
               PROVE  db'.inst[r].status = db.inst[r].status /\ db'.inst[r].seq = db.inst[r].seq
    OBVIOUS
  <2>1. Inv /\ HeldStarts /\ Unstarted
    BY <1>1 DEF BaseInv, WorkInv
  <2>2. CASE OtherStep
    BY <2>1, <2>2, OtherRuns
  <2>3. CASE Advances
    <3>1. PICK c \in held, next \in {"running"} \cup Closed, S \in SUBSET Refs :
             Running(db, c.act.ref) /\ Advanced(db, c, next, S, db')
      BY <2>3 DEF Advances
    <3>2. r # c.act.ref
      BY <3>1 DEF Running, Closed
    <3> QED
      BY <2>1, <3>1, <3>2, AdvanceRuns
  <2> QED
    BY <1>1, <2>1, <2>2, <2>3, StepIsOtherOrAdvances
<1> HIDE DEF Stays
<1>2. BaseInv /\ [Next]_vars => [Stays]_vars
  BY <1>1
<1>3. Spec => [][Stays]_vars
  BY <1>2, BaseHolds, PTL DEF Spec
<1> QED
  BY <1>3 DEF Stays, ClosedStaysClosed

\* The commits of a run, one for each sequence it has left behind.
CommitsCounted == (\A r \in Refs : IsFiniteSet(CommitsOf(r))) /\ OneCommitPerSequence

LEMMA CommitsCountedStep ==
    ASSUME BaseInv, CommitsCounted, [Next]_vars, NobodyTerminates
    PROVE  CommitsCounted'
<1>1. Inv /\ HeldStarts /\ Unstarted /\ db \in Tables
  BY DEF BaseInv, WorkInv, Inv, TypeOK
<1> SUFFICES ASSUME NEW r \in Refs
             PROVE  /\ IsFiniteSet(CommitsOf(r)')
                    /\ {c.act.seq : c \in CommitsOf(r)'} = 0..(db'.inst[r].seq - 1)
                    /\ Cardinality(CommitsOf(r)') = db'.inst[r].seq
  BY DEF CommitsCounted, OneCommitPerSequence
<1>2. /\ IsFiniteSet(CommitsOf(r))
      /\ {c.act.seq : c \in CommitsOf(r)} = 0..(db.inst[r].seq - 1)
      /\ Cardinality(CommitsOf(r)) = db.inst[r].seq
      /\ db.inst[r].seq \in Nat
  BY <1>1, InstanceFields DEF CommitsCounted, OneCommitPerSequence, Instance
<1>3. ASSUME CommitsOf(r)' = CommitsOf(r), db'.inst[r].seq = db.inst[r].seq
      PROVE  /\ IsFiniteSet(CommitsOf(r)')
             /\ {c.act.seq : c \in CommitsOf(r)'} = 0..(db'.inst[r].seq - 1)
             /\ Cardinality(CommitsOf(r)') = db'.inst[r].seq
  BY <1>2, <1>3
<1>4. CASE OtherStep
  <2>1. db'.completed = db.completed /\ db'.inst[r].seq = db.inst[r].seq
    BY <1>1, <1>4, OtherTables, OtherRuns
  <2> QED
    BY <1>3, <2>1 DEF CommitsOf
<1>5. CASE Advances
  <2>1. PICK c \in held, next \in {"running"} \cup Closed, S \in SUBSET Refs :
           /\ Running(db, c.act.ref) /\ db.inst[c.act.ref].seq = c.act.seq
           /\ Advanced(db, c, next, S, db')
    BY <1>5 DEF Advances
  <2> DEFINE done == [act |-> c.act, owner |-> c.worker]
  <2>2. /\ db'.completed = db.completed \cup {done}
        /\ db'.inst[c.act.ref].seq = db.inst[c.act.ref].seq + 1
        /\ r # c.act.ref => db'.inst[r].seq = db.inst[r].seq
    BY <1>1, <2>1, AdvanceRuns
  <2>3. done.act = c.act
    OBVIOUS
  <2> HIDE DEF done
  <2>4. CASE r # c.act.ref
    BY <1>3, <2>2, <2>3, <2>4 DEF CommitsOf
  <2>5. CASE r = c.act.ref
    <3>1. CommitsOf(r)' = CommitsOf(r) \cup {done}
      BY <2>2, <2>3, <2>5 DEF CommitsOf
    <3>2. done.act.seq = db.inst[r].seq
      BY <2>1, <2>3, <2>5
    <3>3. done \notin CommitsOf(r)
      BY <1>2, <3>2
    <3>4. Cardinality(CommitsOf(r)') = db.inst[r].seq + 1 /\ IsFiniteSet(CommitsOf(r)')
      BY <1>2, <3>1, <3>3, FS_AddElement
    <3>5. {x.act.seq : x \in CommitsOf(r)'} = {x.act.seq : x \in CommitsOf(r)} \cup {db.inst[r].seq}
      BY <3>1, <3>2
    <3>6. {x.act.seq : x \in CommitsOf(r)'} = 0..db.inst[r].seq
      <4>1. \A n \in Nat : 0..(n - 1) \cup {n} = 0..n
        OBVIOUS
      <4> QED
        BY <1>2, <3>5, <4>1
    <3>7. db'.inst[r].seq = db.inst[r].seq + 1 /\ db'.inst[r].seq - 1 = db.inst[r].seq
      BY <1>2, <2>2, <2>5
    <3> QED
      BY <3>4, <3>6, <3>7
  <2> QED
    BY <2>4, <2>5
<1> QED
  BY <1>1, <1>4, <1>5, StepIsOtherOrAdvances

\* A run that has reached sequence n has exactly n accepted commits, one of each sequence
\* before n, whoever raced for it, crashed, or came back late (commit_checkpoint:
\* stale_sequence, not_running).
THEOREM CommitsAreOnePerSequence ==
    ASSUME RuntimeStarts, NoSelfStart, NobodyTerminates PROVE Spec => []OneCommitPerSequence
<1>1. Init => CommitsCounted
  <2> SUFFICES ASSUME Init PROVE CommitsCounted
    OBVIOUS
  <2>1. \A r \in Refs : CommitsOf(r) = {} /\ db.inst[r].seq = 0
    BY DEF Init, EmptyTables, NoInstance, CommitsOf
  <2>2. {c.act.seq : c \in {}} = 0..(0 - 1) /\ Cardinality({}) = 0 /\ IsFiniteSet({})
    BY FS_EmptySet
  <2> QED
    BY <2>1, <2>2 DEF CommitsCounted, OneCommitPerSequence
<1>2. BaseInv /\ CommitsCounted /\ [Next]_vars => CommitsCounted'
  BY CommitsCountedStep
<1>3. CommitsCounted => OneCommitPerSequence
  BY DEF CommitsCounted
<1> QED
  BY <1>1, <1>2, <1>3, BaseHolds, PTL DEF Spec

-------------------------------------------------------------------------------
(* Signals. *)

LEMMA SignalsConsumedStep ==
    ASSUME BaseInv, SignalsConsumedWithCheckpoint, [Next]_vars
    PROVE  SignalsConsumedWithCheckpoint'
<1> DEFINE Committed(s, x) == /\ x.act.ref = s.ref /\ x.act.kind = "signal"
                              /\ x.act.n = s.id /\ x.act.seq + 1 = s.consumed
<1>1. /\ Inv /\ HeldStarts /\ Unstarted /\ db \in Tables
      /\ Numbered(db.signals, db.signalCounter)
  BY DEF BaseInv, WorkInv, Inv, TypeOK, Sound
<1>2. /\ \A s \in db.signals : s.consumed # 0 => \E x \in db.completed : Committed(s, x)
      /\ \A x \in db.completed : x.act.kind = "signal" => \E s \in db.signals : Committed(s, x)
  BY DEF SignalsConsumedWithCheckpoint
<1> SUFFICES /\ \A s \in db'.signals : s.consumed # 0 => \E x \in db'.completed : Committed(s, x)
             /\ \A x \in db'.completed : x.act.kind = "signal" => \E s \in db'.signals : Committed(s, x)
  BY DEF SignalsConsumedWithCheckpoint
<1>3. CASE OtherStep
  BY <1>1, <1>2, <1>3, OtherTables
<1>4. CASE Advances
  <2>1. PICK c \in held, next \in {"running"} \cup Closed, S \in SUBSET Refs :
           /\ Running(db, c.act.ref) /\ db.inst[c.act.ref].seq = c.act.seq /\ Consumable(db, c.act)
           /\ Advanced(db, c, next, S, db')
    BY <1>4 DEF Advances
  <2> DEFINE a    == c.act
             seq  == db.inst[a.ref].seq + 1
             done == [act |-> c.act, owner |-> c.worker]
             take(s) == IF a.kind = "signal" /\ s.id = a.n THEN [s EXCEPT !.consumed = seq] ELSE s
  <2>2. a.seq + 1 = seq /\ seq \in Nat \ {0} /\ done.act = a
    BY <1>1, <2>1, AdvanceRuns
  <2>3. db'.completed = db.completed \cup {done} /\ db'.signals = {take(s) : s \in db.signals}
    BY <2>1 DEF Advanced
  <2>4. \A s \in db.signals : /\ take(s).id = s.id /\ take(s).ref = s.ref
                              /\ take(s).consumed = IF a.kind = "signal" /\ s.id = a.n THEN seq ELSE s.consumed
    <3>1. db.signals \in SUBSET Signal
      BY <1>1 DEF Tables
    <3> QED
      BY <3>1 DEF Signal
  <2>5. a.kind = "signal" => \E s \in db.signals : s.id = a.n /\ s.ref = a.ref /\ s.consumed = 0
    BY <2>1 DEF Consumable
  <2>6. \A s, o \in db.signals : s.id = o.id => s = o
    BY <1>1 DEF Numbered
  <2> HIDE DEF take, seq, done, a
  <2>7. ASSUME NEW s \in db.signals, take(s).consumed # 0
        PROVE  \E x \in db'.completed : Committed(take(s), x)
    <3>1. CASE a.kind = "signal" /\ s.id = a.n
      BY <2>2, <2>3, <2>4, <2>5, <2>6, <3>1
    <3>2. CASE ~ (a.kind = "signal" /\ s.id = a.n)
      BY <1>2, <2>3, <2>4, <2>7, <3>2
    <3> QED
      BY <3>1, <3>2
  <2>8. ASSUME NEW x \in db.completed, x.act.kind = "signal"
        PROVE  \E s \in db.signals : Committed(take(s), x)
    <3>1. PICK s \in db.signals : Committed(s, x)
      BY <1>2, <2>8
    <3>2. s.consumed # 0
      <4>1. x.act.seq \in Nat
        BY <1>1 DEF Tables, CompletedClaim, Activation
      <4> QED
        BY <3>1, <4>1
    <3>3. ~ (a.kind = "signal" /\ s.id = a.n)
      BY <2>5, <2>6, <3>2
    <3> QED
      BY <2>4, <3>1, <3>3
  <2>9. a.kind = "signal" => \E s \in db.signals : Committed(take(s), done)
    BY <2>2, <2>4, <2>5
  <2> QED
    BY <2>2, <2>3, <2>7, <2>8, <2>9
<1> QED
  BY <1>1, <1>3, <1>4, StepIsOtherOrAdvances

\* A signal is consumed by the accepted checkpoint of the activation it woke and by nothing
\* else, and no such checkpoint is accepted without consuming its signal: none is lost, and
\* none is taken twice (commit_checkpoint, append_signal).
THEOREM SignalsAreTakenOnce ==
    ASSUME RuntimeStarts, NoSelfStart PROVE Spec => []SignalsConsumedWithCheckpoint
<1>1. Init => SignalsConsumedWithCheckpoint
  BY DEF Init, EmptyTables, SignalsConsumedWithCheckpoint
<1>2. BaseInv /\ SignalsConsumedWithCheckpoint /\ [Next]_vars => SignalsConsumedWithCheckpoint'
  BY SignalsConsumedStep
<1> QED
  BY <1>1, <1>2, BaseHolds, PTL DEF Spec

-------------------------------------------------------------------------------
(* The outcomes of children. *)

\* A record whose outcome is delivered is settled, and so is the record of an activation
\* that is in the hands of a worker.
DeliveredIsSettled == \A x \in db.children : x.delivered # 0 => x.status # "started"
HeldReports == \A c \in held : c.act.kind = "child" =>
                   \E x \in db.children : x.id = c.act.n /\ x.status # "started"
ReportInv == DeliveredIsSettled /\ HeldReports

\* A record that is settled stays so.
SettledStay == \A x \in db.children : x.status # "started" =>
                   \E f \in db'.children : f.id = x.id /\ f.status # "started"

LEMMA SettledStep ==
    ASSUME Inv, OtherStep \/ Advances
    PROVE  SettledStay
<1> SUFFICES ASSUME NEW x \in db.children, x.status # "started"
             PROVE  \E f \in db'.children : f.id = x.id /\ f.status # "started"
  BY DEF SettledStay
<1>1. CASE OtherStep
  BY <1>1, OtherTables DEF SameChild
<1>2. CASE Advances
  <2>1. PICK c \in held, next \in {"running"} \cup Closed, S \in SUBSET Refs :
           Advanced(db, c, next, S, db')
    BY <1>2 DEF Advances
  <2>2. PICK f \in db'.children : SameChild(x, f)
    BY <2>1 DEF Advanced
  <2>3. CASE \E y \in db.children : SameChild(y, f) /\ (f.status = "started" => y.status = "started")
    <3>1. PICK y \in db.children : SameChild(y, f) /\ (f.status = "started" => y.status = "started")
      BY <2>3
    <3>2. y = x
      BY <2>2, <3>1 DEF SameChild, Inv, Sound, Numbered
    <3> QED
      BY <2>2, <3>1, <3>2 DEF SameChild
  <2>4. CASE f.id > db.childCounter
    <3>1. x.id \in Nat /\ x.id <= db.childCounter /\ db.childCounter \in Nat
      BY DEF Inv, Sound, Numbered, TypeOK, Tables
    <3> QED
      BY <2>2, <2>4, <3>1 DEF SameChild
  <2> QED
    BY <2>1, <2>3, <2>4 DEF Advanced
<1> QED
  BY <1>1, <1>2

LEMMA ReportStep ==
    ASSUME BaseInv, BaseInv', ReportInv, [Next]_vars
    PROVE  ReportInv'
<1>1. Inv /\ HeldStarts /\ Unstarted /\ db \in Tables /\ (OtherStep \/ Advances)
  BY StepIsOtherOrAdvances DEF BaseInv, WorkInv, Inv, TypeOK
<1>2. DeliveredIsSettled'
  <2> SUFFICES ASSUME NEW f \in db'.children, f.status = "started" PROVE f.delivered = 0
    BY DEF DeliveredIsSettled
  <2>1. CASE OtherStep
    BY <1>1, <2>1, OtherTables DEF ReportInv, DeliveredIsSettled
  <2>2. CASE Advances
    <3>1. PICK c \in held, next \in {"running"} \cup Closed, S \in SUBSET Refs :
             Advanced(db, c, next, S, db')
      BY <2>2 DEF Advances
    <3>2. \A x \in db.children : x.status = "started" => ~ Wakened(c.act, x)
      BY <1>1 DEF ReportInv, HeldReports, Wakened, Inv, Sound, Numbered
    <3>3. \/ f.delivered = 0
          \/ \E x \in db.children : /\ x.status = "started"
                                    /\ f.delivered \in {x.delivered} \cup (IF Wakened(c.act, x) THEN {db.inst[c.act.ref].seq + 1} ELSE {})
      BY <3>1 DEF Advanced
    <3> QED
      BY <3>2, <3>3 DEF ReportInv, DeliveredIsSettled
  <2> QED
    BY <1>1, <2>1, <2>2
<1>3. HeldReports'
  <2> SUFFICES ASSUME NEW f \in held', f.act.kind = "child"
               PROVE  \E x \in db'.children : x.id = f.act.n /\ x.status # "started"
    BY DEF HeldReports
  <2>1. CASE \E c \in held : f.act = c.act
    BY <1>1, <2>1, SettledStep DEF SettledStay, ReportInv, HeldReports
  <2>2. CASE Handed(f)
    <3>1. PICK t \in db'.tasks : t.act = f.act
      BY <2>2 DEF Handed
    <3>2. t.act.ref \in Refs
      BY <3>1 DEF BaseInv, WorkInv, Inv, TypeOK, Tables, Task, Activation
    <3>3. \E x \in Reports(db', t.act.ref) : x.id = t.act.n
      BY <3>1, <3>2 DEF BaseInv, WorkInv, Reasons, HasReason, Reports
    <3> QED
      BY <3>1, <3>3 DEF Reports
  <2> QED
    BY <1>1, <2>1, <2>2, HeldStep DEF Remains, Buffered, Buffers
<1> QED
  BY <1>2, <1>3 DEF ReportInv

\* Only outcomes that are settled are delivered, and only settled records wake activations
\* (insert_task_for_wait, commit_checkpoint, apply_parent_close_policy).
THEOREM ReportsHold == ASSUME RuntimeStarts, NoSelfStart PROVE Spec => []ReportInv
<1>1. Init => ReportInv
  BY DEF Init, EmptyTables, ReportInv, DeliveredIsSettled, HeldReports
<1>2. BaseInv /\ BaseInv' /\ ReportInv /\ [Next]_vars => ReportInv'
  BY ReportStep
<1> QED
  BY <1>1, <1>2, BaseHolds, PTL DEF Spec

\* An outcome that has been delivered is never delivered again, to the same wait or another:
\* its record is never written again (commit_checkpoint, refresh_child_tasks_for_instance,
\* apply_parent_close_policy).
THEOREM OutcomesAreDeliveredOnce ==
    ASSUME RuntimeStarts, NoSelfStart PROVE Spec => DeliveredOnce
<1> DEFINE Stays == \A c \in db.children : c.delivered # 0 => c \in db'.children
<1>1. ASSUME BaseInv, ReportInv, [Next]_vars PROVE Stays
  <2> SUFFICES ASSUME NEW x \in db.children, x.delivered # 0 PROVE x \in db'.children
    OBVIOUS
  <2>1. Inv /\ HeldStarts
    BY <1>1 DEF BaseInv, WorkInv
  <2>2. x.status # "started"
    BY <1>1 DEF ReportInv, DeliveredIsSettled
  <2>3. CASE OtherStep
    BY <2>1, <2>2, <2>3, OtherTables
  <2>4. CASE Advances
    <3>1. PICK c \in held, next \in {"running"} \cup Closed, S \in SUBSET Refs :
             Consumable(db, c.act) /\ Advanced(db, c, next, S, db')
      BY <2>4 DEF Advances
    <3>2. ~ Wakened(c.act, x)
      BY <2>1, <3>1 DEF Consumable, Wakened, Inv, Sound, Numbered
    <3> QED
      BY <2>2, <3>1, <3>2 DEF Advanced
  <2> QED
    BY <1>1, <2>1, <2>3, <2>4, StepIsOtherOrAdvances
<1> HIDE DEF Stays
<1>2. BaseInv /\ ReportInv /\ [Next]_vars => [Stays]_vars
  BY <1>1
<1>3. Spec => [][Stays]_vars
  BY <1>2, BaseHolds, ReportsHold, PTL DEF Spec
<1> QED
  BY <1>3 DEF Stays, DeliveredOnce

\* One step: it delivers with the checkpoint it accepts, or it delivers nothing.
DeliversInStep ==
    LET accepted == db'.completed \ db.completed
    IN  /\ \A c \in db'.children : c.delivered # 0 /\ Pending(db, c.id) =>
             \E x \in accepted : DeliveredWith(c, x)
        /\ \A x \in accepted : x.act.kind = "child" =>
             \E c \in db'.children : /\ c.id = x.act.n /\ c.parent = x.act.ref
                                    /\ c.delivered = x.act.seq + 1

LEMMA DeliveredStep ==
    ASSUME BaseInv, ReportInv, OneCommitPerSequence, [Next]_vars
    PROVE  DeliversInStep
<1>1. /\ Inv /\ HeldStarts /\ Unstarted /\ db \in Tables
      /\ \A x, y \in db.children : x.id = y.id => x = y
  BY DEF BaseInv, WorkInv, Inv, TypeOK, Sound, Numbered
<1>2. CASE OtherStep
  <2>1. \A f \in db'.children : f.delivered = 0 \/ \E x \in db.children : x.id = f.id /\ x.delivered = f.delivered
    BY <1>1, <1>2, OtherTables DEF SameChild
  <2>2. db'.completed = db.completed
    BY <1>1, <1>2, OtherTables
  <2> QED
    BY <2>1, <2>2 DEF DeliversInStep, Pending
<1>3. CASE Advances
  <2>1. PICK c \in held, next \in {"running"} \cup Closed, S \in SUBSET Refs :
           /\ Running(db, c.act.ref) /\ db.inst[c.act.ref].seq = c.act.seq /\ Consumable(db, c.act)
           /\ Advanced(db, c, next, S, db')
    BY <1>3 DEF Advances
  <2> DEFINE a    == c.act
             seq  == db.inst[a.ref].seq + 1
             done == [act |-> c.act, owner |-> c.worker]
  <2>2. /\ a.ref \in Refs /\ a.seq \in Nat /\ db.inst[a.ref].seq \in Nat
        /\ a.seq + 1 = seq /\ done.act = a /\ db'.inst[a.ref].status = next
        /\ db'.completed = db.completed \cup {done}
    BY <1>1, <2>1, AdvanceRuns
  <2>3. done \notin db.completed
    <3>1. a.seq \notin {x.act.seq : x \in CommitsOf(a.ref)}
      BY <2>1, <2>2 DEF OneCommitPerSequence
    <3> HIDE DEF a, done
    <3> QED
      BY <2>2, <3>1 DEF CommitsOf
  <2>4. /\ \A f \in db'.children :
             \/ next \in {"failed", "canceled"} /\ a.ref \in Lineage(db', f.parent)
             \/ \E x \in db.children :
                  SameChild(x, f) /\ f.delivered \in {x.delivered} \cup (IF Wakened(a, x) THEN {seq} ELSE {})
             \/ f.delivered = 0
        /\ \A x \in db.children : Wakened(a, x) /\ x.status # "started" =>
             \E f \in db'.children : SameChild(x, f) /\ f.delivered = seq
    BY <2>1 DEF Advanced, Delivers
  <2>5. \A f \in db'.children :
          \/ \E x \in db.children :
               /\ SameChild(x, f)
               /\ f.delivered \in {x.delivered} \cup (IF Wakened(a, x) THEN {seq} ELSE {}) \cup Dropped(next, seq)
          \/ f.delivered \in {0} \cup Dropped(next, seq)
    BY <2>1 DEF Advanced
  <2>6. /\ Consumable(db, a)
        /\ a.kind = "child" => \E x \in db.children : x.id = a.n /\ x.status # "started"
    BY <2>1 DEF ReportInv, HeldReports
  <2> HIDE DEF a, seq, done
  <2>7. ASSUME NEW f \in db'.children, f.delivered # 0, Pending(db, f.id)
        PROVE  DeliveredWith(f, done)
    <3>1. \A x \in db.children : SameChild(x, f) => x.delivered = 0
      BY <2>7 DEF Pending, SameChild
    <3>2. f.delivered = seq
      BY <2>5, <2>7, <3>1 DEF Dropped
    <3>3. CASE next \in {"failed", "canceled"} /\ a.ref \in Lineage(db', f.parent)
      BY <2>2, <3>2, <3>3 DEF DeliveredWith, Stopped
    <3>4. CASE \E x \in db.children : SameChild(x, f) /\ Wakened(a, x)
      <4>1. a.ref = f.parent /\ a.kind = "child" /\ a.n = f.id
        BY <1>1, <2>6, <3>4 DEF Consumable, Wakened, SameChild
      <4> QED
        BY <2>2, <3>2, <4>1 DEF DeliveredWith
    <3> QED
      BY <2>4, <2>7, <3>1, <3>3, <3>4
  <2>8. ASSUME a.kind = "child"
        PROVE  \E f \in db'.children : f.id = a.n /\ f.parent = a.ref /\ f.delivered = a.seq + 1
    <3>1. PICK x \in db.children : x.id = a.n /\ x.parent = a.ref /\ x.status # "started"
      BY <1>1, <2>6, <2>8 DEF Consumable
    <3>2. PICK f \in db'.children : SameChild(x, f) /\ f.delivered = seq
      BY <2>4, <2>8, <3>1 DEF Wakened
    <3> QED
      BY <2>2, <3>1, <3>2 DEF SameChild
  <2>9. db'.completed \ db.completed = {done}
    BY <2>2, <2>3
  <2> QED
    BY <2>2, <2>7, <2>8, <2>9 DEF DeliversInStep
<1> QED
  BY <1>1, <1>2, <1>3, StepIsOtherOrAdvances

\* The outcome of a child is delivered in the step that accepts the checkpoint of the activation
\* it woke, or dropped in the step that accepts the checkpoint with which its parent or a run
\* above its parent fails or is canceled, with the sequence of that checkpoint; and no
\* checkpoint of such an activation is accepted without delivering (commit_checkpoint,
\* apply_parent_close_policy).
THEOREM OutcomesAreDeliveredByCheckpoints ==
    ASSUME RuntimeStarts, NoSelfStart, NobodyTerminates PROVE Spec => ChildrenDeliveredWithCheckpoint
<1>1. BaseInv /\ ReportInv /\ OneCommitPerSequence /\ [Next]_vars => [DeliversInStep]_vars
  BY DeliveredStep
<1>2. Spec => [][DeliversInStep]_vars
  BY <1>1, BaseHolds, ReportsHold, CommitsAreOnePerSequence, PTL DEF Spec
<1> QED
  BY <1>2 DEF DeliversInStep, ChildrenDeliveredWithCheckpoint

\* A checkpoint that fails or cancels a run leaves no record open under it or under any run
\* that is canceled with it, however deep (cancel_child_tree_for_parent_close).
THEOREM ClosingReachesChildren ==
    ASSUME RuntimeStarts, NoSelfStart PROVE Spec => CloseReachesChildren
<1> DEFINE Reached == \A r \in Refs : Stopped(db', r) /\ Running(db, r) /\ db'.completed # db.completed =>
                          OpenUnder(db', r) = {}
<1>1. ASSUME BaseInv, [Next]_vars PROVE Reached
  <2>1. Inv /\ HeldStarts
    BY <1>1 DEF BaseInv, WorkInv
  <2>2. CASE OtherStep
    BY <2>1, <2>2, OtherTables
  <2>3. CASE Advances
    BY <2>3 DEF Advances, Advanced
  <2> QED
    BY <1>1, <2>1, <2>2, <2>3, StepIsOtherOrAdvances
<1> HIDE DEF Reached
<1>2. BaseInv /\ [Next]_vars => [Reached]_vars
  BY <1>1
<1>3. Spec => [][Reached]_vars
  BY <1>2, BaseHolds, PTL DEF Spec
<1> QED
  BY <1>3 DEF Reached, CloseReachesChildren

-------------------------------------------------------------------------------
(* Versions. *)

\* A claim is of a run that exists; until the run has advanced past it, its worker is at least
\* as new as the run.
HeldVersions ==
    \A c \in held :
        /\ db.inst[c.act.ref].status # "absent" /\ c.act.seq <= db.inst[c.act.ref].seq
        /\ c.act.seq = db.inst[c.act.ref].seq => db.inst[c.act.ref].version <= VersionOf[c.worker]

LEMMA HeldVersionsStep ==
    ASSUME BaseInv, BaseInv', HeldVersions, [Next]_vars, NobodyTerminates
    PROVE  HeldVersions'
<1>1. Inv /\ HeldStarts /\ Unstarted /\ db \in Tables /\ held \subseteq Claim /\ db' \in Tables
  BY DEF BaseInv, WorkInv, Inv, TypeOK
<1> DEFINE Fits(act, worker) ==
        /\ db'.inst[act.ref].status # "absent" /\ act.seq <= db'.inst[act.ref].seq
        /\ act.seq = db'.inst[act.ref].seq => db'.inst[act.ref].version <= VersionOf[worker]
<1> SUFFICES ASSUME NEW f \in held' PROVE Fits(f.act, f.worker)
  BY DEF HeldVersions
<1>2. ASSUME NEW x \in held PROVE Fits(x.act, x.worker)
  <2> DEFINE r == x.act.ref
  <2>1. /\ r \in Refs /\ x.act.seq \in Nat /\ db.inst[r].seq \in Nat
        /\ db.inst[r].status # "absent" /\ x.act.seq <= db.inst[r].seq
        /\ x.act.seq = db.inst[r].seq => db.inst[r].version <= VersionOf[x.worker]
    BY <1>1, ClaimFields, InstanceFields DEF HeldVersions, Activation, Instance
  <2> HIDE DEF r
  <2>2. ASSUME db'.inst[r].seq = db.inst[r].seq, db'.inst[r].status # "absent", db'.inst[r].version = db.inst[r].version
        PROVE  Fits(x.act, x.worker)
    BY <2>1, <2>2 DEF r
  <2>3. CASE OtherStep
    BY <1>1, <2>1, <2>2, <2>3, OtherRuns
  <2>4. CASE Advances
    <3>1. PICK c \in held, next \in {"running"} \cup Closed, S \in SUBSET Refs :
             Running(db, c.act.ref) /\ Advanced(db, c, next, S, db')
      BY <2>4 DEF Advances
    <3>2. CASE r # c.act.ref
      BY <1>1, <2>1, <2>2, <3>1, <3>2, AdvanceRuns
    <3>3. CASE r = c.act.ref
      <4>1. db'.inst[r].seq = db.inst[r].seq + 1 /\ db'.inst[r].status = next
        BY <1>1, <3>1, <3>3, AdvanceRuns
      <4> QED
        BY <2>1, <4>1 DEF r, Closed
    <3> QED
      BY <3>2, <3>3
  <2> QED
    BY <1>1, <2>3, <2>4, StepIsOtherOrAdvances
<1>3. CASE Handed(f)
  <2>1. PICK t \in db'.tasks : t.act = f.act /\ Current(db', t) /\ t.version <= VersionOf[f.worker]
    BY <1>3 DEF Handed
  <2>2. t.act.ref \in Refs
    BY <1>1, <2>1 DEF Tables, Task, Activation
  <2>3. t.version = db'.inst[t.act.ref].version
    BY <2>1, <2>2 DEF BaseInv, WorkInv, Reasons, HasReason
  <2>4. db'.inst[t.act.ref].seq \in Nat
    BY <1>1, <2>2, InstanceFields DEF Instance
  <2> QED
    BY <2>1, <2>3, <2>4 DEF Current, Running
<1> HIDE DEF Fits
<1>4. CASE \E x \in held : f.act = x.act /\ f.worker = x.worker
  BY <1>2, <1>4
<1> QED
  BY <1>1, <1>3, <1>4, HeldStep DEF Remains, Buffered, Buffers

\* While workers of several versions take turns a run never goes back: no checkpoint is accepted
\* from a worker older than the run, however long ago it claimed the activation
\* (claim_tasks_for_session, refresh_migration_tasks, commit_checkpoint).
THEOREM RunsDoNotGoBack ==
    ASSUME RuntimeStarts, NoSelfStart, NobodyTerminates PROVE Spec => NoDowngrade
<1> DEFINE Forward == \A x \in db'.completed \ db.completed : VersionOf[x.owner] >= db.inst[x.act.ref].version
<1>1. Init => HeldVersions
  BY DEF Init, HeldVersions
<1>2. BaseInv /\ BaseInv' /\ HeldVersions /\ [Next]_vars => HeldVersions'
  BY HeldVersionsStep
<1>3. ASSUME BaseInv, HeldVersions, [Next]_vars PROVE Forward
  <2>1. Inv /\ HeldStarts /\ Unstarted
    BY <1>3 DEF BaseInv, WorkInv
  <2>2. CASE OtherStep
    BY <2>1, <2>2, OtherTables
  <2>3. CASE Advances
    <3>1. PICK c \in held, next \in {"running"} \cup Closed, S \in SUBSET Refs :
             /\ Running(db, c.act.ref) /\ db.inst[c.act.ref].seq = c.act.seq
             /\ Advanced(db, c, next, S, db')
      BY <2>3 DEF Advances
    <3>2. db.inst[c.act.ref].version <= VersionOf[c.worker]
      BY <1>3, <3>1 DEF HeldVersions
    <3>3. db'.completed = db.completed \cup {[act |-> c.act, owner |-> c.worker]}
      BY <3>1 DEF Advanced
    <3>4. VersionOf[c.worker] \in Nat /\ db.inst[c.act.ref].version \in Nat
      BY <2>1, ClaimFields, InstanceFields, VersionOfType DEF Inv, TypeOK, Instance
    <3> QED
      BY <3>2, <3>3, <3>4
  <2> QED
    BY <1>3, <2>1, <2>2, <2>3, StepIsOtherOrAdvances
<1> HIDE DEF Forward
<1>4. BaseInv /\ HeldVersions /\ [Next]_vars => [Forward]_vars
  BY <1>3
<1>5. Spec => [][Forward]_vars
  BY <1>1, <1>2, <1>4, BaseHolds, PTL DEF Spec
<1> QED
  BY <1>5 DEF Forward, NoDowngrade

-------------------------------------------------------------------------------
(* The engine implements DurableRuns, step by step. *)

UnreadOf(d) == {<<s.id, s.ref>> : s \in {x \in d.signals : x.consumed = 0}}
ReadOf(d) == {<<s.id, s.ref, s.consumed>> : s \in {x \in d.signals : x.consumed # 0}}

\* The variables of DurableRuns, of the tables d.
StatusOf(d)   == [r \in Refs |-> d.inst[r].status]
SequenceOf(d) == [r \in Refs |-> d.inst[r].seq]

LEMMA PromiseVariables ==
    /\ Promise!promise = <<StatusOf(db), SequenceOf(db), UnreadOf(db), ReadOf(db)>>
    /\ Promise!promise' = <<StatusOf(db'), SequenceOf(db'), UnreadOf(db'), ReadOf(db')>>
  BY DEF Promise!promise, StatusOf, SequenceOf, UnreadOf, ReadOf

LEMMA PromiseInit == Init => Promise!Init
  BY DEF Init, EmptyTables, NoInstance, Promise!Init

\* A signal that is accepted has a new number.
LEMMA SignalAccepted ==
    ASSUME NEW d \in Tables, NEW e, NEW r \in Refs, SignalAdded(d, e, r),
           Numbered(d.signals, d.signalCounter), d.signalCounter < MaxSignals
    PROVE  /\ ReadOf(e) = ReadOf(d)
           /\ \/ UnreadOf(e) = UnreadOf(d)
              \/ \E n \in 1..MaxSignals : n > d.signalCounter /\ UnreadOf(e) = UnreadOf(d) \cup {<<n, r>>}
<1>1. CASE e.signals = d.signals
  BY <1>1 DEF ReadOf, UnreadOf
<1>2. CASE \E s \in Signal : /\ s.id = d.signalCounter + 1 /\ s.ref = r /\ s.consumed = 0
                             /\ e.signals = d.signals \cup {s}
  <2>1. PICK s \in Signal : /\ s.id = d.signalCounter + 1 /\ s.ref = r /\ s.consumed = 0
                            /\ e.signals = d.signals \cup {s}
    BY <1>2
  <2>2. d.signalCounter + 1 \in 1..MaxSignals /\ d.signalCounter + 1 > d.signalCounter
    BY InputAssumption DEF Tables
  <2>3. ReadOf(e) = ReadOf(d)
    BY <2>1 DEF ReadOf
  <2>4. UnreadOf(e) = UnreadOf(d) \cup {<<s.id, s.ref>>}
    BY <2>1 DEF UnreadOf
  <2> QED
    BY <2>1, <2>2, <2>3, <2>4
<1> QED
  BY <1>1, <1>2 DEF SignalAdded

LEMMA AcceptedNumbers ==
    ASSUME Inv
    PROVE  \A n \in Promise!Accepted : n <= db.signalCounter
<1>1. Promise!Accepted \subseteq {s.id : s \in db.signals}
  BY DEF Promise!Accepted
<1> QED
  BY <1>1 DEF Inv, TypeOK, Tables, Sound, Numbered

TakenAs(S, n, seq) == {IF s.id = n THEN [s EXCEPT !.consumed = seq] ELSE s : s \in S}

\* A signal that is taken moves from the unread signals to the read ones.
LEMMA SignalTaken ==
    ASSUME NEW d \in Tables, NEW e \in Tables, NEW n \in Nat, NEW r \in Refs, NEW seq \in Nat \ {0},
           Numbered(d.signals, d.signalCounter),
           \E s \in d.signals : s.id = n /\ s.ref = r /\ s.consumed = 0,
           e.signals = TakenAs(d.signals, n, seq)
    PROVE  /\ <<n, r>> \in UnreadOf(d)
           /\ UnreadOf(e) = UnreadOf(d) \ {<<n, r>>}
           /\ ReadOf(e) = ReadOf(d) \cup {<<n, r, seq>>}
<1> DEFINE take(s) == IF s.id = n THEN [s EXCEPT !.consumed = seq] ELSE s
<1>1. PICK o \in d.signals : o.id = n /\ o.ref = r /\ o.consumed = 0
  OBVIOUS
<1>2. \A s \in d.signals : s.id = n => s = o
  BY <1>1 DEF Numbered
<1>3. \A s \in d.signals : /\ take(s).id = s.id /\ take(s).ref = s.ref
                           /\ take(s).consumed = IF s.id = n THEN seq ELSE s.consumed
  BY DEF Tables, Signal
<1>4. e.signals = {take(s) : s \in d.signals}
  BY DEF TakenAs
<1> HIDE DEF take
<1>5. <<n, r>> \in UnreadOf(d)
  BY <1>1 DEF UnreadOf
<1>6. ASSUME NEW x \in UnreadOf(e) PROVE x \in UnreadOf(d) \ {<<n, r>>}
  <2>1. PICK s \in d.signals : take(s).consumed = 0 /\ x = <<take(s).id, take(s).ref>>
    BY <1>4, <1>6 DEF UnreadOf
  <2>2. s.id # n /\ s.consumed = 0 /\ x = <<s.id, s.ref>>
    BY <1>3, <2>1
  <2> QED
    BY <2>2 DEF UnreadOf
<1>7. ASSUME NEW x \in UnreadOf(d), x # <<n, r>> PROVE x \in UnreadOf(e)
  <2>1. PICK s \in d.signals : s.consumed = 0 /\ x = <<s.id, s.ref>>
    BY <1>7 DEF UnreadOf
  <2>2. s.id # n
    BY <1>1, <1>2, <1>7, <2>1
  <2>3. take(s) \in e.signals /\ take(s).consumed = 0 /\ x = <<take(s).id, take(s).ref>>
    BY <1>3, <1>4, <2>1, <2>2
  <2> QED
    BY <2>3 DEF UnreadOf
<1>8. ASSUME NEW x \in ReadOf(e) PROVE x \in ReadOf(d) \cup {<<n, r, seq>>}
  <2>1. PICK s \in d.signals : take(s).consumed # 0 /\ x = <<take(s).id, take(s).ref, take(s).consumed>>
    BY <1>4, <1>8 DEF ReadOf
  <2>2. CASE s.id = n
    BY <1>1, <1>2, <1>3, <2>1, <2>2
  <2>3. CASE s.id # n
    <3>1. s.consumed # 0 /\ x = <<s.id, s.ref, s.consumed>>
      BY <1>3, <2>1, <2>3
    <3> QED
      BY <3>1 DEF ReadOf
  <2> QED
    BY <2>2, <2>3
<1>9. ASSUME NEW x \in ReadOf(d) PROVE x \in ReadOf(e)
  <2>1. PICK s \in d.signals : s.consumed # 0 /\ x = <<s.id, s.ref, s.consumed>>
    BY <1>9 DEF ReadOf
  <2>2. s.id # n
    BY <1>1, <1>2, <2>1
  <2>3. take(s) \in e.signals /\ take(s).consumed # 0 /\ x = <<take(s).id, take(s).ref, take(s).consumed>>
    BY <1>3, <1>4, <2>1, <2>2
  <2> QED
    BY <2>3 DEF ReadOf
<1>10. <<n, r, seq>> \in ReadOf(e)
  <2>1. take(o) \in e.signals /\ take(o).consumed = seq /\ take(o).id = n /\ take(o).ref = r
    BY <1>1, <1>3, <1>4
  <2> QED
    BY <2>1 DEF ReadOf
<1> QED
  BY <1>5, <1>6, <1>7, <1>8, <1>9, <1>10

NewSignal(r) == \E n \in 1..MaxSignals : n > db.signalCounter /\ UnreadOf(db') = UnreadOf(db) \cup {<<n, r>>}

\* The number of a new signal has not been accepted before.
LEMMA NewNumber ==
    ASSUME Inv, NEW n \in 1..MaxSignals, n > db.signalCounter
    PROVE  n \in (1..MaxSignals) \ Promise!Accepted
<1>1. db.signalCounter \in Nat
  BY DEF Inv, TypeOK, Tables
<1>2. n \notin Promise!Accepted
  BY <1>1, AcceptedNumbers
<1> QED
  BY <1>2

LEMMA StartIsPromised ==
    ASSUME Inv, NEW r \in Refs, ReadOf(db') = ReadOf(db), UnreadOf(db') = UnreadOf(db) \/ NewSignal(r),
           StatusOf(db') = [StatusOf(db) EXCEPT ![r] = "running"],
           db.inst[r].status = "absent", SequenceOf(db') = SequenceOf(db)
    PROVE  Promise!Begin(r)
<1>1. \/ UnreadOf(db') = UnreadOf(db)
      \/ \E n \in (1..MaxSignals) \ Promise!Accepted : UnreadOf(db') = UnreadOf(db) \cup {<<n, r>>}
  BY NewNumber DEF NewSignal
<1> QED
  BY <1>1 DEF Promise!Begin, StatusOf, SequenceOf, UnreadOf, ReadOf

LEMMA RestartIsPromised ==
    ASSUME NEW r \in Refs, ReadOf(db') = ReadOf(db), UnreadOf(db') = UnreadOf(db),
           StatusOf(db') = [StatusOf(db) EXCEPT ![r] = "running"],
           db.inst[r].status # "absent", SequenceOf(db') = [SequenceOf(db) EXCEPT ![r] = 0]
    PROVE  Promise!Replace(r)
  BY DEF Promise!Replace, StatusOf, SequenceOf, UnreadOf, ReadOf

LEMMA SignalIsPromised ==
    ASSUME Inv, NEW r \in Refs, ReadOf(db') = ReadOf(db), NewSignal(r),
           StatusOf(db') = StatusOf(db), SequenceOf(db') = SequenceOf(db)
    PROVE  \E n \in 1..MaxSignals : Promise!Accept(r, n)
<1>1. PICK n \in (1..MaxSignals) \ Promise!Accepted : UnreadOf(db') = UnreadOf(db) \cup {<<n, r>>}
  BY NewNumber DEF NewSignal
<1>2. Promise!Accept(r, n)
  BY <1>1 DEF Promise!Accept, StatusOf, SequenceOf, UnreadOf, ReadOf
<1> QED
  BY <1>2

LEMMA CancelIsPromised ==
    ASSUME NEW r \in Refs, ReadOf(db') = ReadOf(db), UnreadOf(db') = UnreadOf(db),
           StatusOf(db') = [StatusOf(db) EXCEPT ![r] = "canceled"],
           Running(db, r), SequenceOf(db') = SequenceOf(db)
    PROVE  Promise!Cancel(r)
  BY DEF Promise!Cancel, StatusOf, SequenceOf, UnreadOf, ReadOf, Running

LEMMA ArrivalIsPromised ==
    ASSUME Inv, Unstarted, Arrives
    PROVE  [Promise!Next]_(Promise!promise)
<1>1. db \in Tables /\ Numbered(db.signals, db.signalCounter)
  BY DEF Inv, TypeOK, Sound
<1>2. ASSUME NEW r \in Refs, NEW e \in Tables, Begun(db, e, r)
      PROVE  /\ StatusOf(e) = [StatusOf(db) EXCEPT ![r] = "running"]
             /\ SequenceOf(e) = [SequenceOf(db) EXCEPT ![r] = 0]
             /\ db.inst[r].status = "absent" => SequenceOf(e) = SequenceOf(db)
             /\ UnreadOf(e) = UnreadOf(db) /\ ReadOf(e) = ReadOf(db)
  BY <1>2 DEF Begun, Unstarted, StatusOf, SequenceOf, UnreadOf, ReadOf
<1>3. ASSUME NEW r \in Refs, Begins(r) PROVE Promise!Begin(r) \/ Promise!Replace(r)
  <2>1. db' \in Tables /\ Begun(db, db', r)
    BY <1>3 DEF Begins, Begun
  <2> QED
    BY <1>2, <2>1, StartIsPromised, RestartIsPromised
<1>4. ASSUME NEW r \in Refs, Receives(r)
      PROVE  UNCHANGED Promise!promise \/ \E n \in 1..MaxSignals : Promise!Accept(r, n)
  <2>1. StatusOf(db') = StatusOf(db) /\ SequenceOf(db') = SequenceOf(db)
    BY <1>4 DEF Receives, SignalAdded, StatusOf, SequenceOf
  <2>2. ReadOf(db') = ReadOf(db) /\ (UnreadOf(db') = UnreadOf(db) \/ NewSignal(r))
    BY <1>1, <1>4, SignalAccepted DEF Receives, NewSignal
  <2> QED
    BY <2>1, <2>2, SignalIsPromised, PromiseVariables
<1>5. ASSUME NEW r \in Refs, BeginsWithSignal(r) PROVE Promise!Begin(r)
  <2>1. PICK e \in Tables : Begun(db, e, r) /\ SignalAdded(e, db', r)
    BY <1>5 DEF BeginsWithSignal
  <2>2. db.inst[r].status = "absent" /\ e.signalCounter = db.signalCounter
        /\ e.signalCounter < MaxSignals /\ Numbered(e.signals, e.signalCounter)
    BY <1>1, <1>5, <2>1 DEF BeginsWithSignal, Begun
  <2>3. StatusOf(db') = StatusOf(e) /\ SequenceOf(db') = SequenceOf(e)
    BY <2>1 DEF SignalAdded, StatusOf, SequenceOf
  <2>4. ReadOf(db') = ReadOf(e) /\ (UnreadOf(db') = UnreadOf(e) \/
             \E n \in 1..MaxSignals : n > e.signalCounter /\ UnreadOf(db') = UnreadOf(e) \cup {<<n, r>>})
    BY <2>1, <2>2, SignalAccepted
  <2>5. ReadOf(db') = ReadOf(db) /\ (UnreadOf(db') = UnreadOf(db) \/ NewSignal(r))
    BY <1>2, <2>1, <2>2, <2>4 DEF NewSignal
  <2> QED
    BY <1>2, <2>1, <2>2, <2>3, <2>5, StartIsPromised
<1> QED
  BY <1>3, <1>4, <1>5 DEF Arrives, Promise!Next

LEMMA QuietIsPromised ==
    ASSUME QuietStep
    PROVE  UNCHANGED Promise!promise
<1>1. db'.inst = db.inst /\ db'.signals = db.signals
  BY DEF QuietStep, QuietlyKeeps, Quiet
<1>2. /\ StatusOf(db') = StatusOf(db) /\ SequenceOf(db') = SequenceOf(db)
      /\ UnreadOf(db') = UnreadOf(db) /\ ReadOf(db') = ReadOf(db)
  BY <1>1 DEF StatusOf, SequenceOf, UnreadOf, ReadOf
<1> QED
  BY <1>2, PromiseVariables

LEMMA SpawnIsPromised ==
    ASSUME Inv, Unstarted, Spawns
    PROVE  [Promise!Next]_(Promise!promise)
<1>1. PICK r \in Refs : StartsRuns(db, db', {r})
  BY DEF Spawns
<1>2. ReadOf(db') = ReadOf(db) /\ UnreadOf(db') = UnreadOf(db)
  BY <1>1 DEF StartsRuns, ReadOf, UnreadOf
<1>3. SequenceOf(db') = SequenceOf(db)
  BY <1>1 DEF StartsRuns, SequenceOf, Unstarted
<1>4. \A q \in Refs : q # r => db'.inst[q] = db.inst[q]
  BY <1>1 DEF StartsRuns
<1>5. CASE db'.inst[r] = db.inst[r]
  <2>1. StatusOf(db') = StatusOf(db)
    BY <1>4, <1>5 DEF StatusOf
  <2> QED
    BY <1>2, <1>3, <2>1, PromiseVariables
<1>6. CASE db'.inst[r] # db.inst[r]
  <2>1. db.inst[r].status = "absent" /\ db'.inst[r].status = "running"
    BY <1>1, <1>6 DEF StartsRuns
  <2>2. StatusOf(db') = [StatusOf(db) EXCEPT ![r] = "running"]
    BY <1>4, <2>1 DEF StatusOf
  <2>3. Promise!Begin(r)
    BY <1>2, <1>3, <2>1, <2>2, StartIsPromised
  <2> QED
    BY <2>3 DEF Promise!Next
<1> QED
  BY <1>5, <1>6

LEMMA HaltIsPromised ==
    ASSUME Halts
    PROVE  [Promise!Next]_(Promise!promise)
<1>1. PICK r \in Refs : Halted(db, db', r)
  BY DEF Halts
<1>2. ReadOf(db') = ReadOf(db) /\ UnreadOf(db') = UnreadOf(db)
  BY <1>1 DEF Halted, ReadOf, UnreadOf
<1>3. SequenceOf(db') = SequenceOf(db)
  BY <1>1 DEF Halted, SequenceOf
<1>4. \A q \in Refs : q # r => db'.inst[q] = db.inst[q]
  BY <1>1 DEF Halted
<1>5. CASE db'.inst[r] = db.inst[r]
  <2>1. StatusOf(db') = StatusOf(db)
    BY <1>4, <1>5 DEF StatusOf
  <2> QED
    BY <1>2, <1>3, <2>1, PromiseVariables
<1>6. CASE db'.inst[r] # db.inst[r]
  <2>1. Running(db, r) /\ db'.inst[r].status = "canceled"
    BY <1>1, <1>6 DEF Halted
  <2>2. StatusOf(db') = [StatusOf(db) EXCEPT ![r] = "canceled"]
    BY <1>4, <2>1 DEF StatusOf
  <2>3. Promise!Cancel(r)
    BY <1>2, <1>3, <2>1, <2>2, CancelIsPromised
  <2> QED
    BY <2>3 DEF Promise!Next
<1> QED
  BY <1>5, <1>6

\* A checkpoint takes the signal that woke it, if a signal did.
LEMMA AdvanceIsPromised ==
    ASSUME Inv, Unstarted, Advances
    PROVE  \E r \in Refs : Promise!Checkpoint(r)
<1>1. PICK c \in held, next \in {"running"} \cup Closed, S \in SUBSET Refs :
         Running(db, c.act.ref) /\ Consumable(db, c.act) /\ Advanced(db, c, next, S, db')
  BY DEF Advances
<1> DEFINE r   == c.act.ref
           seq == db.inst[r].seq + 1
<1>2. /\ db \in Tables /\ db' \in Tables /\ Numbered(db.signals, db.signalCounter)
      /\ r \in Refs /\ c.act.n \in Nat /\ seq \in Nat \ {0} /\ db'.inst[r].seq = seq /\ db'.inst[r].status = next
      /\ \A q \in Refs \ {r} : db'.inst[q].seq = db.inst[q].seq
  <2>1. c.act.n \in Nat
    BY ClaimFields DEF Inv, TypeOK, Activation
  <2>2. db' \in Tables
    BY <1>1 DEF Advanced
  <2>3. db \in Tables /\ Numbered(db.signals, db.signalCounter)
    BY DEF Inv, TypeOK, Sound
  <2> QED
    BY <1>1, <2>1, <2>2, <2>3, AdvanceRuns
<1>3. /\ db'.signals = {IF c.act.kind = "signal" /\ s.id = c.act.n THEN [s EXCEPT !.consumed = seq] ELSE s : s \in db.signals}
      /\ \A q \in Refs \ {r} :
           \/ db'.inst[q].status = db.inst[q].status
           \/ db.inst[q].status = "absent" /\ db'.inst[q].status = "running"
           \/ db.inst[q].status \in {"absent", "running"} /\ db'.inst[q].status = "canceled"
  BY <1>1 DEF Advanced, Running
<1>4. /\ \A q \in Refs : db'.inst[q].status \in {"absent", "running"} \cup Closed
      /\ next # "absent" /\ db.inst[r].status = "running"
  <2>1. db' \in Tables
    BY <1>1 DEF Advanced
  <2> QED
    BY <1>1, <2>1, InstanceFields DEF Instance, Closed, Running
<1> HIDE DEF seq
<1>5. \/ UnreadOf(db') = UnreadOf(db) /\ ReadOf(db') = ReadOf(db)
      \/ \E s \in UnreadOf(db) : /\ s[2] = r /\ UnreadOf(db') = UnreadOf(db) \ {s}
                                 /\ ReadOf(db') = ReadOf(db) \cup {<<s[1], r, seq>>}
  <2>1. CASE c.act.kind # "signal"
    <3>1. db'.signals = db.signals
      BY <1>3, <2>1
    <3> QED
      BY <3>1 DEF UnreadOf, ReadOf
  <2>2. CASE c.act.kind = "signal"
    <3> DEFINE n == c.act.n
    <3>1. \E s \in db.signals : s.id = n /\ s.ref = r /\ s.consumed = 0
      BY <1>1, <2>2 DEF Consumable
    <3>2. db'.signals = TakenAs(db.signals, n, seq)
      BY <1>3, <2>2 DEF TakenAs
    <3>3. n \in Nat /\ r \in Refs
      BY <1>2
    <3> HIDE DEF n, r
    <3>4. /\ <<n, r>> \in UnreadOf(db)
          /\ UnreadOf(db') = UnreadOf(db) \ {<<n, r>>}
          /\ ReadOf(db') = ReadOf(db) \cup {<<n, r, seq>>}
      BY <1>2, <3>1, <3>2, <3>3, SignalTaken
    <3> QED
      BY <3>4
  <2> QED
    BY <2>1, <2>2
<1> HIDE DEF r
<1>6. /\ StatusOf(db') \in [Refs -> {"absent", "running"} \cup Promise!Ended]
      /\ SequenceOf(db') = [SequenceOf(db) EXCEPT ![r] = seq]
  BY <1>2, <1>4 DEF StatusOf, SequenceOf, Promise!Ended, Closed
<1>7. \/ UnreadOf(db') = UnreadOf(db) /\ ReadOf(db') = ReadOf(db)
      \/ \E s \in {x \in UnreadOf(db) : x[2] = r} :
            /\ UnreadOf(db') = UnreadOf(db) \ {s}
            /\ ReadOf(db') = ReadOf(db) \cup {<<s[1], r, db.inst[r].seq + 1>>}
  BY <1>5 DEF seq
<1>8. Promise!Checkpoint(r)
  <2>1. SequenceOf(db') = [SequenceOf(db) EXCEPT ![r] = @ + 1]
    BY <1>2, <1>6 DEF SequenceOf, seq
  <2> QED
    BY <1>2, <1>3, <1>4, <1>6, <1>7, <2>1 DEF Promise!Checkpoint, StatusOf, SequenceOf, UnreadOf, ReadOf
<1> QED
  BY <1>2, <1>8

LEMMA StepIsPromised ==
    ASSUME BaseInv, [Next]_vars
    PROVE  [Promise!Next]_(Promise!promise)
<1>1. Inv /\ HeldStarts /\ Unstarted
  BY DEF BaseInv, WorkInv
<1>2. CASE QuietStep
  BY <1>2, QuietIsPromised
<1>3. CASE Arrives
  BY <1>1, <1>3, ArrivalIsPromised
<1>4. CASE Spawns
  BY <1>1, <1>4, SpawnIsPromised
<1>5. CASE Halts
  BY <1>5, HaltIsPromised
<1>6. CASE Advances
  BY <1>1, <1>6, AdvanceIsPromised DEF Promise!Next
<1> QED
  BY <1>1, <1>2, <1>3, <1>4, <1>5, <1>6, EngineStep

\* Behind shards, leases, claims, crashes, retries and timeouts a user sees the runs of
\* DurableRuns: each advances checkpoint by checkpoint, and a checkpoint takes at most one
\* signal of its run's inbox, for good.  Every step of the engine is a step of DurableRuns or
\* changes nothing a user sees.
THEOREM EngineKeepsItsPromise ==
    ASSUME RuntimeStarts, NoSelfStart PROVE Spec => ImplementsDurableRuns
<1>1. BaseInv /\ [Next]_vars => [Promise!Next]_(Promise!promise)
  BY StepIsPromised
<1> QED
  BY <1>1, PromiseInit, BaseHolds, PTL DEF Spec, ImplementsDurableRuns, Promise!Spec

-------------------------------------------------------------------------------
(* The tables between the parts of a checkpoint. *)

LEMMA ReplaceTasksAsFields ==
    ASSUME NEW d \in Tables, NEW r \in Refs, NEW i \in Instance
    PROVE  LET e == ReplaceTasksAs(d, r, i)
           IN  /\ e.inst = d.inst /\ e.signals = d.signals /\ e.children = d.children
               /\ e.effects = d.effects /\ e.completed = d.completed
               /\ e.signalCounter = d.signalCounter /\ e.childCounter = d.childCounter
<1> DEFINE d1 == [d EXCEPT !.inst[r] = i]
           d2 == ReplaceTasks(d1, r)
           e  == [d2 EXCEPT !.inst = d.inst]
<1>1. ReplaceTasksAs(d, r, i) = e
  BY DEF ReplaceTasksAs
<1>2. /\ d1 \in Tables /\ d1.signals = d.signals /\ d1.children = d.children
      /\ d1.effects = d.effects /\ d1.completed = d.completed
      /\ d1.signalCounter = d.signalCounter /\ d1.childCounter = d.childCounter
  BY DEF Tables
<1> HIDE DEF d1
<1>3. /\ d2 \in Tables /\ d2.signals = d1.signals /\ d2.children = d1.children
      /\ d2.effects = d1.effects /\ d2.completed = d1.completed
      /\ d2.signalCounter = d1.signalCounter /\ d2.childCounter = d1.childCounter
  BY <1>2, ReplaceTasksFields
<1> HIDE DEF d2
<1>4. /\ e.inst = d.inst /\ e.signals = d2.signals /\ e.children = d2.children
      /\ e.effects = d2.effects /\ e.completed = d2.completed
      /\ e.signalCounter = d2.signalCounter /\ e.childCounter = d2.childCounter
  BY <1>3 DEF Tables
<1> HIDE DEF e
<1> QED
  BY <1>1, <1>2, <1>3, <1>4

\* The run d1 of the claim has advanced and its event is consumed; then its children have been
\* started, in d2; the record of its own parent has taken its outcome, in d3; and its children
\* have been closed with it, in d4, which but for the tasks of the run is the outcome.
CheckpointParts(d, c, next, waits, starts, now, d1, d2, d3, d4, e) ==
    LET r   == c.act.ref
        seq == d.inst[r].seq + 1
        n   == NextInstance(d, d.inst[r], next, waits, VersionOf[c.worker], now)
    IN  /\ n \in Instance
        /\ d1.inst = [d.inst EXCEPT ![r] = n] /\ d1.effects = Settled(d.effects, c)
        /\ d1.signals = {IF c.act.kind = "signal" /\ s.id = c.act.n THEN [s EXCEPT !.consumed = seq] ELSE s : s \in d.signals}
        /\ d1.children = {IF c.act.kind = "child" /\ x.id = c.act.n THEN [x EXCEPT !.delivered = seq] ELSE x : x \in d.children}
        /\ d1.signalCounter = d.signalCounter /\ d1.childCounter = d.childCounter
        /\ d2 = StartedAll(d1, c, starts, now)
        /\ d3 = UpdateParentRecord(d2, d.inst[r], next, now)
        /\ d4 = ApplyClosePolicy(d3, r, next, seq, now)
        /\ e.inst = d4.inst /\ e.signals = d4.signals /\ e.children = d4.children /\ e.effects = d4.effects
        /\ e.signalCounter = d4.signalCounter /\ e.childCounter = d4.childCounter

LEMMA CheckpointInParts ==
    ASSUME NEW d \in Tables, NEW c \in Claim, NEW next \in {"running"} \cup Closed,
           NEW waits \in SUBSET Wait, NEW starts \in Seq(ChildStart), Len(starts) <= 2,
           NEW now \in Nat
    PROVE  \E d1, d2, d3, d4 \in Tables :
             /\ CheckpointParts(d, c, next, waits, starts, now, d1, d2, d3, d4,
                                Checkpoint(d, c, next, waits, starts, now))
             /\ Sound(d) => Sound(d1) /\ Sound(d2) /\ Sound(d3) /\ Sound(d4)
<1> DEFINE r   == c.act.ref
           a   == c.act
           i   == d.inst[r]
           seq == i.seq + 1
           n   == NextInstance(d, i, next, waits, VersionOf[c.worker], now)
           d1a == [d EXCEPT !.inst[r] = n]
           d1c == Consumed(d1a, a, seq)
           E   == Settled(d1c.effects, c)
           d1  == [d1c EXCEPT !.effects = E]
           d2  == StartedAll(d1, c, starts, now)
           d3  == UpdateParentRecord(d2, i, next, now)
           d4  == ApplyClosePolicy(d3, r, next, seq, now)
           d5  == ReplaceTasksAs(d4, r, d1a.inst[r])
           done == [act |-> c.act, owner |-> c.worker]
           e   == [d5 EXCEPT !.completed = d5.completed \cup {done}]
           S1  == {IF a.kind = "signal" /\ s.id = a.n THEN [s EXCEPT !.consumed = seq] ELSE s : s \in d.signals}
           C1  == {IF a.kind = "child" /\ x.id = a.n THEN [x EXCEPT !.delivered = seq] ELSE x : x \in d.children}
<1>1. Checkpoint(d, c, next, waits, starts, now) = e
  BY DEF Checkpoint
<1>2. r \in Refs /\ i \in Instance /\ seq \in Nat \ {0} /\ a \in Activation /\ done \in CompletedClaim
  BY ClaimFields, InstanceFields DEF CompletedClaim
<1>3. n \in Instance /\ n.status = next /\ (next # "running" => n.waits = {})
  <2>1. n \in Instance
    BY <1>2, NextInstanceType, VersionOfType, ClaimFields
  <2> QED
    BY <1>2, <2>1 DEF NextInstance, Instance
<1> HIDE DEF r, a, i, seq, n, done
<1>4. /\ d1a \in Tables /\ d1a.tasks = d.tasks /\ d1a.completed = d.completed /\ d1a.claimed = d.claimed
      /\ d1a.signals = d.signals /\ d1a.children = d.children /\ d1a.effects = d.effects
      /\ d1a.signalCounter = d.signalCounter /\ d1a.childCounter = d.childCounter
      /\ d1a.inst = [d.inst EXCEPT ![r] = n] /\ d1a.inst[r] = n
  BY <1>2, <1>3 DEF Tables
<1> HIDE DEF d1a
<1>5. Sound(d) => Sound(d1a)
  <2>1. StoppedWaitForNothing(d.inst) => StoppedWaitForNothing(d1a.inst)
    BY <1>3, <1>4 DEF StoppedWaitForNothing, Tables
  <2> QED
    BY <1>4, <2>1 DEF Sound
<1>6. /\ d1c.inst = d1a.inst /\ d1c.effects = d1a.effects /\ d1c.signals = S1 /\ d1c.children = C1
      /\ d1c.signalCounter = d1a.signalCounter /\ d1c.childCounter = d1a.childCounter
  BY <1>4 DEF Consumed, Tables
<1>7. d1c \in Tables /\ (Sound(d) => Sound(d1c))
  BY <1>2, <1>4, <1>5, ConsumedSafe DEF Safe
<1> HIDE DEF d1c, S1, C1
<1>8. d1 \in Tables /\ (Sound(d) => Sound(d1)) /\ E \in SUBSET EffectRecord
  <2> DEFINE F == FailureRecords(c.act, c.failed)
  <2>1. /\ F \in SUBSET EffectRecord /\ WithinPolicy(F) /\ OneRecordEach(F)
        /\ \A f \in F : f.act = c.act
    BY FailureRecordsType, ClaimFields
  <2> HIDE DEF F
  <2>2. E = IF c.failed = {} THEN d1c.effects ELSE {f \in d1c.effects : f.act # c.act} \cup F
    BY DEF Settled, F
  <2>3. E \in SUBSET EffectRecord
    BY <1>7, <2>1, <2>2 DEF Tables
  <2> HIDE DEF E
  <2>4. /\ WithinPolicy(d1c.effects) => WithinPolicy(E)
        /\ OneRecordEach(d1c.effects) => OneRecordEach(E)
    BY <2>1, <2>2 DEF WithinPolicy, OneRecordEach
  <2>5. Safe(d1c, d1)
    BY <1>7, <2>3, <2>4, NewEffects
  <2> QED
    BY <1>7, <2>3, <2>5 DEF Safe
<1>9. E = Settled(d.effects, c)
  BY <1>4, <1>6
<1> HIDE DEF E
<1>10. /\ d1.inst = d1c.inst /\ d1.effects = E /\ d1.signals = d1c.signals /\ d1.children = d1c.children
       /\ d1.signalCounter = d1c.signalCounter /\ d1.childCounter = d1c.childCounter
  BY <1>7, <1>8 DEF Tables
<1> HIDE DEF d1
<1>11. d2 \in Tables /\ (Sound(d) => Sound(d2))
  BY <1>8, StartedAllSafe DEF Safe
<1>12. d2 = StartedAll(d1, c, starts, now)
  OBVIOUS
<1> HIDE DEF d2
<1>13. d3 \in Tables /\ (Sound(d) => Sound(d3))
  BY <1>2, <1>11, UpdateParentRecordSafe DEF Safe
<1>14. d3 = UpdateParentRecord(d2, d.inst[r], next, now)
  BY DEF i
<1> HIDE DEF d3
<1>15. d4 \in Tables /\ (Sound(d) => Sound(d4))
  BY <1>2, <1>13, ApplyClosePolicySafe DEF Safe
<1>16. d4 = ApplyClosePolicy(d3, r, next, seq, now)
  OBVIOUS
<1> HIDE DEF d4
<1>17. /\ d5.inst = d4.inst /\ d5.signals = d4.signals /\ d5.children = d4.children
       /\ d5.effects = d4.effects /\ d5.completed = d4.completed
       /\ d5.signalCounter = d4.signalCounter /\ d5.childCounter = d4.childCounter
  BY <1>2, <1>3, <1>4, <1>15, ReplaceTasksAsFields
<1>18. d5 \in Tables
  BY <1>2, <1>3, <1>4, <1>15, ReplaceTasksAsSafe DEF Safe
<1> HIDE DEF d5
<1>19. /\ e.inst = d5.inst /\ e.signals = d5.signals /\ e.children = d5.children /\ e.effects = d5.effects
       /\ e.signalCounter = d5.signalCounter /\ e.childCounter = d5.childCounter
  BY <1>2, <1>18 DEF Tables
<1> HIDE DEF e
<1>20. CheckpointParts(d, c, next, waits, starts, now, d1, d2, d3, d4, e)
  BY <1>3, <1>4, <1>6, <1>9, <1>10, <1>12, <1>14, <1>16, <1>17, <1>19
     DEF CheckpointParts, r, a, i, seq, n, S1, C1
<1> QED
  BY <1>1, <1>8, <1>11, <1>13, <1>15, <1>20

-------------------------------------------------------------------------------
(* A commit, in parts. *)

\* Neither the instants nor the cursors of waits matter to their types.
LEMMA MaterializeTypes ==
    ASSUME NEW W \in SUBSET Wait, DistinctTypes(W), NEW ready \in Nat, NEW now \in Nat
    PROVE  DistinctTypes(Materialize(W, ready, now))
<1>1. ASSUME NEW v \in Materialize(W, ready, now), v.kind = "signal" PROVE v \in W
  <2>1. PICK w \in W : v = CASE w.kind = "run"   -> [w EXCEPT !.at = ready]
                            [] w.kind = "timer" -> [w EXCEPT !.at = now + w.at]
                            [] OTHER            -> w
    BY DEF Materialize
  <2>2. CASE w.kind = "run"
    <3>1. w \in RunWait
      BY <2>2, WaitFields
    <3> QED
      BY <1>1, <2>1, <2>2, <3>1 DEF RunWait
  <2>3. CASE w.kind = "timer"
    <3>1. w \in TimerWait
      BY <2>3, WaitFields
    <3> QED
      BY <1>1, <2>1, <2>3, <3>1 DEF TimerWait
  <2> QED
    BY <2>1, <2>2, <2>3
<1> QED
  BY <1>1 DEF DistinctTypes

LEMMA ResultsTypes ==
    ASSUME NEW c \in Claim, NEW res \in Results(c)
    PROVE  DistinctTypes(res.template)
<1>1. c.act.ref[1] \in Ids
  BY ClaimFields DEF Refs
<1>2. \A W \in NextWaits[c.act.ref[1]] : DistinctTypes(W)
  BY <1>1, InputAssumption
<1>3. DistinctTypes({})
  BY DEF DistinctTypes
<1> QED
  BY <1>2, <1>3 DEF Results

\* What an accepted commit of the claim c rests on, and the tables between its parts.
CommitParts(c, next, waits, starts, now, d1, d2, d3, d4) ==
    /\ Running(db, c.act.ref) /\ db.inst[c.act.ref].seq = c.act.seq /\ Consumable(db, c.act)
    /\ held' = held \ {c} /\ DistinctTypes(waits)
    /\ starts \in Seq(ChildStart) /\ Len(starts) <= 2 /\ Distinct(starts)
    /\ \A k \in DOMAIN starts : starts[k] \in c.starts /\ Accepted(db, starts[k]) /\ Accepted(d1, starts[k])
    /\ CheckpointParts(db, c, next, waits, starts, now, d1, d2, d3, d4, db')
    /\ Sound(d1) /\ Sound(d2) /\ Sound(d3) /\ Sound(d4)

LEMMA CommitInParts ==
    ASSUME Inv, HeldStarts, Commits
    PROVE  \E c \in held, next \in {"running"} \cup Closed, waits \in SUBSET Wait, now \in Nat :
           \E starts \in Seq(ChildStart), d1, d2, d3, d4 \in Tables :
               CommitParts(c, next, waits, starts, now, d1, d2, d3, d4)
<1>1. PICK c \in held, now \in Instants : \E res \in Results(c) : Commit(c, res, now)
  BY DEF Commits
<1>2. PICK res \in Results(c) : Commit(c, res, now)
  BY <1>1
<1> DEFINE waits == Materialize(res.template, c.at, now)
<1>3. now \in Nat /\ db \in Tables /\ c \in Claim /\ c.starts \in SUBSET ChildStart /\ Sound(db)
  BY InstantsType, ClaimFields DEF Inv, TypeOK
<1>4. res.next \in {"running"} \cup Closed /\ waits \in SUBSET Wait
  BY <1>3, ResultsType, ClaimFields, MaterializeType
<1>5. PICK starts \in Orders(c.starts) : db' = Checkpoint(db, c, res.next, waits, starts, now)
  BY <1>2 DEF Commit
<1>15. DistinctTypes(waits)
  <2>1. DistinctTypes(res.template) /\ res.template \in SUBSET Wait
    BY <1>3, ResultsType, ResultsTypes
  <2> QED
    BY <1>3, <2>1, MaterializeTypes, ClaimFields
<1> HIDE DEF waits
<1>6. starts \in Seq(ChildStart) /\ Len(starts) <= 2
  BY <1>3, <1>5, OrdersType
<1>7. /\ \A k \in DOMAIN starts : starts[k] \in c.starts
      /\ \A k, l \in DOMAIN starts : k # l => starts[k] # starts[l]
  BY <1>5 DEF Orders
<1>8. Conflict(db, c) = "none" /\ held' = held \ {c}
  BY <1>2 DEF Commit, Refusal
<1>9. /\ Running(db, c.act.ref) /\ db.inst[c.act.ref].seq = c.act.seq /\ Consumable(db, c.act)
      /\ \A x \in c.starts : Accepted(db, x) /\ (x.reuse # "always" => x.ref[1] # c.act.ref[1])
  BY <1>8, AgreeableClaim DEF HeldStarts, Accepted
<1>10. Distinct(starts)
  BY <1>7 DEF Distinct, HeldStarts
<1>11. PICK d1, d2, d3, d4 \in Tables :
         /\ CheckpointParts(db, c, res.next, waits, starts, now, d1, d2, d3, d4, db')
         /\ Sound(d1) /\ Sound(d2) /\ Sound(d3) /\ Sound(d4)
  BY <1>3, <1>4, <1>5, <1>6, CheckpointInParts
<1>12. c.act.ref \in Refs /\ \A q \in Refs : q # c.act.ref => d1.inst[q] = db.inst[q]
  BY <1>3, <1>11, ClaimFields DEF CheckpointParts, Tables
<1>13. \A k \in DOMAIN starts : Accepted(d1, starts[k])
  BY <1>3, <1>7, <1>9, <1>12, AcceptedAfterAdvance
<1>14. CommitParts(c, res.next, waits, starts, now, d1, d2, d3, d4)
  BY <1>6, <1>7, <1>8, <1>9, <1>10, <1>11, <1>13, <1>15 DEF CommitParts
<1> QED
  BY <1>3, <1>4, <1>6, <1>14

-------------------------------------------------------------------------------
(* The waits of a run are of distinct types. *)

TypesApart(d) == \A r \in Refs : DistinctTypes(d.inst[r].waits)

\* A wait that is stamped stays the wait it is, but for its cursor.
LEMMA StampedFields ==
    ASSUME NEW d \in Tables, NEW w \in Wait, NEW P
    PROVE  LET v == Stamped(d, w, P)
           IN  v.kind = w.kind /\ (v.kind = "signal" => v.name = w.name /\ v.type = w.type /\ v.future = w.future)
<1>1. CASE w.kind # "signal"
  BY <1>1 DEF Stamped
<1>2. CASE w.kind = "signal"
  <2>1. w \in SignalWait
    BY <1>2, WaitFields
  <2>2. \A n : LET v == [w EXCEPT !.cursor = n]
               IN  v.kind = w.kind /\ v.name = w.name /\ v.type = w.type /\ v.future = w.future
    BY <2>1 DEF SignalWait
  <2> QED
    BY <1>2, <2>2 DEF Stamped
<1> QED
  BY <1>1, <1>2

LEMMA StampedTypes ==
    ASSUME NEW d \in Tables, NEW waits \in SUBSET Wait, DistinctTypes(waits), NEW P
    PROVE  DistinctTypes(StampWaits(d, waits, P))
<1> SUFFICES ASSUME NEW v \in StampWaits(d, waits, P), NEW w \in StampWaits(d, waits, P),
                    v.kind = "signal", w.kind = "signal", v.type = w.type
             PROVE  v = w
  BY DEF DistinctTypes
<1>1. PICK x \in waits : v = Stamped(d, x, P)
  BY DEF StampWaits
<1>2. PICK y \in waits : w = Stamped(d, y, P)
  BY DEF StampWaits
<1>3. x.kind = "signal" /\ v.type = x.type
  BY <1>1, StampedFields
<1>4. y.kind = "signal" /\ w.type = y.type
  BY <1>2, StampedFields
<1>5. x = y
  BY <1>3, <1>4 DEF DistinctTypes
<1> QED
  BY <1>1, <1>2, <1>5

LEMMA NewInstanceTypes ==
    ASSUME NEW d \in Tables, TypesApart(d), NEW r \in Refs, NEW version \in Nat,
           NEW waits \in SUBSET Wait, DistinctTypes(waits), NEW parent \in Nat, NEW now \in Nat
    PROVE  TypesApart(NewInstance(d, r, version, waits, parent, now))
<1> DEFINE W == StampWaits(d, waits, {})
           i == [status |-> "running", seq |-> 0, version |-> version, waits |-> W,
                 parent |-> parent, createdAt |-> now, updatedAt |-> now]
           E == {e \in d.effects : e.act.ref # r}
           n == NewInstance(d, r, version, waits, parent, now)
<1>1. DistinctTypes(W)
  BY StampedTypes
<1>2. n = [d EXCEPT !.inst[r] = i, !.effects = E]
  BY DEF NewInstance
<1>3. i.waits = W
  OBVIOUS
<1> HIDE DEF W, i, E, n
<1>4. \A q \in Refs : n.inst[q] = IF q = r THEN i ELSE d.inst[q]
  BY <1>2 DEF Tables
<1>5. TypesApart(n)
  BY <1>1, <1>3, <1>4 DEF TypesApart
<1> QED
  BY <1>5 DEF n

LEMMA InitialTypes ==
    ASSUME NEW r \in Refs, NEW ready \in Nat, NEW now \in Nat
    PROVE  /\ Materialize(InitialWaits[r[1]], ready, now) \in SUBSET Wait
           /\ DistinctTypes(Materialize(InitialWaits[r[1]], ready, now))
<1>1. r[1] \in Ids
  BY DEF Refs
<1>2. InitialWaits[r[1]] \in SUBSET Wait /\ DistinctTypes(InitialWaits[r[1]])
  BY <1>1, InputAssumption
<1> QED
  BY <1>2, MaterializeTypes, MaterializeType

LEMMA CreatedTypes ==
    ASSUME NEW d \in Tables, TypesApart(d), NEW r \in Refs, NEW version \in Versions, NEW now \in Nat
    PROVE  TypesApart(CreateInstance(d, r, version, Materialize(InitialWaits[r[1]], now, now), now))
<1> DEFINE W == Materialize(InitialWaits[r[1]], now, now)
           n == NewInstance(d, r, version, W, 0, now)
           e == CreateInstance(d, r, version, W, now)
<1>1. W \in SUBSET Wait /\ DistinctTypes(W) /\ version \in Nat
  BY InitialTypes, NumberAssumption
<1> HIDE DEF W
<1>2. n \in Tables /\ TypesApart(n)
  BY <1>1, NewInstanceFields, NewInstanceTypes
<1>3. e = ReplaceTasks(n, r)
  BY DEF CreateInstance
<1> HIDE DEF n, e
<1>4. e.inst = n.inst
  BY <1>2, <1>3, ReplaceTasksFields
<1>5. TypesApart(e)
  BY <1>2, <1>4 DEF TypesApart
<1> QED
  BY <1>5 DEF e, W

LEMMA StartedTypes ==
    ASSUME NEW d \in Tables, TypesApart(d), NEW c \in Claim, NEW start \in ChildStart, NEW now \in Nat,
           Accepted(d, start)
    PROVE  TypesApart(Started(d, c, start, now))
<1> DEFINE W  == Materialize(InitialWaits[start.ref[1]], start.at, start.at)
           v  == VersionOf[c.worker]
           k  == CHOOSE r \in KeptRun(d, start) : TRUE
           id == d.childCounter + 1
           n  == NewInstance(d, start.ref, v, W, id, now)
           m  == WithRecord(n, c.act, start, start.ref)
           e  == Started(d, c, start, now)
<1>1. start.ref \in Refs /\ start.at \in Nat /\ c.act \in Activation /\ v \in Nat /\ id \in Nat
  BY VersionOfType, ClaimFields DEF ChildStart, Tables
<1>2. W \in SUBSET Wait /\ DistinctTypes(W)
  BY <1>1, InitialTypes
<1>3. e = IF KeptRun(d, start) # {} THEN WithRecord(d, c.act, start, k) ELSE ReplaceTasks(m, start.ref)
  BY DEF Started, WriteChildStart, StartChild, Accepted
<1>4. WithRecord(d, c.act, start, k).inst = d.inst
  BY DEF WithRecord, Tables
<1> HIDE DEF W, v, k, id
<1>5. n \in Tables /\ TypesApart(n)
  BY <1>1, <1>2, NewInstanceFields, NewInstanceTypes
<1> HIDE DEF n
<1>6. m \in Tables /\ m.inst = n.inst
  BY <1>1, <1>5, WithRecordKeeps
<1> HIDE DEF m
<1>7. ReplaceTasks(m, start.ref).inst = n.inst
  BY <1>1, <1>6, ReplaceTasksFields
<1> HIDE DEF e
<1>8. e.inst = d.inst \/ e.inst = n.inst
  BY <1>3, <1>4, <1>7
<1>9. TypesApart(e)
  BY <1>5, <1>8 DEF TypesApart
<1> QED
  BY <1>9 DEF e

LEMMA StartedAllTypes ==
    ASSUME NEW d \in Tables, TypesApart(d), NEW c \in Claim, NEW starts \in Seq(ChildStart), Len(starts) <= 2,
           NEW now \in Nat, Distinct(starts), \A i \in DOMAIN starts : Accepted(d, starts[i])
    PROVE  TypesApart(StartedAll(d, c, starts, now))
<1> DEFINE g == StartedAll(d, c, starts, now)
<1>1. /\ Len(starts) \in Nat /\ DOMAIN starts = 1..Len(starts)
      /\ \A i \in 1..Len(starts) : starts[i] \in ChildStart
  OBVIOUS
<1>2. CASE Len(starts) = 0
  BY <1>2 DEF StartedAll
<1>3. CASE Len(starts) = 1
  <2>1. g = Started(d, c, starts[1], now) /\ starts[1] \in ChildStart /\ Accepted(d, starts[1])
    BY <1>1, <1>3 DEF StartedAll
  <2> HIDE DEF g
  <2>2. TypesApart(g)
    BY <2>1, StartedTypes
  <2> QED
    BY <2>2 DEF g
<1>4. CASE Len(starts) = 2
  <2> DEFINE e == Started(d, c, starts[1], now)
             f == Started(e, c, starts[2], now)
  <2>1. /\ g = f /\ starts[1] \in ChildStart /\ starts[2] \in ChildStart
        /\ Accepted(d, starts[1]) /\ Accepted(d, starts[2]) /\ starts[1].ref # starts[2].ref
    <3>1. DOMAIN starts = {1, 2}
      BY <1>4, <1>1
    <3> QED
      BY <1>4, <1>1, <3>1 DEF StartedAll, Distinct
  <2> HIDE DEF g
  <2>2. TypesApart(e) /\ StartsRuns(d, e, {starts[1].ref}) /\ e \in Tables
    BY <2>1, StartedTypes, StartedKeeps, StartedSafe DEF Safe
  <2> HIDE DEF e
  <2>3. Accepted(e, starts[2])
    BY <2>1, <2>2, AcceptedAfterStart DEF ChildStart
  <2>4. TypesApart(f)
    BY <2>1, <2>2, <2>3, StartedTypes
  <2> HIDE DEF f
  <2>5. TypesApart(g)
    BY <2>1, <2>4
  <2> QED
    BY <2>5 DEF g
<1>5. \A n \in Nat : n <= 2 => n = 0 \/ n = 1 \/ n = 2
  OBVIOUS
<1> QED
  BY <1>1, <1>2, <1>3, <1>4, <1>5

\* What a commit makes of the waits and the signals: the waits of its own run are stamped with
\* the cursors of those that were there, every other run that goes on is as it was, and the
\* signal that woke it is consumed.
Rearmed(c, waits) ==
    LET r == c.act.ref
    IN  /\ Running(db', r) => db'.inst[r].waits = StampWaits(db, waits, db.inst[r].waits)
        /\ \A q \in Refs \ {r} : Running(db, q) /\ Running(db', q) => db'.inst[q] = db.inst[q]
        /\ db'.signals = {IF c.act.kind = "signal" /\ s.id = c.act.n
                          THEN [s EXCEPT !.consumed = db.inst[r].seq + 1] ELSE s : s \in db.signals}

\* Closing a run with its children changes no signal, and no run but by canceling it.
LEMMA ClosePolicyCancels ==
    ASSUME NEW d \in Tables, NEW r, NEW next, NEW seq \in Nat \ {0}, NEW now \in Nat,
           NEW e, e = ApplyClosePolicy(d, r, next, seq, now)
    PROVE  /\ e.signals = d.signals
           /\ \A q \in Refs : \/ e.inst[q] = d.inst[q]
                              \/ next # "running" /\ Running(d, q) /\ e.inst[q].status = "canceled"
<1> DEFINE f == ApplyClosePolicy(d, r, next, seq, now)
<1>1. /\ f \in Tables
      /\ \A q \in Refs : Keeps(d, f, q)
      /\ \A q \in Refs :
           \/ f.inst[q] = d.inst[q]
           \/ /\ next \in {"failed", "canceled"} /\ Running(d, q)
              /\ f.inst[q].status = "canceled" /\ f.inst[q].seq = d.inst[q].seq
              /\ f.inst[q].version = d.inst[q].version
      /\ f.signals = d.signals /\ f.completed = d.completed
      /\ f.signalCounter = d.signalCounter /\ f.childCounter = d.childCounter
      /\ Closing(d.children, f.children, IF next \in {"failed", "canceled"} THEN {seq} ELSE {})
      /\ \A x \in f.children : \/ x \in d.children
                               \/ next \in {"failed", "canceled"} /\ r \in Lineage(d, x.parent)
      /\ next \in {"failed", "canceled"} =>
           \A q \in Refs : q = r \/ f.inst[q] # d.inst[q] => OpenUnder(f, q) = {}
  BY ApplyClosePolicyKeeps
<1>2. e = f
  OBVIOUS
<1> HIDE DEF f
<1> QED
  BY <1>1, <1>2

LEMMA CommitRearms ==
    ASSUME Inv, HeldStarts, Commits
    PROVE  /\ \E c \in held, waits \in SUBSET Wait : c.act.ref \in Refs /\ Running(db, c.act.ref) /\ Rearmed(c, waits)
           /\ TypesApart(db) => TypesApart(db')
<1>1. PICK c \in held, next \in {"running"} \cup Closed, waits \in SUBSET Wait, now \in Nat :
         \E starts \in Seq(ChildStart), d1, d2, d3, d4 \in Tables :
             CommitParts(c, next, waits, starts, now, d1, d2, d3, d4)
  BY CommitInParts
<1>2. PICK starts \in Seq(ChildStart), d1, d2, d3, d4 \in Tables :
         CommitParts(c, next, waits, starts, now, d1, d2, d3, d4)
  BY <1>1
<1> DEFINE r   == c.act.ref
           i   == db.inst[r]
           seq == i.seq + 1
           n   == NextInstance(db, i, next, waits, VersionOf[c.worker], now)
<1>3. /\ Running(db, r) /\ DistinctTypes(waits) /\ Len(starts) <= 2 /\ Distinct(starts)
      /\ \A k \in DOMAIN starts : Accepted(d1, starts[k])
      /\ CheckpointParts(db, c, next, waits, starts, now, d1, d2, d3, d4, db')
      /\ Sound(d2) /\ Sound(d3) /\ Sound(d4)
  BY <1>2 DEF CommitParts
<1>4. c \in Claim /\ db \in Tables /\ r \in Refs /\ i \in Instance /\ seq \in Nat \ {0}
  <2>1. c \in Claim /\ db \in Tables /\ r \in Refs
    BY ClaimFields DEF Inv, TypeOK
  <2>2. i \in Instance
    BY <2>1, InstanceFields
  <2>3. i.seq \in Nat
    BY <2>2 DEF Instance
  <2>4. seq \in Nat \ {0}
    BY <2>3
  <2> QED
    BY <2>1, <2>2, <2>4
<1>5. /\ d1.inst = [db.inst EXCEPT ![r] = n] /\ n \in Instance
      /\ d1.signals = {IF c.act.kind = "signal" /\ s.id = c.act.n THEN [s EXCEPT !.consumed = seq] ELSE s : s \in db.signals}
      /\ d2 = StartedAll(d1, c, starts, now) /\ d3 = UpdateParentRecord(d2, i, next, now)
      /\ d4 = ApplyClosePolicy(d3, r, next, seq, now)
      /\ db'.inst = d4.inst /\ db'.signals = d4.signals
  BY <1>3 DEF CheckpointParts
<1>6. n.status = next /\ n.waits = IF next = "running" THEN StampWaits(db, waits, i.waits) ELSE {}
  BY <1>4 DEF NextInstance, Instance
<1> HIDE DEF n, seq
<1>7. d1.inst[r] = n /\ \A q \in Refs \ {r} : d1.inst[q] = db.inst[q]
  BY <1>4, <1>5 DEF Tables
<1>16. i = db.inst[r]
  OBVIOUS
<1>17. d4 = ApplyClosePolicy(d3, r, next, seq, now)
  BY <1>5
<1> HIDE DEF i, r
<1>8. PICK S : StartsRuns(d1, d2, S)
  BY <1>3, <1>4, <1>5, StartedAllKeeps
<1>9. d3.inst = d2.inst /\ d3.signals = d2.signals
  BY <1>3, <1>4, <1>5, UpdateParentRecordKeeps DEF Sound
<1>10. /\ d4.signals = d3.signals
       /\ \A q \in Refs : \/ d4.inst[q] = d3.inst[q]
                          \/ next # "running" /\ Running(d3, q) /\ d4.inst[q].status = "canceled"
  BY <1>4, <1>17, ClosePolicyCancels
<1>11. ASSUME Running(db', r) PROVE db'.inst[r].waits = StampWaits(db, waits, i.waits)
  <2>1. d2.inst[r] = n
    BY <1>4, <1>6, <1>7, <1>8 DEF StartsRuns, Closed
  <2>2. db'.inst[r] = n
    BY <1>4, <1>5, <1>9, <1>10, <1>11, <2>1 DEF Running
  <2> QED
    BY <1>6, <1>11, <2>2 DEF Running
<1>12. ASSUME NEW q \in Refs \ {r}, Running(db, q), Running(db', q) PROVE db'.inst[q] = db.inst[q]
  <2>1. d2.inst[q] = db.inst[q]
    BY <1>7, <1>8, <1>12 DEF StartsRuns, Running
  <2> QED
    BY <1>5, <1>9, <1>10, <1>12, <2>1 DEF Running
<1>13. db'.signals = {IF c.act.kind = "signal" /\ s.id = c.act.n THEN [s EXCEPT !.consumed = seq] ELSE s : s \in db.signals}
  BY <1>5, <1>8, <1>9, <1>10 DEF StartsRuns
<1>14. Rearmed(c, waits)
  BY <1>11, <1>12, <1>13 DEF Rearmed, seq, r, i
<1>15. ASSUME TypesApart(db) PROVE TypesApart(db')
  <2>1. DistinctTypes(n.waits)
    <3>1. DistinctTypes(StampWaits(db, waits, i.waits))
      BY <1>3, <1>4, StampedTypes
    <3>2. DistinctTypes({})
      BY DEF DistinctTypes
    <3> QED
      BY <1>6, <3>1, <3>2
  <2>2. TypesApart(d1)
    BY <1>7, <1>15, <2>1 DEF TypesApart
  <2>3. TypesApart(d2)
    BY <1>3, <1>4, <1>5, <2>2, StartedAllTypes
  <2>4. ASSUME NEW q \in Refs PROVE DistinctTypes(db'.inst[q].waits)
    <3>1. CASE d4.inst[q] = d3.inst[q]
      BY <1>5, <1>9, <2>3, <3>1 DEF TypesApart
    <3>2. CASE d4.inst[q].status = "canceled"
      BY <1>3, <1>5, <3>2 DEF Sound, StoppedWaitForNothing, DistinctTypes
    <3> QED
      BY <1>10, <3>1, <3>2
  <2> QED
    BY <2>4 DEF TypesApart
<1> QED
  BY <1>3, <1>4, <1>14, <1>15 DEF r

\* A run that a client starts waits as its workflow does; a signal changes no waits.
LEMMA ClientsTypes ==
    ASSUME TypeOK, StartsOrSignals, TypesApart(db)
    PROVE  TypesApart(db')
<1>1. db \in Tables /\ Instants \subseteq Nat
  BY InstantsType DEF TypeOK
<1>2. ASSUME NEW d \in Tables, NEW e, NEW r \in Refs, NEW type \in SignalTypes,
             NEW key \in Keys \cup {NoKey}, NEW now \in Nat, TypesApart(d), e = AppendSignal(d, r, type, key, now)
      PROVE  TypesApart(e)
  <2>1. e.inst = d.inst
    BY <1>2, SignalArrives DEF SignalAdded
  <2> QED
    BY <1>2, <2>1 DEF TypesApart
<1>3. ASSUME NEW now \in Instants, NEW in \in ClientStarts, StartWorkflow(in, now) PROVE TypesApart(db')
  <2>1. in.ref \in Refs /\ in.version \in Versions
    BY InputAssumption
  <2>2. db' = CreateInstance(db, in.ref, in.version, Materialize(InitialWaits[in.ref[1]], now, now), now)
    BY <1>3 DEF StartWorkflow
  <2> QED
    BY <1>1, <2>1, <2>2, CreatedTypes
<1>4. ASSUME NEW now \in Instants, NEW in \in Appends, Signals(in, now) PROVE TypesApart(db')
  <2>1. in.ref \in Refs /\ in.type \in SignalTypes /\ in.key \in Keys \cup {NoKey}
    BY InputAssumption
  <2> QED
    BY <1>1, <1>2, <1>4, <2>1 DEF Signals
<1>5. ASSUME NEW now \in Instants, NEW in \in SendStarts, StartSendSignal(in, now) PROVE TypesApart(db')
  <2>1. /\ in.ref \in Refs /\ in.version \in Versions
        /\ in.type \in SignalTypes /\ in.key \in Keys \cup {NoKey}
    BY InputAssumption
  <2>2. CASE SendToTarget(in, now)
    BY <1>1, <1>2, <2>1, <2>2 DEF SendToTarget
  <2>3. CASE SendToRunning(in, now)
    BY <1>1, <1>2, <2>1, <2>3 DEF SendToRunning, LatestRunning, LastOf, RunsOf
  <2>4. CASE SendAndStart(in, now)
    <3> DEFINE e == CreateInstance(db, in.ref, in.version, Materialize(InitialWaits[in.ref[1]], now, now), now)
    <3>1. db' = AppendSignal(e, in.ref, in.type, in.key, now)
      BY <2>4 DEF SendAndStart
    <3>2. e \in Tables /\ TypesApart(e)
      BY <1>1, <2>1, StartArrives, CreatedTypes DEF Begun
    <3> HIDE DEF e
    <3> QED
      BY <1>1, <1>2, <2>1, <3>1, <3>2
  <2> QED
    BY <1>5, <2>2, <2>3, <2>4 DEF StartSendSignal
<1> QED
  BY <1>3, <1>4, <1>5 DEF StartsOrSignals

\* The waits of a run are of distinct types, whatever the engine does.
LEMMA TypesStep ==
    ASSUME Inv, Inv', HeldStarts, TypesApart(db), [Next]_vars
    PROVE  TypesApart(db')
<1>1. TypeOK /\ db \in Tables
  BY DEF Inv, TypeOK
<1>2. CASE QuietStep
  BY <1>2 DEF QuietStep, QuietlyKeeps, Quiet, TypesApart
<1>3. CASE StartsOrSignals
  BY <1>1, <1>3, ClientsTypes
<1>4. CASE Commits
  BY <1>4, CommitRearms
<1>5. CASE Creates
  <2>1. PICK c \in held, now \in Instants : \E start \in At(EagerStarts, c) : CreateChild(c, start, now)
    BY <1>5 DEF Creates
  <2>2. PICK start \in At(EagerStarts, c) : CreateChild(c, start, now)
    BY <2>1
  <2> DEFINE eager == [start EXCEPT !.at = now, !.conflict = "fail"]
  <2>3. c \in Claim /\ now \in Nat /\ start \in ChildStart
    BY <1>1, InstantsType, InputAssumption DEF TypeOK, At
  <2>4. /\ eager \in ChildStart /\ eager.ref = start.ref /\ eager.conflict = "fail"
        /\ eager.reuse = start.reuse
    BY <2>3 DEF ChildStart, ConflictPolicies
  <2>5. db' = Started(db, c, eager, now) /\ (KeptRun(db, start) = {} => db.inst[start.ref].status = "absent")
    BY <2>2 DEF CreateChild
  <2> HIDE DEF eager
  <2>6. Accepted(db, eager)
    BY <2>4, <2>5 DEF KeptRun, Accepted
  <2> QED
    BY <1>1, <2>3, <2>4, <2>5, <2>6, StartedTypes
<1>6. CASE Cancels
  <2>1. PICK r \in Refs : Halted(db, db', r)
    BY <1>1, <1>6, CancelsHalts DEF Halts
  <2>2. \A q \in Refs : db'.inst[q].status # "running" => db'.inst[q].waits = {}
    BY DEF Inv, Sound, StoppedWaitForNothing
  <2>3. ASSUME NEW q \in Refs PROVE DistinctTypes(db'.inst[q].waits)
    <3>1. CASE db'.inst[q] = db.inst[q]
      BY <3>1 DEF TypesApart
    <3>2. CASE db'.inst[q].status = "canceled"
      BY <2>2, <3>2 DEF DistinctTypes
    <3> QED
      BY <2>1, <3>1, <3>2 DEF Halted
  <2> QED
    BY <2>3 DEF TypesApart
<1> QED
  BY <1>1, <1>2, <1>3, <1>4, <1>5, <1>6, StepKinds

\* Only a commit moves a run that goes on to its next sequence.
LEMMA OnlyCommitsAdvance ==
    ASSUME Inv, [Next]_vars, NEW r \in Refs, Running(db, r), Running(db', r),
           db'.inst[r].seq = db.inst[r].seq + 1
    PROVE  Commits
<1>1. TypeOK /\ db \in Tables /\ db.inst[r].seq \in Nat
  BY InstanceFields DEF Inv, TypeOK, Instance
<1>2. db'.inst[r] # db.inst[r] /\ db'.inst[r].seq # 0
  BY <1>1
<1>3. ~ QuietStep
  BY <1>2 DEF QuietStep, QuietlyKeeps, Quiet
<1>4. ~ Arrives
  <2>1. \A q \in Refs : ~ Begins(q)
    BY <1>2 DEF Begins, Begun
  <2>2. \A q \in Refs : ~ Receives(q)
    BY <1>2 DEF Receives, SignalAdded
  <2>3. \A q \in Refs : ~ BeginsWithSignal(q)
    BY <1>2 DEF BeginsWithSignal, Begun, SignalAdded
  <2> QED
    BY <2>1, <2>2, <2>3 DEF Arrives
<1>5. ~ Spawns
  BY <1>2 DEF Spawns, StartsRuns, Running
<1>6. ~ Halts
  BY <1>2 DEF Halts, Halted, Running
<1> QED
  BY <1>1, <1>3, <1>4, <1>5, <1>6, StepKinds, ClientsArrive, CreatesSpawns, CancelsHalts

\* A future wait that a commit arms again has the cursor of the one it continues, so it takes
\* the signals that one took, but for the signal the commit consumed.
LEMMA PlaceIsKept ==
    ASSUME Inv, NEW c \in held, NEW waits \in SUBSET Wait, Rearmed(c, waits), TypesApart(db),
           NEW r \in Refs, r = c.act.ref, Running(db, r), Running(db', r),
           NEW w \in db.inst[r].waits, w.kind = "signal", w.future,
           NEW v \in db'.inst[r].waits, v.kind = "signal", v.future,
           v.name = w.name, v.type = w.type
    PROVE  Deliverable(db', r, v) =
               {s \in db'.signals : s.consumed = 0 /\ \E o \in Deliverable(db, r, w) : o.id = s.id}
<1> DEFINE old      == db.inst[r].waits
           seq      == db.inst[r].seq + 1
           after(s) == IF c.act.kind = "signal" /\ s.id = c.act.n THEN [s EXCEPT !.consumed = seq] ELSE s
<1>1. db \in Tables /\ old \in SUBSET Wait /\ seq \in Nat \ {0}
  BY InstanceFields DEF Inv, TypeOK, Instance
<1>2. db'.signals = {after(s) : s \in db.signals} /\ db'.inst[r].waits = StampWaits(db, waits, old)
  BY DEF Rearmed
<1> HIDE DEF seq
<1>3. \A s \in db.signals : after(s).id = s.id /\ (after(s).consumed = 0 => after(s) = s)
  BY <1>1 DEF Tables, Signal
<1> HIDE DEF after
<1>4. v.cursor = w.cursor
  <2>1. PICK u \in waits : v = Stamped(db, u, old)
    BY <1>2 DEF StampWaits
  <2>2. u \in Wait /\ u.kind = "signal" /\ u.future /\ u.name = w.name /\ u.type = w.type
    BY <1>1, <2>1, StampedFields
  <2>3. Continues(u, w)
    BY <2>2 DEF Continues
  <2>4. DistinctTypes(old)
    BY DEF TypesApart
  <2>5. \A p \in old : Continues(u, p) => p = w
    BY <2>2, <2>4 DEF DistinctTypes, Continues
  <2>6. (CHOOSE p \in old : Continues(u, p)) = w
    BY <2>3, <2>5
  <2>7. v = [u EXCEPT !.cursor = w.cursor]
    BY <2>1, <2>2, <2>3, <2>6 DEF Stamped
  <2>8. u \in SignalWait
    BY <2>2, WaitFields
  <2> QED
    BY <2>7, <2>8 DEF SignalWait
<1>5. ASSUME NEW s \in Deliverable(db', r, v)
      PROVE  s \in db'.signals /\ s.consumed = 0 /\ \E o \in Deliverable(db, r, w) : o.id = s.id
  <2>1. s \in db'.signals /\ s.ref = r /\ s.type = v.type /\ s.consumed = 0 /\ s.id > v.cursor
    BY DEF Deliverable
  <2>2. s \in db.signals
    BY <1>2, <1>3, <2>1
  <2>3. s \in Deliverable(db, r, w)
    BY <1>4, <2>1, <2>2 DEF Deliverable
  <2> QED
    BY <2>1, <2>3
<1>6. ASSUME NEW s \in db'.signals, s.consumed = 0, NEW o \in Deliverable(db, r, w), o.id = s.id
      PROVE  s \in Deliverable(db', r, v)
  <2>1. s \in db.signals
    BY <1>2, <1>3, <1>6
  <2>2. o \in db.signals /\ o.ref = r /\ o.type = w.type /\ o.consumed = 0 /\ o.id > w.cursor
    BY DEF Deliverable
  <2>3. s = o
    BY <1>6, <2>1, <2>2 DEF Inv, Sound, Numbered
  <2> QED
    BY <1>4, <1>6, <2>2, <2>3 DEF Deliverable
<1> QED
  BY <1>5, <1>6

\* A future wait that a checkpoint arms again takes what it took before: nothing that came
\* between the two is lost to it, and nothing that came before the first is handed to it
\* (signal_wait_start, stamp_future_waits_from).
THEOREM FutureWaitsKeepPlace ==
    ASSUME RuntimeStarts, NoSelfStart PROVE Spec => FutureWaitKeepsPlace
<1> DEFINE Apart == TypesApart(db)
           Place == \A r \in Refs :
               Running(db, r) /\ Running(db', r) /\ db'.inst[r].seq = db.inst[r].seq + 1 =>
               \A w \in {x \in db.inst[r].waits : x.kind = "signal" /\ x.future},
                  v \in {x \in db'.inst[r].waits : x.kind = "signal" /\ x.future} :
                   v.name = w.name /\ v.type = w.type =>
                       Deliverable(db', r, v) =
                           {s \in db'.signals : s.consumed = 0 /\ \E o \in Deliverable(db, r, w) : o.id = s.id}
<1>1. Init => Apart
  BY DEF Init, EmptyTables, NoInstance, TypesApart, DistinctTypes
<1>2. BaseInv /\ BaseInv' /\ Apart /\ [Next]_vars => Apart'
  <2>1. ASSUME BaseInv, BaseInv', Apart, [Next]_vars PROVE Apart'
    BY <2>1, TypesStep DEF BaseInv, WorkInv
  <2> QED
    BY <2>1
<1>3. BaseInv /\ Apart /\ [Next]_vars => Place
  <2> SUFFICES ASSUME BaseInv, Apart, [Next]_vars, NEW r \in Refs,
                      Running(db, r), Running(db', r), db'.inst[r].seq = db.inst[r].seq + 1,
                      NEW w \in db.inst[r].waits, w.kind = "signal", w.future,
                      NEW v \in db'.inst[r].waits, v.kind = "signal", v.future,
                      v.name = w.name, v.type = w.type
               PROVE  Deliverable(db', r, v) =
                          {s \in db'.signals : s.consumed = 0 /\ \E o \in Deliverable(db, r, w) : o.id = s.id}
    OBVIOUS
  <2>1. Inv /\ HeldStarts /\ db.inst[r].seq \in Nat
    BY InstanceFields DEF BaseInv, WorkInv, Inv, TypeOK, Instance
  <2>2. PICK c \in held, waits \in SUBSET Wait : c.act.ref \in Refs /\ Running(db, c.act.ref) /\ Rearmed(c, waits)
    BY <2>1, OnlyCommitsAdvance, CommitRearms
  <2>3. r = c.act.ref
    <3>1. r # c.act.ref => db'.inst[r] = db.inst[r]
      BY <2>2 DEF Rearmed
    <3> QED
      BY <2>1, <3>1
  <2> QED
    BY <2>1, <2>2, <2>3, PlaceIsKept
<1> HIDE DEF Apart, Place
<1>4. Spec => [][Place]_vars
  BY <1>1, <1>2, <1>3, BaseHolds, PTL DEF Spec
<1> QED
  BY <1>4, PTL DEF Place, FutureWaitKeepsPlace

-------------------------------------------------------------------------------
(* The runs of one id, one after the other. *)

\* Nobody asks for a run whatever becomes of the one before.
NobodyStartsAlways ==
    /\ \A in \in ClientStarts : in.reuse \notin {"always", NoPolicy}
    /\ \A in \in SendStarts : in.reuse # "always"
    /\ \A x \in CheckpointStarts \cup EagerStarts : x.start.reuse # "always"

\* A run that is running is the youngest of its id, so it is the one the reuse policies look at.
YoungestRuns(d, id) ==
    \A r, q \in Refs :
        r # q /\ r[1] = id /\ q[1] = id /\ Running(d, r) /\ d.inst[q].status # "absent" =>
            d.inst[q].createdAt < d.inst[r].createdAt
OnlyYoungestRun(d) == \A id \in Ids : YoungestRuns(d, id)
NoneRuns(d, id) == \A q \in Refs : q[1] = id => ~ Running(d, q)

\* In the tables e runs of S have begun that were not in d, one of an id and where none was running;
\* every other run is as old as it was and goes on only if it did.
Succeeded(d, e, S) ==
    /\ S \subseteq Refs
    /\ \A r \in S : NoneRuns(d, r[1])
    /\ \A r, q \in S : r[1] = q[1] => r = q
    /\ \A q \in Refs \ S : /\ e.inst[q].createdAt = d.inst[q].createdAt
                           /\ Running(e, q) => Running(d, q)
                           /\ e.inst[q].status # "absent" => d.inst[q].status # "absent"

LEMMA SameRunsSucceed ==
    ASSUME NEW d, NEW e, e.inst = d.inst PROVE Succeeded(d, e, {})
  BY DEF Succeeded, Running

LEMMA YoungestStays ==
    ASSUME NEW d, NEW e, Succeeded(d, e, {}), OnlyYoungestRun(d) PROVE OnlyYoungestRun(e)
  BY DEF Succeeded, OnlyYoungestRun, YoungestRuns

LEMMA InOrderStaysYoungest ==
    ASSUME NEW S, Succeeded(db, db', S), OnlyYoungestRun(db), RunsBeginInOrder
    PROVE  OnlyYoungestRun(db')
<1> SUFFICES ASSUME NEW id \in Ids, NEW r \in Refs, NEW q \in Refs, r # q, r[1] = id, q[1] = id,
                    Running(db', r), db'.inst[q].status # "absent"
             PROVE  db'.inst[q].createdAt < db'.inst[r].createdAt
  BY DEF OnlyYoungestRun, YoungestRuns
<1>1. CASE r \notin S
  <2>1. Running(db, r) /\ db'.inst[r].createdAt = db.inst[r].createdAt
    BY <1>1 DEF Succeeded
  <2>2. q \notin S
    BY <2>1 DEF Succeeded, NoneRuns
  <2>3. db.inst[q].status # "absent" /\ db'.inst[q].createdAt = db.inst[q].createdAt
    BY <2>2 DEF Succeeded
  <2> QED
    BY <2>1, <2>3 DEF OnlyYoungestRun, YoungestRuns
<1>2. CASE r \in S
  <2>1. q \notin S /\ ~ Running(db, r)
    BY <1>2 DEF Succeeded, NoneRuns
  <2>2. db.inst[q].status # "absent" /\ db'.inst[q].createdAt = db.inst[q].createdAt
    BY <2>1 DEF Succeeded
  <2> QED
    BY <2>1, <2>2 DEF RunsBeginInOrder
<1> QED
  BY <1>1, <1>2

\* What the reuse policies look at is the run that is running, if there is one.
LEMMA RunningIsLatest ==
    ASSUME NEW d \in Tables, NEW r \in Refs, Running(d, r), YoungestRuns(d, r[1])
    PROVE  r \in Latest(d, r[1])
<1>1. \A q \in RunsOf(d, r[1]) : q \in Refs /\ q[1] = r[1] /\ d.inst[q].status # "absent"
  BY DEF RunsOf
<1>2. r \in RunsOf(d, r[1])
  BY DEF RunsOf, Running
<1>3. r[2] \in Nat
  BY NumberAssumption DEF Refs
<1>4. \A q \in RunsOf(d, r[1]) : RunOrder(d, q, r)
  BY <1>1, <1>3 DEF YoungestRuns, RunOrder
<1> QED
  BY <1>2, <1>4 DEF Latest, LastOf

LEMMA NoneRunsWherePolicyCreates ==
    ASSUME NEW d \in Tables, NEW id \in Ids, YoungestRuns(d, id), NEW policy \in ReusePolicies, policy # "always",
           \A r \in Latest(d, id) : ShouldCreate(policy, d.inst[r].status)
    PROVE  NoneRuns(d, id)
<1>1. ~ ShouldCreate(policy, "running")
  BY DEF ShouldCreate, ReusePolicies
<1> QED
  BY <1>1, RunningIsLatest DEF NoneRuns, Running

LEMMA StartedSucceeds ==
    ASSUME NEW d \in Tables, NEW c \in Claim, NEW start \in ChildStart, NEW now \in Nat,
           Accepted(d, start), start.reuse # "always", YoungestRuns(d, start.ref[1])
    PROVE  \E S \in SUBSET {start.ref} : Succeeded(d, Started(d, c, start, now), S)
<1> DEFINE W  == Materialize(InitialWaits[start.ref[1]], start.at, start.at)
           v  == VersionOf[c.worker]
           k  == CHOOSE r \in KeptRun(d, start) : TRUE
           id == d.childCounter + 1
           n  == NewInstance(d, start.ref, v, W, id, now)
           m  == WithRecord(n, c.act, start, start.ref)
           e  == Started(d, c, start, now)
<1>1. /\ start.ref \in Refs /\ start.ref[1] \in Ids /\ start.at \in Nat /\ start.reuse \in ReusePolicies
      /\ c.act \in Activation /\ v \in Nat /\ id \in Nat
  BY VersionOfType, ClaimFields DEF ChildStart, Tables, Refs
<1>2. W \in SUBSET Wait
  BY <1>1, InitialTypes
<1>3. e = IF KeptRun(d, start) # {} THEN WithRecord(d, c.act, start, k) ELSE ReplaceTasks(m, start.ref)
  BY DEF Started, WriteChildStart, StartChild, Accepted
<1>4. WithRecord(d, c.act, start, k).inst = d.inst
  BY DEF WithRecord, Tables
<1> HIDE DEF W, v, k, id
<1>5. n \in Tables /\ \A q \in Refs : q # start.ref => n.inst[q] = d.inst[q]
  BY <1>1, <1>2, NewInstanceFields
<1> HIDE DEF n
<1>6. m \in Tables /\ m.inst = n.inst
  BY <1>1, <1>5, WithRecordKeeps
<1> HIDE DEF m
<1>7. ReplaceTasks(m, start.ref).inst = n.inst
  BY <1>1, <1>6, ReplaceTasksFields
<1> HIDE DEF e
<1>8. CASE KeptRun(d, start) # {}
  <2>1. Succeeded(d, e, {})
    BY <1>3, <1>4, <1>8, SameRunsSucceed
  <2> QED
    BY <2>1 DEF e
<1>9. CASE KeptRun(d, start) = {}
  <2>1. NoneRuns(d, start.ref[1])
    BY <1>1, <1>9, NoneRunsWherePolicyCreates DEF KeptRun
  <2>2. e.inst = n.inst
    BY <1>3, <1>7, <1>9
  <2>3. Succeeded(d, e, {start.ref})
    BY <1>1, <1>5, <2>1, <2>2 DEF Succeeded, Running
  <2> QED
    BY <2>3 DEF e
<1> QED
  BY <1>8, <1>9

\* The starts of a checkpoint are of ids of their own.
IdsApart(starts) == \A k, l \in DOMAIN starts : k # l => starts[k].ref[1] # starts[l].ref[1]

LEMMA StartedAllSucceeds ==
    ASSUME NEW d \in Tables, OnlyYoungestRun(d), NEW c \in Claim, NEW starts \in Seq(ChildStart), Len(starts) <= 2,
           NEW now \in Nat, IdsApart(starts),
           \A i \in DOMAIN starts : Accepted(d, starts[i]) /\ starts[i].reuse # "always"
    PROVE  \E S \in SUBSET {starts[i].ref : i \in DOMAIN starts} : Succeeded(d, StartedAll(d, c, starts, now), S)
<1> DEFINE g == StartedAll(d, c, starts, now)
           R == {starts[i].ref : i \in DOMAIN starts}
<1>1. /\ Len(starts) \in Nat /\ DOMAIN starts = 1..Len(starts)
      /\ \A i \in 1..Len(starts) : starts[i] \in ChildStart
  OBVIOUS
<1>2. CASE Len(starts) = 0
  <2>1. g = d
    BY <1>2 DEF StartedAll
  <2> QED
    BY <2>1, SameRunsSucceed
<1>3. CASE Len(starts) = 1
  <2>1. /\ g = Started(d, c, starts[1], now) /\ starts[1] \in ChildStart /\ Accepted(d, starts[1])
        /\ starts[1].reuse # "always" /\ starts[1].ref \in R
    BY <1>1, <1>3 DEF StartedAll
  <2>2. YoungestRuns(d, starts[1].ref[1])
    BY <2>1 DEF OnlyYoungestRun, ChildStart, Refs
  <2> HIDE DEF g, R
  <2>3. PICK S \in SUBSET {starts[1].ref} : Succeeded(d, g, S)
    BY <2>1, <2>2, StartedSucceeds
  <2>4. S \in SUBSET R
    BY <2>1, <2>3
  <2>5. \E T \in SUBSET R : Succeeded(d, g, T)
    BY <2>3, <2>4
  <2> QED
    BY <2>5 DEF g, R
<1>4. CASE Len(starts) = 2
  <2> DEFINE f == Started(d, c, starts[1], now)
             a == starts[1].ref
             b == starts[2].ref
  <2>1. /\ g = Started(f, c, starts[2], now)
        /\ starts[1] \in ChildStart /\ Accepted(d, starts[1]) /\ starts[1].reuse # "always"
        /\ starts[2] \in ChildStart /\ Accepted(d, starts[2]) /\ starts[2].reuse # "always"
        /\ a \in R /\ b \in R /\ a[1] # b[1]
    BY <1>1, <1>4 DEF StartedAll, IdsApart
  <2>2. a \in Refs /\ b \in Refs /\ a[1] \in Ids /\ b[1] \in Ids
    BY <2>1 DEF ChildStart, Refs
  <2>3. StartsRuns(d, f, {a})
    BY <2>1, StartedKeeps
  <2>4. YoungestRuns(d, a[1]) /\ YoungestRuns(d, b[1])
    BY <2>2 DEF OnlyYoungestRun
  <2>5. PICK S \in SUBSET {a} : Succeeded(d, f, S)
    BY <2>1, <2>4, StartedSucceeds
  <2> HIDE DEF f, g, R
  <2>6. f \in Tables /\ \A q \in Refs : q # a => f.inst[q] = d.inst[q]
    BY <2>3 DEF StartsRuns
  <2>7. Accepted(f, starts[2])
    BY <2>1, <2>2, <2>3, AcceptedAfterStart
  <2>8. YoungestRuns(f, b[1])
    BY <2>1, <2>4, <2>6 DEF YoungestRuns, Running
  <2>9. PICK T \in SUBSET {b} : Succeeded(f, g, T)
    BY <2>1, <2>6, <2>7, <2>8, StartedSucceeds
  <2>10. NoneRuns(f, b[1]) => NoneRuns(d, b[1])
    BY <2>1, <2>6 DEF NoneRuns, Running
  <2>11. Succeeded(d, g, S \cup T)
    <3>1. \A r \in S \cup T : r \in Refs /\ NoneRuns(d, r[1])
      BY <2>2, <2>5, <2>9, <2>10 DEF Succeeded
    <3>2. \A r, q \in S \cup T : r[1] = q[1] => r = q
      BY <2>1, <2>5, <2>9
    <3> QED
      BY <2>5, <2>9, <3>1, <3>2 DEF Succeeded
  <2>12. S \cup T \in SUBSET R
    BY <2>1, <2>5, <2>9
  <2>13. \E U \in SUBSET R : Succeeded(d, g, U)
    BY <2>11, <2>12
  <2> QED
    BY <2>13 DEF g, R
<1>5. \A n \in Nat : n <= 2 => n = 0 \/ n = 1 \/ n = 2
  OBVIOUS
<1> QED
  BY <1>1, <1>2, <1>3, <1>4, <1>5

\* A run that is canceled is as old as it was.
LEMMA CanceledIsAsOld ==
    ASSUME NEW d \in Tables, NEW p \in Refs, NEW r \in Refs, NEW now \in Nat
    PROVE  \A q \in Refs : CancelChildRun(d, p, r, now).inst[q].createdAt = d.inst[q].createdAt
<1> DEFINE started == {x \in d.children : x.parent = p /\ x.ref = r /\ x.status = "started"}
           first   == {x \in started : \A y \in started : x.id <= y.id}
           i       == [d.inst[r] EXCEPT !.status = "canceled", !.waits = {}, !.updatedAt = now]
           closed  == [d EXCEPT !.inst[r] = i]
           d1      == IF Running(d, r) THEN DeleteTasks(closed, TasksOf(d, r)) ELSE d
           C       == {IF x \in first THEN [x EXCEPT !.status = "failed", !.completedAt = now] ELSE x : x \in d1.children}
           d2      == [d1 EXCEPT !.children = C]
           e       == IF started = {} THEN d ELSE IF Running(d2, p) THEN RefreshTasks(d2, p, "child") ELSE d2
<1>1. CancelChildRun(d, p, r, now) = e
  BY DEF CancelChildRun
<1>2. i \in Instance /\ i.createdAt = d.inst[r].createdAt
  <2>1. d.inst[r] \in Instance
    BY InstanceFields
  <2> QED
    BY <2>1 DEF Instance, Closed
<1> HIDE DEF i, started
<1>3. closed \in Tables /\ closed.inst = [d.inst EXCEPT ![r] = i] /\ closed.children = d.children
  BY <1>2 DEF Tables
<1> HIDE DEF closed
<1>4. d1 \in Tables /\ d1.inst \in {d.inst, closed.inst} /\ d1.children = d.children
  BY <1>3, DeleteTasksFields
<1> HIDE DEF d1
<1>5. C \in SUBSET Child
  <2>1. \A x \in d1.children : x \in Child /\ [x EXCEPT !.status = "failed", !.completedAt = now] \in Child
    <3>1. d1.children \in SUBSET Child
      BY <1>4 DEF Tables
    <3> QED
      BY <3>1 DEF Child
  <2> QED
    BY <2>1
<1> HIDE DEF C
<1>6. d2 \in Tables /\ d2.inst = d1.inst
  BY <1>4, <1>5 DEF Tables
<1> HIDE DEF d2
<1>7. e.inst \in {d.inst, closed.inst}
  BY <1>4, <1>6, RefreshTasksFields
<1> HIDE DEF e
<1>8. \A q \in Refs : e.inst[q].createdAt = d.inst[q].createdAt
  BY <1>2, <1>3, <1>7 DEF Tables
<1> QED
  BY <1>1, <1>8

LEMMA ClosedIsAsOld ==
    ASSUME NEW d \in Tables, NEW r, NEW next, NEW seq \in Nat \ {0}, NEW now \in Nat
    PROVE  \A q \in Refs : ApplyClosePolicy(d, r, next, seq, now).inst[q].createdAt = d.inst[q].createdAt
<1> DEFINE hit    == ClosedWith(d, r)
           killed == {c.ref : c \in {x \in hit : x.policy = "cancel" /\ Running(d, x.ref)}}
           close(c) == IF c.policy = "abandon" THEN [c EXCEPT !.status = "abandoned", !.delivered = seq]
                       ELSE [c EXCEPT !.status = "failed", !.completedAt = now, !.delivered = seq]
           C  == {IF c \in hit THEN close(c) ELSE c : c \in d.children}
           stopped(q) == [d.inst[q] EXCEPT !.status = "canceled", !.waits = {}, !.updatedAt = now]
           I  == [q \in Refs |-> IF q \in killed THEN stopped(q) ELSE d.inst[q]]
           d1 == DeleteTasks(d, {t \in d.tasks : t.act.ref \in killed})
           e  == [d1 EXCEPT !.children = C, !.inst = I]
<1>1. d1 \in Tables /\ d1.inst = d.inst /\ d1.children = d.children
  BY DeleteTasksFields
<1>2. ApplyClosePolicy(d, r, next, seq, now) = IF next \notin {"failed", "canceled"} THEN d ELSE e
  BY <1>1 DEF ApplyClosePolicy
<1>3. \A q \in Refs : stopped(q).createdAt = d.inst[q].createdAt
  <2>1. \A q \in Refs : d.inst[q] \in Instance
    BY DEF Tables
  <2> QED
    BY <2>1 DEF Instance
<1> HIDE DEF d1, C, stopped, killed
<1>4. \A q \in Refs : I[q].createdAt = d.inst[q].createdAt
  BY <1>3
<1> HIDE DEF I
<1>5. e.inst = I
  BY <1>1 DEF Tables
<1> HIDE DEF e
<1> QED
  BY <1>2, <1>4, <1>5

-------------------------------------------------------------------------------
(* The starts in the hands of workers are of ids of their own. *)
HeldSuccessors ==
    \A c \in held : /\ \A x \in c.starts : x.reuse # "always"
                    /\ \A x, y \in c.starts : x # y => x.ref[1] # y.ref[1]

LEMMA HeldSuccessorsStep ==
    ASSUME Inv, HeldSuccessors, [Next]_vars, NobodyStartsAlways
    PROVE  HeldSuccessors'
<1> SUFFICES ASSUME NEW f \in held'
             PROVE  /\ \A x \in f.starts : x.reuse # "always"
                    /\ \A x, y \in f.starts : x # y => x.ref[1] # y.ref[1]
  BY DEF HeldSuccessors
<1>1. CASE \E c \in held : Remains(c, f)
  BY <1>1 DEF HeldSuccessors, Remains
<1>2. CASE Handed(f)
  BY <1>2 DEF Handed
<1>3. ASSUME NEW c \in held, NEW now \in Instants, NEW start \in ChildStart, Buffers(c, start, now, f)
      PROVE  /\ \A x \in f.starts : x.reuse # "always"
             /\ \A x, y \in f.starts : x # y => x.ref[1] # y.ref[1]
  <2> DEFINE new == Decided(start, now)
  <2>1. start.reuse # "always"
    BY <1>3 DEF Buffers, At, NobodyStartsAlways
  <2>2. f.starts = c.starts \cup {new} /\ \A x \in c.starts : x.ref[1] # start.ref[1]
    BY <1>3, <2>1 DEF Buffers, BufferStart
  <2>3. new.reuse = start.reuse /\ new.ref[1] = start.ref[1]
    <3>1. now \in Nat
      BY InstantsType DEF Inv
    <3> QED
      BY <3>1, DecidedFields
  <2> HIDE DEF new
  <2> QED
    BY <2>1, <2>2, <2>3 DEF HeldSuccessors
<1> QED
  BY <1>1, <1>2, <1>3, HeldStep DEF Buffered

LEMMA CommitSucceeds ==
    ASSUME Inv, HeldStarts, HeldSuccessors, OnlyYoungestRun(db), Commits
    PROVE  \E S : Succeeded(db, db', S)
<1>1. PICK c \in held, next \in {"running"} \cup Closed, waits \in SUBSET Wait, now \in Nat :
         \E starts \in Seq(ChildStart), d1, d2, d3, d4 \in Tables :
             CommitParts(c, next, waits, starts, now, d1, d2, d3, d4)
  BY CommitInParts
<1>2. PICK starts \in Seq(ChildStart), d1, d2, d3, d4 \in Tables :
         CommitParts(c, next, waits, starts, now, d1, d2, d3, d4)
  BY <1>1
<1> DEFINE r   == c.act.ref
           i   == db.inst[r]
           seq == i.seq + 1
           n   == NextInstance(db, i, next, waits, VersionOf[c.worker], now)
<1>3. /\ Running(db, r) /\ Len(starts) <= 2 /\ Distinct(starts)
      /\ \A k \in DOMAIN starts : starts[k] \in c.starts /\ Accepted(d1, starts[k])
      /\ CheckpointParts(db, c, next, waits, starts, now, d1, d2, d3, d4, db')
      /\ Sound(d2)
  BY <1>2 DEF CommitParts
<1>4. c \in Claim /\ db \in Tables /\ r \in Refs /\ i \in Instance /\ seq \in Nat \ {0}
  <2>1. c \in Claim /\ db \in Tables /\ r \in Refs
    BY ClaimFields DEF Inv, TypeOK
  <2>2. i \in Instance
    BY <2>1, InstanceFields
  <2>3. i.seq \in Nat
    BY <2>2 DEF Instance
  <2>4. seq \in Nat \ {0}
    BY <2>3
  <2> QED
    BY <2>1, <2>2, <2>4
<1>5. /\ d1.inst = [db.inst EXCEPT ![r] = n] /\ n \in Instance
      /\ d2 = StartedAll(d1, c, starts, now) /\ d3 = UpdateParentRecord(d2, i, next, now)
      /\ d4 = ApplyClosePolicy(d3, r, next, seq, now) /\ db'.inst = d4.inst
  BY <1>3 DEF CheckpointParts
<1>6. n.createdAt = i.createdAt
  BY <1>4 DEF NextInstance, Instance
<1> HIDE DEF n, seq
<1>7. d1.inst[r] = n /\ \A q \in Refs \ {r} : d1.inst[q] = db.inst[q]
  BY <1>4, <1>5 DEF Tables
<1>8. i = db.inst[r]
  OBVIOUS
<1> HIDE DEF i, r
<1>9. Succeeded(db, d1, {})
  BY <1>3, <1>4, <1>6, <1>7, <1>8 DEF Succeeded, Running
<1>10. OnlyYoungestRun(d1)
  BY <1>9, YoungestStays
<1>11. /\ IdsApart(starts)
       /\ \A k \in DOMAIN starts : starts[k].reuse # "always" /\ starts[k].ref[1] # r[1]
  BY <1>3 DEF HeldSuccessors, HeldStarts, IdsApart, Distinct, r
<1> DEFINE R == {starts[k].ref : k \in DOMAIN starts}
<1>12. PICK S \in SUBSET R : Succeeded(d1, d2, S)
  BY <1>3, <1>4, <1>5, <1>10, <1>11, StartedAllSucceeds
<1>13. \A q \in S : q[1] # r[1]
  BY <1>11, <1>12
<1> HIDE DEF R
<1>14. d3.inst = d2.inst
  BY <1>3, <1>4, <1>5, UpdateParentRecordKeeps DEF Sound
<1>15. \A q \in Refs : /\ d4.inst[q].createdAt = d3.inst[q].createdAt
                       /\ Running(d4, q) => Running(d3, q)
                       /\ d4.inst[q].status # "absent" => d3.inst[q].status # "absent"
  BY <1>4, <1>5, ClosedIsAsOld, ClosePolicyCancels DEF Running
<1>16. \A q \in S : NoneRuns(db, q[1])
  BY <1>7, <1>12, <1>13 DEF Succeeded, NoneRuns, Running
<1>17. Succeeded(db, db', S)
  BY <1>5, <1>9, <1>12, <1>14, <1>15, <1>16 DEF Succeeded, Running
<1> QED
  BY <1>17

LEMMA ClientsSucceed ==
    ASSUME TypeOK, StartsOrSignals, OnlyYoungestRun(db), NobodyStartsAlways
    PROVE  \E S : Succeeded(db, db', S)
<1>1. db \in Tables /\ Instants \subseteq Nat
  BY InstantsType DEF TypeOK
<1>2. ASSUME NEW d \in Tables, NEW r \in Refs, NEW type \in SignalTypes,
             NEW key \in Keys \cup {NoKey}, NEW now \in Nat
      PROVE  AppendSignal(d, r, type, key, now).inst = d.inst
  BY SignalArrives DEF SignalAdded
<1>3. ASSUME NEW r \in Refs, NEW version \in Versions, NEW policy \in ReusePolicies, policy # "always", NEW now \in Nat,
             \A q \in Latest(db, r[1]) : ShouldCreate(policy, db.inst[q].status), NEW e,
             e = CreateInstance(db, r, version, Materialize(InitialWaits[r[1]], now, now), now)
      PROVE  e \in Tables /\ Succeeded(db, e, {r})
  <2>1. r[1] \in Ids /\ YoungestRuns(db, r[1])
    BY DEF Refs, OnlyYoungestRun
  <2>2. NoneRuns(db, r[1])
    BY <1>1, <1>3, <2>1, NoneRunsWherePolicyCreates
  <2>3. Begun(db, e, r)
    BY <1>1, <1>3, StartArrives
  <2> QED
    BY <2>2, <2>3 DEF Begun, Succeeded, Running
<1>4. ASSUME NEW now \in Instants, NEW in \in ClientStarts, StartWorkflow(in, now) PROVE \E S : Succeeded(db, db', S)
  <2>1. in.ref \in Refs /\ in.version \in Versions /\ in.reuse \in ReusePolicies /\ in.reuse # "always" /\ in.reuse # NoPolicy
    BY InputAssumption DEF NobodyStartsAlways
  <2>2. /\ db' = CreateInstance(db, in.ref, in.version, Materialize(InitialWaits[in.ref[1]], now, now), now)
        /\ \A q \in Latest(db, in.ref[1]) : ShouldCreate(in.reuse, db.inst[q].status)
    BY <1>4, <2>1 DEF StartWorkflow
  <2>3. Succeeded(db, db', {in.ref})
    BY <1>1, <1>3, <2>1, <2>2
  <2> QED
    BY <2>3
<1>5. ASSUME NEW now \in Instants, NEW in \in Appends, Signals(in, now) PROVE \E S : Succeeded(db, db', S)
  <2>1. in.ref \in Refs /\ in.type \in SignalTypes /\ in.key \in Keys \cup {NoKey}
    BY InputAssumption
  <2>2. db'.inst = db.inst
    BY <1>1, <1>2, <1>5, <2>1 DEF Signals
  <2> QED
    BY <2>2, SameRunsSucceed
<1>6. ASSUME NEW now \in Instants, NEW in \in SendStarts, StartSendSignal(in, now) PROVE \E S : Succeeded(db, db', S)
  <2>1. /\ in.ref \in Refs /\ in.version \in Versions /\ in.reuse \in ReusePolicies /\ in.reuse # "always"
        /\ in.type \in SignalTypes /\ in.key \in Keys \cup {NoKey}
    BY InputAssumption DEF NobodyStartsAlways
  <2>2. CASE SendToTarget(in, now)
    <3>1. db'.inst = db.inst
      BY <1>1, <1>2, <2>1, <2>2 DEF SendToTarget
    <3> QED
      BY <3>1, SameRunsSucceed
  <2>3. CASE SendToRunning(in, now)
    <3>1. db'.inst = db.inst
      BY <1>1, <1>2, <2>1, <2>3 DEF SendToRunning, LatestRunning, LastOf, RunsOf
    <3> QED
      BY <3>1, SameRunsSucceed
  <2>4. CASE SendAndStart(in, now)
    <3> DEFINE e == CreateInstance(db, in.ref, in.version, Materialize(InitialWaits[in.ref[1]], now, now), now)
    <3>1. /\ db' = AppendSignal(e, in.ref, in.type, in.key, now)
          /\ \A q \in Latest(db, in.ref[1]) : ShouldCreate(in.reuse, db.inst[q].status)
      BY <2>4 DEF SendAndStart
    <3>2. e \in Tables /\ Succeeded(db, e, {in.ref})
      BY <1>1, <1>3, <2>1, <3>1
    <3> HIDE DEF e
    <3>3. db'.inst = e.inst
      BY <1>1, <1>2, <2>1, <3>1, <3>2
    <3>4. Succeeded(db, db', {in.ref})
      BY <3>2, <3>3 DEF Succeeded, Running
    <3> QED
      BY <3>4
  <2> QED
    BY <1>6, <2>2, <2>3, <2>4 DEF StartSendSignal
<1> QED
  BY <1>4, <1>5, <1>6 DEF StartsOrSignals

LEMMA YoungestStep ==
    ASSUME BaseInv, HeldSuccessors, OnlyYoungestRun(db), [Next]_vars, [RunsBeginInOrder]_vars, NobodyStartsAlways
    PROVE  OnlyYoungestRun(db')
<1>1. Inv /\ HeldStarts /\ TypeOK /\ db \in Tables
  BY DEF BaseInv, WorkInv, Inv, TypeOK
<1>2. CASE UNCHANGED vars
  BY <1>2 DEF vars, OnlyYoungestRun, YoungestRuns, Running
<1>3. CASE RunsBeginInOrder
  <2>1. \E S : Succeeded(db, db', S)
    <3>1. CASE QuietStep
      BY <3>1, SameRunsSucceed DEF QuietStep, QuietlyKeeps, Quiet
    <3>2. CASE StartsOrSignals
      BY <1>1, <3>2, ClientsSucceed
    <3>3. CASE Commits
      BY <1>1, <3>3, CommitSucceeds
    <3>4. CASE Creates
      <4>1. PICK c \in held, now \in Instants : \E start \in At(EagerStarts, c) : CreateChild(c, start, now)
        BY <3>4 DEF Creates
      <4>2. PICK start \in At(EagerStarts, c) : CreateChild(c, start, now)
        BY <4>1
      <4> DEFINE eager == [start EXCEPT !.at = now, !.conflict = "fail"]
      <4>3. c \in Claim /\ now \in Nat /\ start \in ChildStart /\ start.reuse # "always"
        BY <1>1, InstantsType, InputAssumption DEF TypeOK, At, NobodyStartsAlways
      <4>4. /\ eager \in ChildStart /\ eager.ref = start.ref /\ eager.conflict = "fail"
            /\ eager.reuse = start.reuse
        BY <4>3 DEF ChildStart, ConflictPolicies
      <4>5. db' = Started(db, c, eager, now) /\ (KeptRun(db, start) = {} => db.inst[start.ref].status = "absent")
        BY <4>2 DEF CreateChild
      <4> HIDE DEF eager
      <4>6. Accepted(db, eager)
        BY <4>4, <4>5 DEF KeptRun, Accepted
      <4>7. YoungestRuns(db, eager.ref[1])
        BY <4>4 DEF OnlyYoungestRun, ChildStart, Refs
      <4>8. \E S \in SUBSET {eager.ref} : Succeeded(db, Started(db, c, eager, now), S)
        BY <1>1, <4>3, <4>4, <4>6, <4>7, StartedSucceeds
      <4> QED
        BY <4>5, <4>8
    <3>5. CASE Cancels
      <4>1. PICK c \in held, now \in Instants, r \in Refs : CancelChild(c, r, now)
        BY <3>5 DEF Cancels
      <4>2. c.act.ref \in Refs /\ now \in Nat
        BY <1>1, InstantsType, ClaimFields DEF TypeOK
      <4>3. db' = CancelChildRun(db, c.act.ref, r, now)
        BY <4>1 DEF CancelChild
      <4>4. \A q \in Refs : db'.inst[q].createdAt = db.inst[q].createdAt
        BY <1>1, <4>2, <4>3, CanceledIsAsOld
      <4>5. \A q \in Refs : db'.inst[q] = db.inst[q] \/ (db'.inst[q].status = "canceled" /\ Running(db, q))
        <5>1. Halts
          BY <1>1, <3>5, CancelsHalts
        <5> QED
          BY <5>1 DEF Halts, Halted
      <4>6. Succeeded(db, db', {})
        BY <4>4, <4>5 DEF Succeeded, Running
      <4> QED
        BY <4>6
    <3> QED
      BY <1>1, <3>1, <3>2, <3>3, <3>4, <3>5, StepKinds
  <2>2. PICK S : Succeeded(db, db', S)
    BY <2>1
  <2> QED
    BY <1>3, <2>2, InOrderStaysYoungest
<1> QED
  BY <1>2, <1>3

\* No two runs of one id are running: not when clients start them through either call, not when
\* handlers do, at once or with a checkpoint that comes later than their decision, as long as the
\* runs of an id begin in order and nobody asks for another run in any case
\* (create_instance, start_send_signal, write_child_start, should_create_workflow_run).
THEOREM OneRunningRun ==
    ASSUME RuntimeStarts, NoSelfStart, NobodyStartsAlways
    PROVE  Spec /\ [][RunsBeginInOrder]_vars => []OneRunningRunPerId
<1> DEFINE Youngest == HeldSuccessors /\ OnlyYoungestRun(db)
<1>1. Init => Youngest
  BY DEF Init, EmptyTables, NoInstance, HeldSuccessors, OnlyYoungestRun, YoungestRuns, Running
<1>2. BaseInv /\ Youngest /\ [Next]_vars /\ [RunsBeginInOrder]_vars => Youngest'
  <2>1. ASSUME BaseInv, Youngest, [Next]_vars, [RunsBeginInOrder]_vars PROVE Youngest'
    BY <2>1, YoungestStep, HeldSuccessorsStep DEF BaseInv, WorkInv
  <2> QED
    BY <2>1
<1>3. BaseInv /\ Youngest => OneRunningRunPerId
  <2> SUFFICES ASSUME BaseInv, Youngest, NEW r \in Refs, NEW q \in Refs, r[1] = q[1], Running(db, r), Running(db, q), r # q
               PROVE  FALSE
    BY DEF OneRunningRunPerId
  <2>1. r[1] \in Ids /\ db.inst[r].createdAt \in Nat /\ db.inst[q].createdAt \in Nat
    BY InstanceFields DEF BaseInv, WorkInv, Inv, TypeOK, Instance, Refs
  <2>2. db.inst[q].createdAt < db.inst[r].createdAt /\ db.inst[r].createdAt < db.inst[q].createdAt
    BY <2>1 DEF OnlyYoungestRun, YoungestRuns, Running
  <2> QED
    BY <2>1, <2>2
<1> HIDE DEF Youngest
<1> QED
  BY <1>1, <1>2, <1>3, BaseHolds, PTL DEF Spec
===============================================================================
