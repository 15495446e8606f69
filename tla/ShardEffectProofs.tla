--------------------------- MODULE ShardEffectProofs --------------------------
(***************************************************************************)
(* The ledger of activities: an effect completes only by the attempt that  *)
(* is recorded in it, and once it has completed it stays until its         *)
(* activation commits.                                                     *)
(***************************************************************************)
EXTENDS ShardRunProofs

-------------------------------------------------------------------------------
(* What the operators on the tables make of the ledger. *)

\* No effect has completed that had not, and the effects that have completed are those there were.
NoneCompletes(d, e) == \A f \in e.effects : f.status = "completed" => f \in d.effects
CompletedStay(d, e) == \A f \in d.effects : f.status = "completed" => f \in e.effects

\* Only effects of runs that are not there are forgotten.
ForgetsAbsent(d, e) ==
    /\ e.effects \subseteq d.effects
    /\ \A f \in d.effects : f \in e.effects \/ d.inst[f.act.ref].status = "absent"

EffectsBut(d, r) == {f \in d.effects : f.act.ref # r}

LEMMA NewInstanceEffects ==
    ASSUME NEW d \in Tables, NEW r \in Refs, NEW version \in Nat, NEW waits \in SUBSET Wait,
           NEW parent \in Nat, NEW now \in Nat
    PROVE  NewInstance(d, r, version, waits, parent, now).effects = EffectsBut(d, r)
  BY DEF NewInstance, Tables, EffectsBut

LEMMA CreateInstanceEffects ==
    ASSUME NEW d \in Tables, NEW r \in Refs, NEW version \in Nat, NEW waits \in SUBSET Wait, NEW now \in Nat
    PROVE  CreateInstance(d, r, version, waits, now).effects = EffectsBut(d, r)
<1> DEFINE e == NewInstance(d, r, version, waits, 0, now)
<1>1. e \in Tables /\ e.effects = EffectsBut(d, r)
  <2>1. e \in Tables
    BY NewInstanceSafe DEF Safe
  <2>2. e.effects = EffectsBut(d, r)
    BY NewInstanceEffects
  <2> HIDE DEF e
  <2> QED
    BY <2>1, <2>2
<1>2. CreateInstance(d, r, version, waits, now) = ReplaceTasks(e, r)
  BY DEF CreateInstance
<1> HIDE DEF e
<1>3. ReplaceTasks(e, r).effects = e.effects
  BY <1>1, ReplaceTasksFields
<1> QED
  BY <1>1, <1>2, <1>3

LEMMA AppendSignalEffects ==
    ASSUME NEW d \in Tables, NEW r \in Refs, NEW type \in SignalTypes,
           NEW key \in Keys \cup {NoKey}, NEW now \in Nat
    PROVE  AppendSignal(d, r, type, key, now).effects = d.effects
<1> DEFINE s  == [id |-> d.signalCounter + 1, ref |-> r, type |-> type, key |-> key,
                  at |-> now, consumed |-> 0]
           d1 == [d EXCEPT !.signalCounter = d.signalCounter + 1, !.signals = d.signals \cup {s}]
<1>1. s \in Signal /\ d.signalCounter + 1 \in Nat
  BY DEF Signal, Tables
<1> HIDE DEF s
<1>2. d1 \in Tables /\ d1.effects = d.effects
  BY <1>1 DEF Tables
<1>3. AppendSignal(d, r, type, key, now) \in {d, d1, RefreshTasks(d1, r, "signal")}
  BY DEF AppendSignal, s
<1> HIDE DEF d1
<1>4. RefreshTasks(d1, r, "signal").effects = d1.effects
  BY <1>2, RefreshTasksFields
<1>5. d1.effects = d.effects /\ RefreshTasks(d1, r, "signal").effects = d.effects
  BY <1>2, <1>4
<1> QED
  BY <1>3, <1>5

LEMMA StartChildEffects ==
    ASSUME NEW d \in Tables, NEW a \in Activation, NEW start \in ChildStart,
           NEW version \in Nat, NEW waits \in SUBSET Wait, NEW now \in Nat
    PROVE  StartChild(d, a, start, version, waits, now).effects = EffectsBut(d, start.ref)
<1> DEFINE id == d.childCounter + 1
           d1 == NewInstance(d, start.ref, version, waits, id, now)
           d2 == WithRecord(d1, a, start, start.ref)
<1>1. start.ref \in Refs /\ id \in Nat
  BY DEF ChildStart, Tables
<1>2. StartChild(d, a, start, version, waits, now) = ReplaceTasks(d2, start.ref)
  BY DEF StartChild
<1> HIDE DEF id
<1>3. d1 \in Tables /\ d1.effects = EffectsBut(d, start.ref)
  <2>1. d1 \in Tables
    BY <1>1, NewInstanceSafe DEF Safe
  <2>2. d1.effects = EffectsBut(d, start.ref)
    BY <1>1, NewInstanceEffects
  <2> HIDE DEF d1
  <2> QED
    BY <2>1, <2>2
<1> HIDE DEF d1
<1>4. d2 \in Tables /\ d2.effects = d1.effects
  <2>1. d2.effects = d1.effects
    BY <1>3 DEF WithRecord, Tables
  <2> QED
    BY <1>1, <1>3, <2>1, WithRecordKeeps
<1> HIDE DEF d2
<1>5. ReplaceTasks(d2, start.ref).effects = d2.effects
  BY <1>1, <1>4, ReplaceTasksFields
<1> QED
  BY <1>2, <1>3, <1>4, <1>5

\* A start that is accepted forgets nothing of a run that is there.
LEMMA StartedEffects ==
    ASSUME NEW d \in Tables, NEW c \in Claim, NEW start \in ChildStart, NEW now \in Nat
    PROVE  LET e == Started(d, c, start, now)
           IN  e.effects \subseteq d.effects /\ (Accepted(d, start) => ForgetsAbsent(d, e))
<1> DEFINE waits   == Materialize(InitialWaits[start.ref[1]], start.at, start.at)
           version == VersionOf[c.worker]
           r       == CHOOSE k \in KeptRun(d, start) : TRUE
           d1      == IF start.conflict = "terminate_existing" THEN DeleteInstance(d, start.ref) ELSE d
           e       == Started(d, c, start, now)
<1>1. /\ start.ref \in Refs /\ start.at \in Nat /\ c.act \in Activation /\ version \in Nat
  BY VersionOfType, ClaimFields DEF ChildStart
<1>2. waits \in SUBSET Wait
  BY <1>1, InitialWaitsType
<1>3. e = IF KeptRun(d, start) # {} THEN WithRecord(d, c.act, start, r)
          ELSE StartChild(d1, c.act, start, version, waits, now)
  BY DEF Started, WriteChildStart
<1>4. WithRecord(d, c.act, start, r).effects = d.effects
  BY DEF WithRecord, Tables
<1>5. d1 \in Tables /\ d1.effects \subseteq d.effects /\ (Accepted(d, start) => d1 = d)
  <2>1. DeleteInstance(d, start.ref) \in Tables
    BY <1>1, DeleteInstanceSafe DEF Safe
  <2>2. DeleteInstance(d, start.ref).effects \subseteq d.effects
    <3> DEFINE f == DeleteTasks(d, TasksOf(d, start.ref))
    <3>1. f \in Tables /\ f.effects = d.effects
      BY DeleteTasksFields
    <3>2. DeleteInstance(d, start.ref).effects = {x \in f.effects : x.act.ref # start.ref}
      <4> HIDE DEF f
      <4>1. DeleteInstance(d, start.ref) =
              [f EXCEPT !.inst[start.ref] = NoInstance, !.signals = {s \in @ : s.ref # start.ref},
                        !.children = {x \in @ : x.parent # start.ref /\ x.ref # start.ref},
                        !.effects = {x \in @ : x.act.ref # start.ref}]
        BY DEF DeleteInstance, f
      <4> QED
        BY <3>1, <4>1 DEF Tables
    <3> HIDE DEF f
    <3> QED
      BY <3>1, <3>2
  <2> QED
    BY <2>1, <2>2 DEF Accepted
<1> HIDE DEF d1, waits, version, r, e
<1>6. StartChild(d1, c.act, start, version, waits, now).effects = EffectsBut(d1, start.ref)
  BY <1>1, <1>2, <1>5, StartChildEffects
<1>7. ASSUME Accepted(d, start) PROVE ForgetsAbsent(d, e)
  <2>1. KeptRun(d, start) # {} \/ d.inst[start.ref].status = "absent"
    BY <1>7 DEF Accepted
  <2>2. d1 = d
    BY <1>5, <1>7
  <2>3. e.effects = d.effects \/
        (d.inst[start.ref].status = "absent" /\ e.effects = EffectsBut(d, start.ref))
    BY <1>3, <1>4, <1>6, <2>1, <2>2
  <2> QED
    BY <2>3 DEF ForgetsAbsent, EffectsBut
<1>8. e.effects \subseteq d.effects
  BY <1>3, <1>4, <1>5, <1>6 DEF EffectsBut
<1> QED
  BY <1>7, <1>8 DEF e

LEMMA StartedAllEffects ==
    ASSUME NEW d \in Tables, NEW c \in Claim, NEW starts \in Seq(ChildStart), Len(starts) <= 2, NEW now \in Nat
    PROVE  LET e == StartedAll(d, c, starts, now)
           IN  /\ e.effects \subseteq d.effects
               /\ Distinct(starts) /\ (\A k \in DOMAIN starts : Accepted(d, starts[k])) => ForgetsAbsent(d, e)
<1> DEFINE g == StartedAll(d, c, starts, now)
           Agreed == Distinct(starts) /\ \A k \in DOMAIN starts : Accepted(d, starts[k])
<1>1. /\ Len(starts) \in Nat /\ DOMAIN starts = 1..Len(starts)
      /\ \A i \in 1..Len(starts) : starts[i] \in ChildStart
  OBVIOUS
<1> SUFFICES g.effects \subseteq d.effects /\ (Agreed => ForgetsAbsent(d, g))
  OBVIOUS
<1>2. CASE Len(starts) = 0
  <2>1. g = d
    BY <1>2 DEF StartedAll
  <2> HIDE DEF g
  <2> QED
    BY <2>1 DEF ForgetsAbsent
<1>3. CASE Len(starts) = 1
  <2>1. g = Started(d, c, starts[1], now) /\ starts[1] \in ChildStart /\ (Agreed => Accepted(d, starts[1]))
    BY <1>1, <1>3 DEF StartedAll
  <2> HIDE DEF g, Agreed
  <2> QED
    BY <2>1, StartedEffects
<1>4. CASE Len(starts) = 2
  <2> DEFINE e == Started(d, c, starts[1], now)
             f == Started(e, c, starts[2], now)
  <2>1. /\ g = f /\ starts[1] \in ChildStart /\ starts[2] \in ChildStart
        /\ Agreed => Accepted(d, starts[1]) /\ Accepted(d, starts[2]) /\ starts[1].ref # starts[2].ref
    <3>1. DOMAIN starts = {1, 2}
      BY <1>4, <1>1
    <3> QED
      BY <1>4, <1>1, <3>1 DEF StartedAll, Distinct
  <2> HIDE DEF g, Agreed
  <2>2. e \in Tables /\ e.effects \subseteq d.effects /\ (Accepted(d, starts[1]) => ForgetsAbsent(d, e))
    BY <2>1, StartedEffects, StartedSafe DEF Safe
  <2>3. Accepted(d, starts[1]) => StartsRuns(d, e, {starts[1].ref})
    BY <2>1, StartedKeeps
  <2> HIDE DEF e
  <2>4. f.effects \subseteq e.effects /\ (Accepted(e, starts[2]) => ForgetsAbsent(e, f))
    BY <2>1, <2>2, StartedEffects
  <2> HIDE DEF f
  <2>5. ASSUME Agreed PROVE ForgetsAbsent(d, f)
    <3>1. starts[1].ref \in Refs /\ StartsRuns(d, e, {starts[1].ref})
      BY <2>1, <2>3, <2>5 DEF ChildStart
    <3>2. Accepted(e, starts[2])
      BY <2>1, <2>2, <2>5, <3>1, AcceptedAfterStart
    <3>3. ForgetsAbsent(d, e) /\ ForgetsAbsent(e, f)
      BY <2>1, <2>2, <2>4, <2>5, <3>2
    <3>4. \A x \in d.effects : x.act.ref \in Refs
      BY DEF Tables, EffectRecord, Activation
    <3>5. \A q \in Refs : e.inst[q].status = "absent" => d.inst[q].status = "absent"
      BY <3>1 DEF StartsRuns
    <3> QED
      BY <3>3, <3>4, <3>5 DEF ForgetsAbsent
  <2> QED
    BY <2>1, <2>2, <2>4, <2>5
<1>5. \A n \in Nat : n <= 2 => n = 0 \/ n = 1 \/ n = 2
  OBVIOUS
<1> QED
  BY <1>1, <1>2, <1>3, <1>4, <1>5

LEMMA UpdateParentRecordEffects ==
    ASSUME NEW d \in Tables, NEW previous \in Instance, NEW next, NEW now \in Nat
    PROVE  UpdateParentRecord(d, previous, next, now).effects = d.effects
<1> DEFINE mine == {c \in d.children : c.id = previous.parent}
           outcome == IF next = "completed" THEN "completed" ELSE "failed"
           closed(c) == IF c \in mine /\ c.status = "started" THEN [c EXCEPT !.status = outcome, !.completedAt = now] ELSE c
           C  == {closed(c) : c \in d.children}
           d1 == [d EXCEPT !.children = C]
           p  == (CHOOSE c \in mine : TRUE).parent
<1>1. UpdateParentRecord(d, previous, next, now) = IF next = "running" \/ mine = {} THEN d ELSE RefreshTasks(d1, p, "child")
  BY DEF UpdateParentRecord
<1>2. C \in SUBSET Child
  <2>1. d.children \in SUBSET Child
    BY DEF Tables
  <2>2. \A c \in d.children : closed(c) \in Child
    BY <2>1 DEF Child
  <2> HIDE DEF closed
  <2> QED
    BY <2>2
<1> HIDE DEF C
<1>3. d1 \in Tables /\ d1.effects = d.effects
  BY <1>2 DEF Tables
<1> HIDE DEF d1
<1>4. mine # {} => p \in Refs
  BY DEF Tables, Child
<1> HIDE DEF p, mine
<1>5. mine # {} => RefreshTasks(d1, p, "child").effects = d1.effects
  BY <1>3, <1>4, RefreshTasksFields
<1> QED
  BY <1>1, <1>3, <1>5

LEMMA ApplyClosePolicyEffects ==
    ASSUME NEW d \in Tables, NEW r, NEW next, NEW seq \in Nat, NEW now \in Nat
    PROVE  ApplyClosePolicy(d, r, next, seq, now).effects = d.effects
<1> DEFINE hit    == ClosedWith(d, r)
           killed == {c.ref : c \in {x \in hit : x.policy = "cancel" /\ Running(d, x.ref)}}
           close(c) == IF c.policy = "abandon" THEN [c EXCEPT !.status = "abandoned", !.delivered = seq]
                       ELSE [c EXCEPT !.status = "failed", !.completedAt = now, !.delivered = seq]
           C  == {IF c \in hit THEN close(c) ELSE c : c \in d.children}
           I  == [q \in Refs |-> IF q \in killed
                                 THEN [d.inst[q] EXCEPT !.status = "canceled", !.waits = {}, !.updatedAt = now]
                                 ELSE d.inst[q]]
           d1 == DeleteTasks(d, {t \in d.tasks : t.act.ref \in killed})
<1>1. d1 \in Tables /\ d1.effects = d.effects /\ d1.children = d.children
  BY DeleteTasksFields
<1>2. ApplyClosePolicy(d, r, next, seq, now) =
        IF next \notin {"failed", "canceled"} THEN d ELSE [d1 EXCEPT !.children = C, !.inst = I]
  BY <1>1 DEF ApplyClosePolicy
<1> HIDE DEF d1, C, I
<1>3. [d1 EXCEPT !.children = C, !.inst = I].effects = d.effects
  BY <1>1 DEF Tables
<1> QED
  BY <1>2, <1>3

LEMMA CancelChildRunEffects ==
    ASSUME NEW d \in Tables, NEW p \in Refs, NEW r \in Refs, NEW now \in Nat
    PROVE  CancelChildRun(d, p, r, now).effects = d.effects
<1> DEFINE started == {x \in d.children : x.parent = p /\ x.ref = r /\ x.status = "started"}
           first   == {x \in started : \A y \in started : x.id <= y.id}
           i       == [d.inst[r] EXCEPT !.status = "canceled", !.waits = {}, !.updatedAt = now]
           closed  == [d EXCEPT !.inst[r] = i]
           del     == DeleteTasks(closed, TasksOf(d, r))
           d1      == IF Running(d, r) THEN del ELSE d
           shut(x) == IF x \in first THEN [x EXCEPT !.status = "failed", !.completedAt = now] ELSE x
           C       == {shut(x) : x \in d1.children}
           d2      == [d1 EXCEPT !.children = C]
           f       == RefreshTasks(d2, p, "child")
<1>1. CancelChildRun(d, p, r, now) \in {d, f, d2}
  BY DEF CancelChildRun
<1>2. d1 \in Tables /\ d1.effects = d.effects
  <2>1. d.inst[r] \in Instance
    BY InstanceFields
  <2>2. i \in Instance
    BY <2>1 DEF Instance, Closed
  <2> HIDE DEF i
  <2>3. closed \in Tables /\ closed.effects = d.effects
    BY <2>2 DEF Tables
  <2> HIDE DEF closed
  <2>4. del \in Tables /\ del.effects = d.effects
    BY <2>3, DeleteTasksFields
  <2> HIDE DEF del
  <2> QED
    BY <2>4
<1> HIDE DEF d1
<1>3. C \in SUBSET Child
  <2>1. d1.children \in SUBSET Child
    BY <1>2 DEF Tables
  <2>2. \A x \in d1.children : shut(x) \in Child
    BY <2>1 DEF Child
  <2> HIDE DEF shut
  <2> QED
    BY <2>2
<1> HIDE DEF C
<1>4. d2 \in Tables /\ d2.effects = d.effects
  BY <1>2, <1>3 DEF Tables
<1> HIDE DEF d2
<1>5. f.effects = d2.effects
  BY <1>4, RefreshTasksFields
<1> HIDE DEF f
<1> QED
  BY <1>1, <1>4, <1>5

-------------------------------------------------------------------------------
(* What the calls of a handler and its activities make of the ledger. *)

\* The effects that have completed are as they were, and there is none of an activation that had
\* none unless its run is there.
Works(d, e) ==
    /\ NoneCompletes(d, e) /\ CompletedStay(d, e)
    /\ \A f \in e.effects : (\E x \in d.effects : f.act = x.act) \/ d.inst[f.act.ref].status # "absent"

LEMMA WorksSame == ASSUME NEW d, NEW e, e.effects = d.effects PROVE Works(d, e)
  BY DEF Works, NoneCompletes, CompletedStay

LEMMA WorksTransitive ==
    ASSUME NEW d, NEW e, NEW f, Works(d, e), Works(e, f), e.inst = d.inst
    PROVE  Works(d, f)
  BY DEF Works, NoneCompletes, CompletedStay

LEMMA AfterFailureFields ==
    ASSUME NEW e \in EffectRecord, NEW now \in Nat, NEW retryable, e.status = "pending"
    PROVE  LET f == AfterFailure(e, now, retryable)
           IN  f.act = e.act /\ f.key = e.key /\ f.token = NoToken /\ f.status # "completed"
<1>1. CASE RetryGranted(e, now, retryable)
  BY <1>1 DEF AfterFailure, Detached, EffectRecord
<1>2. CASE ~ RetryGranted(e, now, retryable)
  BY <1>2 DEF AfterFailure, Detached, EffectRecord
<1> QED
  BY <1>1, <1>2

\* An effect whose attempt is late loses this attempt; the others stay as they are.
LEMMA ExpireTimeoutsEffects ==
    ASSUME NEW d \in Tables, NEW A, NEW now \in Nat
    PROVE  LET e == ExpireTimeouts(d, A, now)
           IN  /\ Works(d, e) /\ e \in Tables /\ e.inst = d.inst
               /\ \A f \in e.effects : f \in d.effects \/ f.token = NoToken
<1> DEFINE late == {e \in d.effects : e.act \in A /\ Late(e, now)}
           last(a) == {e \in late : e.act = a /\ \A o \in late : o.act = a => o.key <= e.key}
           freed == {t \in d.tasks : \E e \in late : e.act = t.act}
           blocked == [t \in freed |-> IF last(t.act) = {} THEN 0
                                       ELSE BlockedAfter(CHOOSE e \in last(t.act) : TRUE, now, TRUE)]
           after(e) == IF e \in late THEN AfterFailure(e, now, TRUE) ELSE e
           d1 == Freed(d, freed, blocked)
           E  == {after(e) : e \in d1.effects}
           e  == ExpireTimeouts(d, A, now)
<1>1. e = [d1 EXCEPT !.effects = E]
  BY DEF ExpireTimeouts
<1>2. e \in Tables /\ e.inst = d.inst
  BY ExpireTimeoutsSafe, ExpireTimeoutsQuiet DEF Safe, QuietlyKeeps, Quiet
<1>3. d1.effects = d.effects
  BY DEF Freed, Tables
<1>4. "effects" \in DOMAIN d1
  BY DEF Freed, Tables
<1> HIDE DEF blocked, freed, d1
<1>5. \A x \in d.effects : IF x \in late THEN x.status = "pending" /\ x \in EffectRecord ELSE after(x) = x
  BY DEF Late, Tables
<1> HIDE DEF late
<1>6. \A x \in d.effects : after(x) = x \/ (after(x).act = x.act /\ after(x).token = NoToken
                                            /\ after(x).status # "completed" /\ x.status # "completed")
  BY <1>5, AfterFailureFields
<1> HIDE DEF after
<1>7. e.effects = E
  <2> HIDE DEF e, E
  <2> QED
    BY <1>1, <1>4
<1> HIDE DEF e
<1> QED
  BY <1>2, <1>3, <1>6, <1>7 DEF Works, NoneCompletes, CompletedStay, e

LEMMA ReserveWorks ==
    ASSUME NEW d \in Tables, NEW a, NEW key, NEW token, NEW now,
           \A x \in EffectFor(d, a, key) : x.status = "pending", d.inst[a.ref].status # "absent"
    PROVE  Works(d, Reserve(d, a, key, token, now))
<1> DEFINE old == EffectFor(d, a, key)
           attempt == IF old = {} THEN 1 ELSE (CHOOSE e \in old : TRUE).attempt
           first   == IF old = {} THEN now ELSE (CHOOSE e \in old : TRUE).first
           f == [act |-> a, key |-> key, status |-> "pending", attempt |-> attempt, token |-> token,
                 begun |-> now, start |-> Deadline(now, Effect[key].start),
                 hb |-> Deadline(now, Effect[key].hb), first |-> first, next |-> 0]
           e == Reserve(d, a, key, token, now)
<1>1. e = [d EXCEPT !.effects = (d.effects \ old) \cup {f}]
  BY DEF Reserve
<1>2. f.status = "pending" /\ f.act = a
  OBVIOUS
<1> HIDE DEF e, f, old
<1>3. e.effects = (d.effects \ old) \cup {f}
  BY <1>1 DEF Tables
<1>4. \A x \in old : x.status # "completed"
  BY DEF old
<1>5. d.inst[f.act.ref].status # "absent" /\ f.status # "completed"
  BY <1>2
<1>6. NoneCompletes(d, e) /\ CompletedStay(d, e)
  BY <1>3, <1>4, <1>5 DEF NoneCompletes, CompletedStay
<1>7. Works(d, e)
  BY <1>3, <1>5, <1>6 DEF Works
<1> QED
  BY <1>7 DEF e

LEMMA BeatWorks ==
    ASSUME NEW d \in Tables, NEW f \in d.effects, NEW now, f.status = "pending"
    PROVE  Works(d, Beat(d, f, now))
<1> DEFINE g == [f EXCEPT !.hb = Deadline(now, Effect[f.key].hb)]
           e == Beat(d, f, now)
<1>1. f \in EffectRecord
  BY DEF Tables
<1>2. g.act = f.act /\ g.status # "completed" /\ \A x \in {f} : x.status # "completed"
  BY <1>1 DEF EffectRecord
<1>3. e = [d EXCEPT !.effects = (d.effects \ {f}) \cup {g}]
  BY DEF Beat
<1> HIDE DEF e, g
<1>4. e.effects = (d.effects \ {f}) \cup {g}
  BY <1>3 DEF Tables
<1>5. Works(d, e)
  BY <1>2, <1>4 DEF Works, NoneCompletes, CompletedStay
<1> QED
  BY <1>5 DEF e

LEMMA FailWorks ==
    ASSUME NEW d \in Tables, NEW f \in d.effects, NEW now \in Nat, NEW retryable, f.status = "pending"
    PROVE  Works(d, Fail(d, f, now, retryable))
<1> DEFINE g  == AfterFailure(f, now, retryable)
           d1 == [d EXCEPT !.effects = (d.effects \ {f}) \cup {g}]
           T  == TasksOfActivation(d1, f.act)
           e  == Fail(d, f, now, retryable)
<1>1. f \in EffectRecord
  BY DEF Tables
<1>2. g.act = f.act /\ g.status # "completed"
  BY <1>1, AfterFailureFields
<1>3. e = Freed(d1, T, [t \in T |-> BlockedAfter(f, now, retryable)])
  BY DEF Fail
<1> HIDE DEF e, g
<1>4. e.effects = (d.effects \ {f}) \cup {g}
  BY <1>3 DEF Freed, Tables
<1>5. Works(d, e)
  BY <1>2, <1>4 DEF Works, NoneCompletes, CompletedStay
<1> QED
  BY <1>5 DEF e

\* The failures of checkpoint activities take the place of effects of the same activities.
LEMMA RecordFailuresEffects ==
    ASSUME NEW d \in Tables, NEW a, NEW keys, NEW release
    PROVE  RecordFailures(d, a, keys, release).effects =
               {f \in d.effects : ~ (f.act = a /\ f.key \in keys)} \cup FailureRecords(a, keys)
<1> DEFINE L  == {f \in d.effects : ~ (f.act = a /\ f.key \in keys)} \cup FailureRecords(a, keys)
           d1 == [d EXCEPT !.effects = L]
           T  == TasksOfActivation(d1, a)
           e  == RecordFailures(d, a, keys, release)
<1>1. e = IF release THEN Freed(d1, T, [t \in T |-> 0]) ELSE d1
  BY DEF RecordFailures
<1> HIDE DEF e, L
<1>2. e.effects = L
  BY <1>1 DEF Freed, Tables
<1> QED
  BY <1>2 DEF e, L

LEMMA RecordFailuresCompletes ==
    ASSUME NEW d \in Tables, NEW a, NEW keys, NEW release
    PROVE  NoneCompletes(d, RecordFailures(d, a, keys, release))
<1> DEFINE e == RecordFailures(d, a, keys, release)
<1>1. \A f \in FailureRecords(a, keys) : f.status = "failed"
  BY DEF FailureRecords, FailureRecord
<1>2. e.effects = {f \in d.effects : ~ (f.act = a /\ f.key \in keys)} \cup FailureRecords(a, keys)
  BY RecordFailuresEffects
<1> HIDE DEF e
<1>3. NoneCompletes(d, e)
  BY <1>1, <1>2 DEF NoneCompletes
<1> QED
  BY <1>3 DEF e

LEMMA RecordFailuresWorks ==
    ASSUME NEW d \in Tables, NEW a, NEW keys, NEW release, d.inst[a.ref].status # "absent",
           \A f \in d.effects : f.status = "completed" => f.key \notin keys
    PROVE  Works(d, RecordFailures(d, a, keys, release))
<1> DEFINE e == RecordFailures(d, a, keys, release)
<1>1. \A f \in FailureRecords(a, keys) : f.act = a
  BY DEF FailureRecords, FailureRecord
<1>2. e.effects = {f \in d.effects : ~ (f.act = a /\ f.key \in keys)} \cup FailureRecords(a, keys)
  BY RecordFailuresEffects
<1>3. NoneCompletes(d, e)
  BY RecordFailuresCompletes
<1> HIDE DEF e
<1>4. Works(d, e)
  BY <1>1, <1>2, <1>3 DEF Works, CompletedStay
<1> QED
  BY <1>4 DEF e

-------------------------------------------------------------------------------
(* What a step makes of the ledger. *)

\* The steps that do more to the ledger than work on it.
Completes == \E x \in attempts, now \in Instants : CompleteEffect(x, now)
Records == \E c \in held, key \in CheckpointKeys, release \in BOOLEAN : RecordActivationFailure(c, key, release)
Forgets(r) == db'.effects = EffectsBut(db, r)
Starts == \E r \in Refs : Forgets(r) /\ (db.inst[r].status = "absent" \/ ~ NobodyTerminates)

LEMMA HandOutEffects ==
    ASSUME NEW d \in Tables, NEW batch, NEW w, NEW s, NEW now, NEW epoch
    PROVE  HandOut(d, batch, w, s, now, epoch).effects = d.effects
<1> DEFINE T       == Live(d, batch)
           winners == Winners(d, s, now, VersionOf[w], epoch)
           passed  == {t \in Candidates(d, s, now, VersionOf[w]) :
                           /\ Taken(d, t, now) /\ ~ Competing(d, t, epoch)
                           /\ batch = winners \/ \E u \in batch : SortsBefore(t, u)}
           cleared == DeleteTasks(d, batch \ T)
           M       == UnmarkedFor(cleared.claimed, passed)
           d1      == [cleared EXCEPT !.claimed = M]
           until   == now + TaskLeaseMs
           N == {IF t \in T THEN [t EXCEPT !.owner = w, !.epoch = epoch, !.until = until] ELSE t : t \in d1.tasks}
           L == UnmarkedFor(d1.claimed, T) \cup {[ref |-> t.act.ref, seq |-> t.act.seq, epoch |-> epoch] : t \in T}
           e == [d1 EXCEPT !.tasks = N, !.claimed = L]
<1>1. HandOut(d, batch, w, s, now, epoch) = TakeClaims(d1, T, w, epoch, until)
  BY DEF HandOut
<1>2. cleared \in Tables /\ cleared.effects = d.effects
  BY DeleteTasksFields
<1> HIDE DEF cleared, M, T
<1>3. d1.effects = d.effects /\ "effects" \in DOMAIN d1
  BY <1>2 DEF Tables
<1> HIDE DEF d1
<1>4. TakeClaims(d1, T, w, epoch, until) = e
  BY DEF TakeClaims
<1> HIDE DEF N, L
<1>5. e.effects = d1.effects
  BY <1>3
<1> HIDE DEF e
<1> QED
  BY <1>1, <1>3, <1>4, <1>5

\* A claim of tasks makes of the ledger what the timeouts do that it expires.
LEMMA ClaimTasksEffects ==
    ASSUME Inv, NEW w \in alive, NEW s \in Shards, NEW now \in Instants, ClaimTasks(w, s, now)
    PROVE  \E A : db'.effects = ExpireTimeouts(db, A, now).effects
<1>1. now \in Nat /\ db \in Tables /\ w \in Workers
  BY InstantsType DEF Inv, TypeOK
<1> DEFINE here  == {a \in Expirable(db, w, now) : ShardOfRef(a.ref) = s}
           d0    == ExpireTimeouts(db, here, now)
           d1    == RefreshMigrations(d0, s, now, VersionOf[w])
           epoch == leases[s].epoch
<1>2. PICK batch \in Batches(d1, s, now, VersionOf[w], epoch, Slots(w)) : db' = HandOut(d1, batch, w, s, now, epoch)
  BY DEF ClaimTasks, Prepared
<1> HIDE DEF here, epoch
<1>3. d0 \in Tables
  BY <1>1, ExpireTimeoutsEffects
<1> HIDE DEF d0
<1>4. d1 \in Tables /\ d1.effects = d0.effects
  <2> DEFINE version == VersionOf[w]
             runs  == {r \in Refs : ShardOf[r[1]] = s /\ Running(d0, r)}
             done  == {t \in d0.tasks : /\ t.act.kind = "migration" /\ t.act.ref \in runs
                                        /\ t.act.seq = d0.inst[t.act.ref].seq
                                        /\ d0.inst[t.act.ref].version >= version}
             stale == {r \in runs : d0.inst[r].version < version /\ CurrentTasks(d0, r) = {}}
             new   == {TaskFor(d0, r, "migration", 0, version, 0, now) : r \in stale}
             cut   == DeleteTasks(d0, done)
  <2>1. version \in Nat
    BY <1>1, VersionOfType
  <2>2. d1 = InsertTasks(cut, new)
    BY DEF RefreshMigrations
  <2>3. d1 \in Tables
    BY <1>1, <1>3, <2>1, RefreshMigrationsSafe DEF Safe
  <2>4. new \in SUBSET FreshTasks
    <3>1. \A r \in stale : TaskFor(d0, r, "migration", 0, version, 0, now) \in FreshTasks
      BY <1>1, <1>3, <2>1, TaskForType DEF Kinds
    <3> QED
      BY <3>1
  <2>5. cut \in Tables /\ cut.effects = d0.effects
    BY <1>3, DeleteTasksFields
  <2> HIDE DEF new, cut, d1
  <2>6. InsertTasks(cut, new).effects = cut.effects
    BY <2>4, <2>5, InsertTasksFields
  <2> QED
    BY <2>2, <2>3, <2>5, <2>6
<1> HIDE DEF d1
<1>5. db'.effects = d1.effects
  BY <1>2, <1>4, HandOutEffects
<1>6. db'.effects = d0.effects
  BY <1>4, <1>5
<1> QED
  BY <1>6 DEF d0

LEMMA ClaimTasksWorks ==
    ASSUME Inv, NEW w \in alive, NEW s \in Shards, NEW now \in Instants, ClaimTasks(w, s, now)
    PROVE  Works(db, db')
<1>1. now \in Nat /\ db \in Tables
  BY InstantsType DEF Inv, TypeOK
<1>2. PICK A, d0 : d0 = ExpireTimeouts(db, A, now) /\ db'.effects = d0.effects
  BY ClaimTasksEffects
<1>3. Works(db, d0) /\ d0.inst = db.inst
  BY <1>1, <1>2, ExpireTimeoutsEffects
<1>4. Works(d0, db')
  BY <1>2, WorksSame
<1> QED
  BY <1>3, <1>4, WorksTransitive

LEMMA ReserveEffectWorks ==
    ASSUME Inv, NEW c \in held, NEW now \in Instants, NEW key \in EagerKeys, ReserveEffect(c, key, now)
    PROVE  /\ Works(db, db')
           /\ \A x \in attempts' : x \in attempts \/ (x.key = key /\ x.token.n # 0)
<1> DEFINE d1 == ExpireTimeouts(db, Expirable(db, c.worker, now), now)
           open == \A e \in EffectFor(d1, c.act, key) : e.status = "pending" /\ e.next <= now
           token(n) == [n |-> n, worker |-> c.worker]
           attempt(n) == [act |-> c.act, key |-> key, token |-> token(n)]
<1>1. now \in Nat /\ db \in Tables
  BY InstantsType DEF Inv, TypeOK
<1>2. /\ db.inst[c.act.ref].status # "absent"
      /\ \/ /\ open
            /\ \E n \in FreshIds : /\ db' = Reserve(d1, c.act, key, token(n), now)
                                   /\ attempts' = attempts \cup {attempt(n)}
         \/ db' = d1 /\ attempts' = attempts
  BY DEF ReserveEffect
<1>3. \A n \in FreshIds : attempt(n).key = key /\ attempt(n).token.n # 0
  BY InputAssumption DEF FreshIds
<1> HIDE DEF attempt, d1
<1>4. Works(db, d1) /\ d1 \in Tables /\ d1.inst = db.inst
  BY <1>1, ExpireTimeoutsEffects DEF d1
<1>5. CASE db' = d1 /\ attempts' = attempts
  BY <1>4, <1>5
<1>6. ASSUME NEW n \in FreshIds, open, db' = Reserve(d1, c.act, key, token(n), now),
             attempts' = attempts \cup {attempt(n)}
      PROVE  Works(db, db') /\ \A x \in attempts' : x \in attempts \/ (x.key = key /\ x.token.n # 0)
  <2>1. Works(d1, db')
    BY <1>2, <1>4, <1>6, ReserveWorks
  <2> QED
    BY <1>3, <1>4, <1>6, <2>1, WorksTransitive
<1> QED
  BY <1>2, <1>5, <1>6

LEMMA ActivityWorks ==
    ASSUME Inv, NEW x \in attempts, NEW now \in Instants,
           HeartbeatEffect(x, now) \/ \E retryable \in BOOLEAN : FailEffect(x, retryable, now)
    PROVE  Works(db, db') /\ attempts' \subseteq attempts
<1> DEFINE d1 == ExpireTimeouts(db, Expirable(db, x.token.worker, now), now)
           E  == PendingAttempt(d1, x.act, x.key, x.token)
           e  == CHOOSE y \in E : TRUE
<1>1. now \in Nat /\ db \in Tables
  BY InstantsType DEF Inv, TypeOK
<1>2. attempts' \subseteq attempts
  BY DEF HeartbeatEffect, FailEffect
<1>3. \/ db' = IF E = {} THEN d1 ELSE Beat(d1, e, now)
      \/ \E retryable \in BOOLEAN : db' = IF E = {} THEN d1 ELSE Fail(d1, e, now, retryable)
  BY DEF HeartbeatEffect, FailEffect
<1> HIDE DEF d1
<1>4. Works(db, d1) /\ d1 \in Tables /\ d1.inst = db.inst
  BY <1>1, ExpireTimeoutsEffects DEF d1
<1>5. E # {} => e \in d1.effects /\ e.status = "pending"
  BY DEF PendingAttempt, EffectFor, EffectsOf
<1> HIDE DEF E, e
<1>6. E # {} => Works(d1, Beat(d1, e, now)) /\ \A retryable \in BOOLEAN : Works(d1, Fail(d1, e, now, retryable))
  BY <1>1, <1>4, <1>5, BeatWorks, FailWorks
<1>7. db' = d1 \/ Works(d1, db')
  BY <1>3, <1>6
<1> QED
  BY <1>2, <1>4, <1>7, WorksTransitive

LEMMA ClientsLedger ==
    ASSUME TypeOK, StartsOrSignals
    PROVE  Works(db, db') \/ Starts
<1>1. db \in Tables /\ Instants \subseteq Nat
  BY InstantsType DEF TypeOK
<1>2. ASSUME NEW e \in Tables, NEW in, in.ref \in Refs, in.version \in Versions, NEW now \in Instants,
             e = CreateInstance(db, in.ref, in.version, Materialize(InitialWaits[in.ref[1]], now, now), now)
      PROVE  e.effects = EffectsBut(db, in.ref)
  <2> DEFINE W == Materialize(InitialWaits[in.ref[1]], now, now)
  <2>1. W \in SUBSET Wait /\ in.version \in Nat /\ now \in Nat
    BY <1>1, <1>2, InitialWaitsType, NumberAssumption
  <2>2. e = CreateInstance(db, in.ref, in.version, W, now)
    BY <1>2
  <2> HIDE DEF W
  <2> QED
    BY <1>1, <1>2, <2>1, <2>2, CreateInstanceEffects
<1>3. ASSUME NEW now \in Instants, NEW in \in ClientStarts, StartWorkflow(in, now) PROVE Starts
  <2>1. in.ref \in Refs /\ in.version \in Versions
    BY InputAssumption
  <2>2. db' = CreateInstance(db, in.ref, in.version, Materialize(InitialWaits[in.ref[1]], now, now), now)
    BY <1>3 DEF StartWorkflow
  <2>3. db' \in Tables
    BY <1>1, <2>1, <2>2, StartArrives DEF Begun
  <2>4. Forgets(in.ref)
    BY <1>2, <2>1, <2>2, <2>3 DEF Forgets
  <2>5. db.inst[in.ref].status = "absent" \/ ~ NobodyTerminates
    BY <1>3 DEF StartWorkflow, NobodyTerminates
  <2> QED
    BY <2>1, <2>4, <2>5 DEF Starts
<1>4. ASSUME NEW now \in Instants, NEW in \in Appends, Signals(in, now) PROVE Works(db, db')
  <2>1. in.ref \in Refs /\ in.type \in SignalTypes /\ in.key \in Keys \cup {NoKey}
    BY InputAssumption
  <2>2. db'.effects = db.effects
    BY <1>1, <1>4, <2>1, AppendSignalEffects DEF Signals
  <2> QED
    BY <2>2, WorksSame
<1>5. ASSUME NEW now \in Instants, NEW in \in SendStarts, StartSendSignal(in, now) PROVE Works(db, db') \/ Starts
  <2>1. /\ in.ref \in Refs /\ in.version \in Versions
        /\ in.type \in SignalTypes /\ in.key \in Keys \cup {NoKey}
    BY InputAssumption
  <2>2. ASSUME NEW r \in Refs, db' = AppendSignal(db, r, in.type, in.key, now) PROVE Works(db, db')
    <3>1. db'.effects = db.effects
      BY <1>1, <2>1, <2>2, AppendSignalEffects
    <3> QED
      BY <3>1, WorksSame
  <2>3. CASE SendToTarget(in, now)
    BY <2>1, <2>2, <2>3 DEF SendToTarget
  <2>4. CASE SendToRunning(in, now)
    BY <2>2, <2>4 DEF SendToRunning, LatestRunning, LastOf, RunsOf
  <2>5. CASE SendAndStart(in, now)
    <3> DEFINE e == CreateInstance(db, in.ref, in.version, Materialize(InitialWaits[in.ref[1]], now, now), now)
    <3>1. db' = AppendSignal(e, in.ref, in.type, in.key, now) /\ db.inst[in.ref].status = "absent"
      BY <2>5 DEF SendAndStart
    <3>2. e \in Tables
      BY <1>1, <2>1, StartArrives DEF Begun
    <3>3. e.effects = EffectsBut(db, in.ref)
      BY <1>2, <2>1, <3>2
    <3> HIDE DEF e
    <3>4. db'.effects = e.effects
      BY <1>1, <2>1, <3>1, <3>2, AppendSignalEffects
    <3> QED
      BY <2>1, <3>1, <3>3, <3>4 DEF Starts, Forgets
  <2> QED
    BY <1>5, <2>3, <2>4, <2>5 DEF StartSendSignal
<1> QED
  BY <1>3, <1>4, <1>5 DEF StartsOrSignals

\* The attempts that are executing: those that were, and any that a reservation has begun.
NewAttempts == \A x \in attempts' : x \in attempts \/ (x.key \in EagerKeys /\ x.token.n # 0)

LEMMA StepLedger ==
    ASSUME Inv, [Next]_vars
    PROVE  NewAttempts /\ (Works(db, db') \/ Completes \/ Records \/ Commits \/ Creates \/ Starts)
<1>1. TypeOK
  BY DEF Inv
<1>2. ASSUME attempts' \subseteq attempts PROVE NewAttempts
  BY <1>2 DEF NewAttempts
<1>3. ASSUME db' = db PROVE Works(db, db')
  BY <1>3, WorksSame
<1>4. CASE Clients
  <2>1. StartsOrSignals /\ attempts' = attempts
    BY <1>4 DEF Clients, StartsOrSignals, StartWorkflow, Signals, StartSendSignal
  <2> QED
    BY <1>1, <1>2, <2>1, ClientsLedger
<1>5. ASSUME NEW w \in alive, NEW s \in Shards, Shard(w, s) PROVE NewAttempts /\ Works(db, db')
  <2>1. CASE ReleaseShard(w, s)
    BY <1>2, <1>3, <2>1 DEF ReleaseShard
  <2>2. ASSUME NEW now \in Instants, ClaimShard(w, s, now) \/ HeartbeatShard(w, s, now)
        PROVE  attempts' = attempts /\ db' = db
    BY <2>2 DEF ClaimShard, HeartbeatShard
  <2>3. ASSUME NEW now \in Instants, ClaimTasks(w, s, now) PROVE attempts' = attempts /\ Works(db, db')
    BY <2>3, ClaimTasksWorks DEF ClaimTasks
  <2> QED
    BY <1>2, <1>3, <1>5, <2>1, <2>2, <2>3 DEF Shard
<1>6. ASSUME NEW c \in held, Settles(c) PROVE NewAttempts /\ (Works(db, db') \/ Commits)
  <2>1. CASE ReleaseClaim(c) \/ HandlerFails(c)
    <3>1. attempts' \subseteq attempts
      BY <2>1 DEF ReleaseClaim, HandlerFails
    <3> DEFINE T == {t \in TasksOfActivation(db, c.act) : t.owner = c.worker}
    <3>2. db' = Freed(db, T, [t \in T |-> t.blocked])
      BY <2>1 DEF ReleaseClaim, HandlerFails
    <3>3. db \in Tables
      BY <1>1 DEF TypeOK
    <3> HIDE DEF T
    <3>4. db'.effects = db.effects
      BY <3>2, <3>3 DEF Freed, Tables
    <3> QED
      BY <1>2, <3>1, <3>4, WorksSame
  <2>2. ASSUME NEW now \in Instants, CommitRefused(c, now) \/ CommitRejected(c, now)
        PROVE  attempts' \subseteq attempts /\ db' = db
    BY <2>2 DEF CommitRefused, CommitRejected
  <2>3. ASSUME NEW now \in Instants, NEW res \in Results(c), Commit(c, res, now)
        PROVE  attempts' \subseteq attempts /\ Commits
    BY <2>3 DEF Commit, Commits
  <2> QED
    BY <1>2, <1>3, <1>6, <2>1, <2>2, <2>3 DEF Settles
<1>7. ASSUME NEW c \in held, Handler(c) PROVE NewAttempts /\ (Works(db, db') \/ Records \/ Creates)
  <2>1. ASSUME NEW start \in c.starts, CancelBuffered(c, start) PROVE attempts' = attempts /\ db' = db
    BY <2>1 DEF CancelBuffered
  <2>2. ASSUME NEW k \in CheckpointKeys, FailLocally(c, k) PROVE attempts' = attempts /\ db' = db
    BY <2>2 DEF FailLocally
  <2>3. ASSUME NEW now \in Instants, NEW start, BufferStart(c, start, now) PROVE attempts' = attempts /\ db' = db
    BY <2>3 DEF BufferStart
  <2>4. ASSUME NEW k \in CheckpointKeys, NEW release \in BOOLEAN, RecordActivationFailure(c, k, release)
        PROVE  attempts' = attempts /\ Records
    BY <2>4 DEF RecordActivationFailure, Records
  <2>5. ASSUME NEW now \in Instants, NEW start \in At(EagerStarts, c), CreateChild(c, start, now)
        PROVE  attempts' = attempts /\ Creates
    BY <2>5 DEF CreateChild, Creates
  <2>6. ASSUME NEW now \in Instants, NEW r \in Refs, CancelChild(c, r, now)
        PROVE  attempts' = attempts /\ Works(db, db')
    <3>1. c.act.ref \in Refs /\ db \in Tables /\ now \in Nat
      BY <1>1, InstantsType, ClaimFields DEF TypeOK
    <3>2. db' = CancelChildRun(db, c.act.ref, r, now) /\ attempts' = attempts
      BY <2>6 DEF CancelChild
    <3>3. db'.effects = db.effects
      BY <3>1, <3>2, CancelChildRunEffects
    <3> QED
      BY <3>2, <3>3, WorksSame
  <2>7. ASSUME NEW now \in Instants, NEW key \in EagerKeys, ReserveEffect(c, key, now)
        PROVE  NewAttempts /\ Works(db, db')
    BY <2>7, ReserveEffectWorks DEF NewAttempts
  <2> QED
    BY <1>2, <1>3, <1>7, <2>1, <2>2, <2>3, <2>4, <2>5, <2>6, <2>7 DEF Handler
<1>8. ASSUME NEW x \in attempts, Activity(x) PROVE NewAttempts /\ (Works(db, db') \/ Completes)
  <2>1. ASSUME NEW now \in Instants, CompleteEffect(x, now) PROVE attempts' \subseteq attempts /\ Completes
    BY <2>1 DEF CompleteEffect, Completes
  <2> QED
    BY <1>2, <1>8, <2>1, ActivityWorks DEF Activity
<1>9. CASE \E w \in Workers : Crash(w)
  BY <1>2, <1>3, <1>9 DEF Crash
<1>10. CASE Tick \/ UNCHANGED vars
  BY <1>2, <1>3, <1>10 DEF Tick, vars
<1> QED
  BY <1>4, <1>5, <1>6, <1>7, <1>8, <1>9, <1>10 DEF Next

\* A commit leaves the effects of the other activations, unless their run is not there, and
\* completes none.
LEMMA CommitLedger ==
    ASSUME Inv, HeldStarts, Commits
    PROVE  \E c \in held :
             /\ c.act.ref \in Refs /\ db.inst[c.act.ref].status # "absent"
             /\ db'.inst[c.act.ref].seq = c.act.seq + 1 /\ c.act.seq \in Nat
             /\ NoneCompletes(db, db')
             /\ \A f \in db'.effects : f \in db.effects \/ f.act = c.act
             /\ \A f \in db'.effects : f \in db.effects \/ f \in FailureRecords(c.act, c.failed)
             /\ \A f \in db.effects : f \in db'.effects \/ f.act = c.act \/ db.inst[f.act.ref].status = "absent"
<1>1. PICK c \in held, next \in {"running"} \cup Closed, waits \in SUBSET Wait, now \in Nat :
         \E starts \in Seq(ChildStart), d1, d2, d3, d4 \in Tables :
             CommitParts(c, next, waits, starts, now, d1, d2, d3, d4)
  BY CommitInParts
<1>2. PICK starts \in Seq(ChildStart), d1, d2, d3, d4 \in Tables :
         CommitParts(c, next, waits, starts, now, d1, d2, d3, d4)
  BY <1>1
<1> DEFINE r   == c.act.ref
           seq == db.inst[r].seq + 1
<1>3. /\ Running(db, r) /\ db.inst[r].seq = c.act.seq /\ Len(starts) <= 2 /\ Distinct(starts)
      /\ \A k \in DOMAIN starts : Accepted(d1, starts[k])
      /\ CheckpointParts(db, c, next, waits, starts, now, d1, d2, d3, d4, db')
  BY <1>2 DEF CommitParts
<1>4. c \in Claim /\ db \in Tables /\ r \in Refs /\ c.act.seq \in Nat /\ db.inst[r] \in Instance /\ seq \in Nat
  <2>1. c \in Claim /\ db \in Tables
    BY DEF Inv, TypeOK
  <2>2. r \in Refs /\ c.act.seq \in Nat
    BY <2>1, ClaimFields
  <2> QED
    BY <2>1, <2>2, InstanceFields
<1> HIDE DEF r, seq
<1>5. /\ d1.effects = Settled(db.effects, c) /\ d2 = StartedAll(d1, c, starts, now)
      /\ d3 = UpdateParentRecord(d2, db.inst[r], next, now)
      /\ d4 = ApplyClosePolicy(d3, r, next, seq, now) /\ db'.effects = d4.effects
  BY <1>3 DEF CheckpointParts, r, seq
<1>6. ForgetsAbsent(d1, d2)
  BY <1>3, <1>4, <1>5, StartedAllEffects
<1>7. db'.effects = d2.effects
  <2>1. d3.effects = d2.effects
    BY <1>4, <1>5, UpdateParentRecordEffects
  <2>2. d4.effects = d3.effects
    BY <1>4, <1>5, ApplyClosePolicyEffects
  <2> QED
    BY <1>5, <2>1, <2>2
<1>13. \A f \in db'.effects : f \in db.effects \/ f \in FailureRecords(c.act, c.failed)
  BY <1>5, <1>6, <1>7 DEF Settled, ForgetsAbsent
<1>8. /\ \A f \in d1.effects : f \in db.effects \/ (f.act = c.act /\ f.status = "failed")
      /\ \A f \in db.effects : f \in d1.effects \/ f.act = c.act
  BY <1>5 DEF Settled, FailureRecords, FailureRecord
<1>9. \A q \in Refs : d1.inst[q].status = "absent" => db.inst[q].status = "absent"
  <2>1. \A q \in Refs : q # r => d1.inst[q] = db.inst[q]
    BY <1>3, <1>4 DEF CheckpointParts, Tables, r
  <2>2. d1.inst[r].status # "absent"
    <3>1. d1.inst[r] = NextInstance(db, db.inst[r], next, waits, VersionOf[c.worker], now)
      BY <1>3, <1>4 DEF CheckpointParts, Tables, r
    <3>2. d1.inst[r].status = next
      BY <1>4, <3>1 DEF NextInstance, Instance
    <3> QED
      BY <3>2 DEF Closed
  <2> QED
    BY <2>1, <2>2
<1>10. \A f \in db.effects : f.act.ref \in Refs
  BY <1>4 DEF Tables, EffectRecord, Activation
<1>11. /\ NoneCompletes(db, db')
       /\ \A f \in db'.effects : f \in db.effects \/ f.act = c.act
       /\ \A f \in db.effects : f \in db'.effects \/ f.act = c.act \/ db.inst[f.act.ref].status = "absent"
  BY <1>6, <1>7, <1>8, <1>9, <1>10 DEF ForgetsAbsent, NoneCompletes
<1>12. db'.inst[r].seq = c.act.seq + 1
  <2>1. PICK cc \in held, nn \in {"running"} \cup Closed, S \in SUBSET Refs :
          /\ held' = held \ {cc} /\ db.inst[cc.act.ref].seq = cc.act.seq
          /\ Advanced(db, cc, nn, S, db')
    BY CommitAdvances DEF Advances
  <2>2. held' = held \ {c}
    BY <1>2 DEF CommitParts
  <2>3. cc = c
    BY <2>1, <2>2
  <2> QED
    BY <1>4, <2>1, <2>3 DEF Advanced, r
<1> QED
  BY <1>3, <1>4, <1>11, <1>12, <1>13 DEF r, Running

\* A start that a handler sends at once forgets nothing of a run that is there.
LEMMA CreateLedger ==
    ASSUME TypeOK, Creates
    PROVE  ForgetsAbsent(db, db')
<1>1. PICK c \in held, now \in Instants : \E start \in At(EagerStarts, c) : CreateChild(c, start, now)
  BY DEF Creates
<1>2. PICK start \in At(EagerStarts, c) : CreateChild(c, start, now)
  BY <1>1
<1> DEFINE eager == [start EXCEPT !.at = now, !.conflict = "fail"]
<1>3. c \in Claim /\ db \in Tables /\ now \in Nat
  BY InstantsType DEF TypeOK
<1>4. start \in ChildStart
  BY InputAssumption DEF At
<1>5. /\ eager \in ChildStart /\ eager.ref = start.ref /\ eager.conflict = "fail"
      /\ eager.reuse = start.reuse
  BY <1>3, <1>4 DEF ChildStart, ConflictPolicies
<1>6. db' = Started(db, c, eager, now) /\ (KeptRun(db, start) = {} => db.inst[start.ref].status = "absent")
  BY <1>2 DEF CreateChild
<1> HIDE DEF eager
<1>7. Accepted(db, eager)
  BY <1>5, <1>6 DEF Accepted, KeptRun
<1> QED
  BY <1>3, <1>5, <1>6, <1>7, StartedEffects

\* The attempts that are executing were given a token.
TokensReal == \A x \in attempts : x.token.n # 0

\* The effect f has been completed by an executing attempt that was recorded in it.
CompletedByAttempt(f) ==
    \E x \in attempts : /\ x \notin attempts' /\ x.act = f.act /\ x.key = f.key
                        /\ \E g \in db.effects : /\ g.act = x.act /\ g.key = x.key
                                                 /\ g.token = x.token /\ g.status = "pending"

LEMMA CompleteLedger ==
    ASSUME Inv, TokensReal, Completes
    PROVE  /\ CompletedStay(db, db')
           /\ \A f \in db'.effects : \/ \E x \in db.effects : f.act = x.act
                                     \/ db.inst[f.act.ref].status # "absent"
           /\ \A f \in db'.effects : f.status = "completed" => f \in db.effects \/ CompletedByAttempt(f)
<1>1. PICK x \in attempts, now \in Instants : CompleteEffect(x, now)
  BY DEF Completes
<1> DEFINE d1 == ExpireTimeouts(db, Expirable(db, x.token.worker, now), now)
           E  == PendingAttempt(d1, x.act, x.key, x.token)
           g  == CHOOSE e \in E : TRUE
           f  == [Detached(g) EXCEPT !.status = "completed", !.next = 0]
<1>2. now \in Nat /\ db \in Tables /\ x.token.n # 0
  BY InstantsType DEF Inv, TypeOK, TokensReal
<1>3. db' = (IF E = {} THEN d1 ELSE Complete(d1, g)) /\ x \notin attempts'
  BY <1>1 DEF CompleteEffect
<1>4. Works(db, d1) /\ d1 \in Tables /\ \A e \in d1.effects : e \in db.effects \/ e.token = NoToken
  BY <1>2, ExpireTimeoutsEffects
<1> HIDE DEF d1
<1>5. E # {} => /\ g \in d1.effects /\ g.act = x.act /\ g.key = x.key
                /\ g.token = x.token /\ g.status = "pending"
  BY DEF PendingAttempt, EffectFor, EffectsOf
<1> HIDE DEF E, g
<1>6. CASE E = {}
  BY <1>3, <1>4, <1>6 DEF Works, NoneCompletes
<1>7. CASE E # {}
  <2>1. g \in db.effects
    BY <1>2, <1>4, <1>5, <1>7 DEF NoToken
  <2>2. f.act = g.act /\ f.key = g.key
    <3>1. g \in EffectRecord
      BY <1>2, <2>1 DEF Tables
    <3> QED
      BY <3>1 DEF Detached, EffectRecord
  <2>3. Complete(d1, g) = [d1 EXCEPT !.effects = (d1.effects \ {g}) \cup {f}]
    BY DEF Complete
  <2> HIDE DEF f
  <2>4. db'.effects = (d1.effects \ {g}) \cup {f}
    BY <1>3, <1>4, <1>7, <2>3 DEF Tables
  <2>5. CompletedByAttempt(f)
    BY <1>3, <1>5, <1>7, <2>1, <2>2 DEF CompletedByAttempt
  <2>6. CompletedStay(db, db')
    BY <1>4, <1>5, <1>7, <2>4 DEF Works, CompletedStay
  <2>7. \A e \in db'.effects : (\E y \in db.effects : e.act = y.act) \/ db.inst[e.act.ref].status # "absent"
    BY <1>4, <2>1, <2>2, <2>4 DEF Works
  <2>8. \A e \in db'.effects : e.status = "completed" => e \in db.effects \/ CompletedByAttempt(e)
    BY <1>4, <2>4, <2>5 DEF Works, NoneCompletes
  <2> QED
    BY <2>6, <2>7, <2>8
<1> QED
  BY <1>6, <1>7

LEMMA RecordLedger ==
    ASSUME Inv, Records
    PROVE  /\ NoneCompletes(db, db')
           /\ (\A f \in db.effects : f.status = "completed" => f.key \notin CheckpointKeys) => Works(db, db')
<1>1. PICK c \in held, key \in CheckpointKeys, release \in BOOLEAN : RecordActivationFailure(c, key, release)
  BY DEF Records
<1>2. db' = RecordFailures(db, c.act, {key}, release) /\ db.inst[c.act.ref].status # "absent" /\ db \in Tables
  BY <1>1 DEF RecordActivationFailure, Inv, TypeOK
<1>3. NoneCompletes(db, db')
  BY <1>2, RecordFailuresCompletes
<1>4. ASSUME \A f \in db.effects : f.status = "completed" => f.key \notin CheckpointKeys PROVE Works(db, db')
  BY <1>2, <1>4, RecordFailuresWorks
<1> QED
  BY <1>3, <1>4

-------------------------------------------------------------------------------
(* Theorems. *)

LEMMA TokensRealStep == ASSUME Inv, TokensReal, [Next]_vars PROVE TokensReal'
  BY StepLedger DEF NewAttempts, TokensReal

LEMMA LiveAttemptStep ==
    ASSUME Inv, HeldStarts, TokensReal, [Next]_vars
    PROVE  \A f \in db'.effects : f.status = "completed" => f \in db.effects \/ CompletedByAttempt(f)
<1>1. ASSUME NoneCompletes(db, db')
      PROVE  \A f \in db'.effects : f.status = "completed" => f \in db.effects \/ CompletedByAttempt(f)
  BY <1>1 DEF NoneCompletes
<1>2. Works(db, db') => NoneCompletes(db, db')
  BY DEF Works
<1>3. Creates => NoneCompletes(db, db')
  BY CreateLedger DEF Inv, ForgetsAbsent, NoneCompletes
<1>4. Starts => NoneCompletes(db, db')
  BY DEF Starts, Forgets, EffectsBut, NoneCompletes
<1>5. Commits => NoneCompletes(db, db')
  BY CommitLedger
<1>6. Records => NoneCompletes(db, db')
  BY RecordLedger
<1> QED
  BY <1>1, <1>2, <1>3, <1>4, <1>5, <1>6, StepLedger, CompleteLedger

\* An effect completes only by the executing attempt that is recorded in it: an attempt that
\* was timed out, failed, or replaced by another reservation of the activity settles nothing,
\* whoever holds the claim by then (assert_mutable_effect, complete_effect).
THEOREM OnlyLiveAttemptsComplete ==
    ASSUME RuntimeStarts, NoSelfStart PROVE Spec => OnlyTheLiveAttemptCompletes
<1> DEFINE Lives == \A e \in db.effects, f \in db'.effects :
                        e.act = f.act /\ e.key = f.key /\ e.status = "pending" /\ f.status = "completed" =>
                            \E x \in attempts : x \notin attempts' /\ x.act = e.act /\ x.key = e.key /\ x.token = e.token
<1>1. Init => TokensReal
  BY DEF Init, TokensReal
<1>2. BaseInv /\ TokensReal /\ [Next]_vars => TokensReal'
  BY TokensRealStep DEF BaseInv, WorkInv
<1>3. ASSUME BaseInv, TokensReal, [Next]_vars PROVE Lives
  <2>1. OneRecordEach(db.effects) /\ Inv /\ HeldStarts
    BY <1>3 DEF BaseInv, WorkInv, Inv, Sound
  <2>2. \A f \in db'.effects : f.status = "completed" => f \in db.effects \/ CompletedByAttempt(f)
    BY <1>3, <2>1, LiveAttemptStep
  <2> QED
    BY <2>1, <2>2 DEF OneRecordEach, CompletedByAttempt
<1> HIDE DEF Lives
<1>4. BaseInv /\ TokensReal /\ [Next]_vars => [Lives]_vars
  BY <1>3
<1>5. Spec => [][Lives]_vars
  BY <1>1, <1>2, <1>4, BaseHolds, PTL DEF Spec
<1> QED
  BY <1>5 DEF Lives, OnlyTheLiveAttemptCompletes

\* An activity runs under one durability: what commits with its handler is never reserved.
OneDurability == EagerKeys \cap CheckpointKeys = {}

\* Effects are of runs that are there, and what completes was reserved by an attempt.
LedgerInv ==
    /\ \A f \in db.effects : db.inst[f.act.ref].status # "absent"
    /\ \A f \in db.effects : f.status = "completed" => f.key \in EagerKeys
    /\ \A x \in attempts : x.key \in EagerKeys /\ x.token.n # 0

\* What a step keeps of the effects that have completed.
Kept == \A f \in db.effects : f.status = "completed" =>
            f \in db'.effects \/ db'.inst[f.act.ref].seq # f.act.seq

LEMMA KeptStep ==
    ASSUME BaseInv, LedgerInv, [Next]_vars, NobodyTerminates, OneDurability
    PROVE  Kept /\ \A f \in db'.effects : (\E x \in db.effects : f.act = x.act) \/ db.inst[f.act.ref].status # "absent"
<1> DEFINE Older == \A f \in db'.effects : (\E x \in db.effects : f.act = x.act) \/ db.inst[f.act.ref].status # "absent"
<1>1. Inv /\ HeldStarts /\ TypeOK
  BY DEF BaseInv, WorkInv, Inv
<1>2. Works(db, db') => Kept /\ Older
  BY DEF Works, CompletedStay, Kept
<1>3. ASSUME ForgetsAbsent(db, db') PROVE Kept /\ Older
  BY <1>3 DEF ForgetsAbsent, LedgerInv, Kept
<1>4. CASE Starts
  <2>1. PICK r \in Refs : Forgets(r) /\ db.inst[r].status = "absent"
    BY <1>4 DEF Starts
  <2> QED
    BY <2>1 DEF Forgets, EffectsBut, LedgerInv, Kept
<1>5. CASE Completes
  <2>1. TokensReal
    BY DEF LedgerInv, TokensReal
  <2> QED
    BY <1>1, <1>5, <2>1, CompleteLedger DEF CompletedStay, Kept
<1>6. CASE Records
  BY <1>1, <1>2, <1>6, RecordLedger DEF LedgerInv, OneDurability
<1>7. CASE Commits
  BY <1>1, <1>7, CommitLedger DEF LedgerInv, Kept
<1>8. Creates => Kept /\ Older
  BY <1>1, <1>3, CreateLedger
<1> QED
  BY <1>1, <1>2, <1>4, <1>5, <1>6, <1>7, <1>8, StepLedger

LEMMA LedgerStep ==
    ASSUME BaseInv, LedgerInv, [Next]_vars, NobodyTerminates, OneDurability
    PROVE  LedgerInv'
<1>1. Inv /\ HeldStarts /\ Unstarted /\ TokensReal /\ Inv'
  BY NextStep DEF BaseInv, WorkInv, LedgerInv, TokensReal
<1>2. \A f \in db'.effects : f.act.ref \in Refs
  BY <1>1 DEF Inv, TypeOK, Tables, EffectRecord, Activation
<1>3. \A r \in Refs : db'.inst[r].status = "absent" => db.inst[r].status = "absent"
  <2> SUFFICES ASSUME NEW r \in Refs, db'.inst[r].status = "absent" PROVE db.inst[r].status = "absent"
    OBVIOUS
  <2>1. CASE OtherStep
    BY <1>1, <2>1, OtherRuns
  <2>2. CASE Advances
    <3>1. PICK c \in held, next \in {"running"} \cup Closed, S \in SUBSET Refs :
             Running(db, c.act.ref) /\ Advanced(db, c, next, S, db')
      BY <2>2 DEF Advances
    <3>2. r # c.act.ref
      BY <1>1, <3>1, AdvanceRuns DEF Closed
    <3> QED
      BY <1>1, <3>1, <3>2, AdvanceRuns
  <2> QED
    BY <1>1, <2>1, <2>2, StepIsOtherOrAdvances
<1>4. \A f \in db'.effects : db'.inst[f.act.ref].status # "absent"
  BY <1>2, <1>3, KeptStep DEF LedgerInv
<1>5. \A f \in db'.effects : f.status = "completed" => f.key \in EagerKeys
  <2>1. \A f \in db'.effects : f.status = "completed" => f \in db.effects \/ CompletedByAttempt(f)
    BY <1>1, LiveAttemptStep
  <2> QED
    BY <2>1 DEF LedgerInv, CompletedByAttempt
<1>6. \A x \in attempts' : x.key \in EagerKeys /\ x.token.n # 0
  BY <1>1, StepLedger DEF LedgerInv, NewAttempts
<1> QED
  BY <1>4, <1>5, <1>6 DEF LedgerInv

\* An activity that has completed is not executed again in its activation: its record stays as
\* it is until the activation commits, whatever other attempts, timeouts, retries, recorded
\* failures and other workers do (get_or_reserve_effect, fail_effect,
\* record_activation_failures, delete_instance_records).
THEOREM CompletedActivitiesStay ==
    ASSUME RuntimeStarts, NoSelfStart, NobodyTerminates, OneDurability PROVE Spec => CompletedEffectStays
<1> DEFINE Stays == \A e \in db.effects : e.status = "completed" =>
                        \/ e \in db'.effects
                        \/ db'.inst[e.act.ref].seq # e.act.seq
<1>1. Init => LedgerInv
  BY DEF Init, EmptyTables, LedgerInv
<1>2. BaseInv /\ LedgerInv /\ [Next]_vars => LedgerInv'
  BY LedgerStep
<1>3. ASSUME BaseInv, LedgerInv, [Next]_vars PROVE Stays
  <2>1. Kept
    BY <1>3, KeptStep
  <2> QED
    BY <2>1 DEF Kept
<1> HIDE DEF Stays
<1>4. BaseInv /\ LedgerInv /\ [Next]_vars => [Stays]_vars
  BY <1>3
<1>5. Spec => [][Stays]_vars
  BY <1>1, <1>2, <1>4, BaseHolds, PTL DEF Spec
<1> QED
  BY <1>5 DEF Stays, CompletedEffectStays

-------------------------------------------------------------------------------
(* Backoffs: the sum of the delays before an attempt, by induction over its number. *)

\* The function that BackoffBefore defines, up to the retry m.
Waits(g, key, m) == g = [n \in 0..m |-> IF n = 0 THEN 0 ELSE g[n - 1] + Effect[key].delays[n]]
WaitedSum(key) == CHOOSE g : Waits(g, key, Len(Effect[key].delays))

LEMMA WaitsExists == ASSUME NEW key, NEW m \in Nat PROVE \E g : Waits(g, key, m)
<1> DEFINE S == {n \in Nat : \E g : Waits(g, key, n)}
           delays == Effect[key].delays
<1>1. 0 \in S
  <2> DEFINE g == [n \in 0..0 |-> 0]
  <2>1. Waits(g, key, 0)
    BY DEF Waits
  <2> QED
    BY <2>1
<1>2. ASSUME NEW n \in Nat, n \in S PROVE n + 1 \in S
  <2>1. PICK g : Waits(g, key, n)
    BY <1>2
  <2> DEFINE h == [i \in 0..(n + 1) |-> IF i = n + 1 THEN g[n] + delays[n + 1] ELSE g[i]]
  <2>2. \A i \in 0..n : g[i] = IF i = 0 THEN 0 ELSE g[i - 1] + delays[i]
    BY <2>1 DEF Waits
  <2> HIDE DEF delays
  <2>3. \A i \in 0..(n + 1) : h[i] = IF i = 0 THEN 0 ELSE h[i - 1] + delays[i]
    <3> TAKE i \in 0..(n + 1)
    <3>1. CASE i = n + 1
      BY <3>1
    <3>2. CASE i # n + 1
      BY <3>2, <2>2
    <3> QED
      BY <3>1, <3>2
  <2>4. Waits(h, key, n + 1)
    BY <2>3 DEF Waits, delays
  <2> QED
    BY <2>4
<1>3. \A n \in Nat : n \in S
  <2> HIDE DEF S
  <2> QED
    BY <1>1, <1>2, FromZeroUp
<1> QED
  BY <1>3

\* Each retry adds its delay.
LEMMA WaitedSteps ==
    ASSUME NEW key \in EffectKeys
    PROVE  LET delays == Effect[key].delays
           IN  /\ Len(delays) \in Nat
               /\ WaitedSum(key)[0] = 0
               /\ \A n \in 1..Len(delays) : /\ delays[n] \in Nat
                                            /\ WaitedSum(key)[n] = WaitedSum(key)[n - 1] + delays[n]
               /\ \A n \in 0..Len(delays) : WaitedSum(key)[n] \in Nat
<1> DEFINE delays == Effect[key].delays
           w == WaitedSum(key)
<1>1. delays \in Seq(Nat)
  BY EffectAssumption DEF EffectOptions
<1>2. PICK m \in Nat : m = Len(delays)
  BY <1>1
<1>3. Waits(w, key, Len(delays))
  <2>1. \E g : Waits(g, key, Len(delays))
    BY <1>2, WaitsExists
  <2> QED
    BY <2>1, Zenon DEF WaitedSum
<1>4. Waits(w, key, m)
  BY <1>2, <1>3
<1>5. \A n \in 1..m : delays[n] \in Nat
  BY <1>1, <1>2
<1> HIDE DEF w, delays
<1>6. \A n \in 0..m : w[n] = IF n = 0 THEN 0 ELSE w[n - 1] + delays[n]
  BY <1>4 DEF Waits, delays
<1>7. w[0] = 0 /\ \A n \in 1..m : w[n] = w[n - 1] + delays[n]
  BY <1>6
<1> DEFINE S == {n \in Nat : n <= m => w[n] \in Nat}
<1>8. 0 \in S
  BY <1>7
<1>9. ASSUME NEW n \in Nat, n \in S PROVE n + 1 \in S
  BY <1>5, <1>7, <1>9
<1>10. \A n \in Nat : n \in S
  <2> HIDE DEF S
  <2> QED
    BY <1>8, <1>9, FromZeroUp
<1>11. \A n \in 0..m : w[n] \in Nat
  BY <1>10
<1> QED
  BY <1>2, <1>5, <1>7, <1>11 DEF w, delays

LEMMA BackoffIsSum == ASSUME NEW e PROVE BackoffBefore(e) = WaitedSum(e.key)[e.attempt - 1]
  BY Zenon DEF BackoffBefore, WaitedSum, Waits

\* Before the first attempt nothing has been waited for, before the next one the delay of this one.
LEMMA BackoffSteps ==
    ASSUME NEW e \in EffectRecord, e.attempt <= MaxAttempts(e.key)
    PROVE  /\ BackoffBefore(e) \in Nat /\ e.attempt \in Nat /\ e.attempt >= 1
           /\ e.attempt = 1 => BackoffBefore(e) = 0
           /\ \A f \in EffectRecord : f.key = e.key /\ f.attempt = e.attempt => BackoffBefore(f) = BackoffBefore(e)
           /\ e.attempt < MaxAttempts(e.key) =>
                /\ Effect[e.key].delays[e.attempt] \in Nat
                /\ \A f \in EffectRecord : f.key = e.key /\ f.attempt = e.attempt + 1 =>
                       BackoffBefore(f) = BackoffBefore(e) + Effect[e.key].delays[e.attempt]
<1> DEFINE w == WaitedSum(e.key)
           delays == Effect[e.key].delays
<1>1. e.key \in EffectKeys /\ e.attempt \in Nat \ {0}
  BY DEF EffectRecord
<1>2. PICK m \in Nat : m = Len(delays)
  BY <1>1, WaitedSteps
<1>3. /\ w[0] = 0
      /\ \A n \in 1..m : delays[n] \in Nat /\ w[n] = w[n - 1] + delays[n]
      /\ \A n \in 0..m : w[n] \in Nat
  BY <1>1, <1>2, WaitedSteps
<1>4. MaxAttempts(e.key) = m + 1
  BY <1>2 DEF MaxAttempts
<1>5. \A f : f.key = e.key => BackoffBefore(f) = w[f.attempt - 1]
  BY BackoffIsSum
<1> HIDE DEF w, delays
<1>6. e.attempt - 1 \in 0..m /\ (e.attempt < m + 1 => e.attempt \in 1..m) /\ (e.attempt + 1) - 1 = e.attempt
  BY <1>1, <1>4
<1>7. BackoffBefore(e) = w[e.attempt - 1]
  BY <1>5
<1>8. ASSUME e.attempt < m + 1
      PROVE  delays[e.attempt] \in Nat /\ w[e.attempt] = w[e.attempt - 1] + delays[e.attempt]
  BY <1>3, <1>6, <1>8
<1>9. ASSUME NEW f \in EffectRecord, f.key = e.key, f.attempt = e.attempt + 1 PROVE BackoffBefore(f) = w[e.attempt]
  BY <1>5, <1>6, <1>9
<1> QED
  BY <1>1, <1>3, <1>4, <1>5, <1>6, <1>7, <1>8, <1>9 DEF delays

-------------------------------------------------------------------------------
(* Retries wait for their backoff. *)

\* The instant before which the attempt of an effect may not start: every attempt before it
\* may have read its clock up to Lag late.
Due(f) == f.first + BackoffBefore(f)
Slack(n) == Lag * n

\* An effect that is at an attempt that is due at the instant t, or waits until it is.
Paced(f, t) ==
    /\ f \in EffectRecord /\ f.attempt <= MaxAttempts(f.key)
    /\ f.status # "pending" => f.token = NoToken
    /\ f.status = "pending" /\ f.token # NoToken =>
         /\ t + Slack(f.attempt - 1) >= Due(f)
         /\ f.begun + Slack(f.attempt) >= Due(f)
    /\ f.status = "pending" /\ f.token = NoToken => f.next + Slack(f.attempt - 1) >= Due(f)
AllPaced(d, t) == \A f \in d.effects : Paced(f, t)

LEMMA LateSteps ==
    ASSUME NEW n \in Nat, n >= 1
    PROVE  /\ Slack(n) \in Nat /\ Slack(n - 1) \in Nat /\ Slack(n) = Slack(n - 1) + Lag
           /\ (n + 1) - 1 = n /\ Slack(0) = 0 /\ Lag \in Nat
<1>1. Lag \in Nat
  BY InputAssumption
<1>2. \A k \in Nat : Lag * k \in Nat
  BY <1>1
<1>3. Lag * n = Lag * (n - 1) + Lag /\ Lag * 0 = 0
  BY <1>1
<1> QED
  BY <1>1, <1>2, <1>3 DEF Slack

LEMMA PacedLater ==
    ASSUME NEW f, NEW t \in Nat, NEW u \in Nat, t <= u, Paced(f, t)
    PROVE  Paced(f, u)
<1>1. f \in EffectRecord /\ f.attempt <= MaxAttempts(f.key)
  BY DEF Paced
<1>2. BackoffBefore(f) \in Nat /\ f.attempt \in Nat /\ f.attempt >= 1
  BY <1>1, BackoffSteps
<1>3. Due(f) \in Nat /\ Slack(f.attempt - 1) \in Nat
  BY <1>1, <1>2, LateSteps DEF Due, EffectRecord
<1> QED
  BY <1>3 DEF Paced

\* What becomes of an effect whose attempt fails: its next attempt waits for the backoff.
LEMMA PacedFailure ==
    ASSUME NEW f, NEW t \in Nat, Paced(f, t), f.status = "pending", f.token # NoToken,
           NEW now \in Nat, now + Lag >= t, NEW retryable
    PROVE  Paced(AfterFailure(f, now, retryable), t)
<1> DEFINE g == AfterFailure(f, now, retryable)
<1>1. /\ f \in EffectRecord /\ f.attempt <= MaxAttempts(f.key) /\ f.first \in Nat
      /\ t + Slack(f.attempt - 1) >= Due(f)
  BY DEF Paced, EffectRecord
<1>2. BackoffBefore(f) \in Nat /\ f.attempt \in Nat /\ f.attempt >= 1
  BY <1>1, BackoffSteps
<1>3. g \in EffectRecord /\ g.attempt <= MaxAttempts(g.key) /\ g.key = f.key
  BY <1>1, AfterFailureType, AfterFailureSameActivity
<1>4. g.token = NoToken /\ g.first = f.first
  BY <1>1 DEF AfterFailure, Detached, EffectRecord
<1>5. CASE RetryGranted(f, now, retryable)
  <2> DEFINE delay == Effect[f.key].delays[f.attempt]
  <2>1. g.attempt = f.attempt + 1 /\ g.next = now + delay
    BY <1>1, <1>5 DEF AfterFailure, Detached, EffectRecord, RetryAt
  <2>2. f.attempt < MaxAttempts(f.key)
    BY <1>5 DEF RetryGranted
  <2> HIDE DEF g
  <2>3. delay \in Nat /\ BackoffBefore(g) = BackoffBefore(f) + delay
    BY <1>1, <1>3, <2>1, <2>2, BackoffSteps
  <2> HIDE DEF delay
  <2>4. /\ Slack(f.attempt) = Slack(f.attempt - 1) + Lag /\ Slack(f.attempt - 1) \in Nat
        /\ Slack(g.attempt - 1) = Slack(f.attempt) /\ Lag \in Nat
    BY <1>2, <2>1, LateSteps
  <2>5. g.next + Slack(g.attempt - 1) >= Due(g)
    BY <1>1, <1>2, <1>4, <2>1, <2>3, <2>4 DEF Due
  <2>6. Paced(g, t)
    BY <1>3, <1>4, <2>5 DEF Paced
  <2> QED
    BY <2>6 DEF g
<1>6. CASE ~ RetryGranted(f, now, retryable)
  <2>1. g.status = "failed"
    BY <1>1, <1>6 DEF AfterFailure, Detached, EffectRecord
  <2> HIDE DEF g
  <2>2. Paced(g, t)
    BY <1>3, <1>4, <2>1 DEF Paced
  <2> QED
    BY <2>2 DEF g
<1> QED
  BY <1>5, <1>6

\* What becomes of an effect that has completed, of one whose attempt has a heartbeat, and of a
\* failure of a checkpoint activity.
LEMMA PacedSettled ==
    ASSUME NEW f, NEW t \in Nat, Paced(f, t), f.status = "pending", f.token # NoToken, NEW now \in Nat
    PROVE  /\ Paced([Detached(f) EXCEPT !.status = "completed", !.next = 0], t)
           /\ Paced([f EXCEPT !.hb = Deadline(now, Effect[f.key].hb)], t)
<1>1. f \in EffectRecord /\ f.key \in EffectKeys /\ f.attempt <= MaxAttempts(f.key)
  BY DEF Paced, EffectRecord
<1> DEFINE g  == [Detached(f) EXCEPT !.status = "completed", !.next = 0]
           hb == Deadline(now, Effect[f.key].hb)
           h  == [f EXCEPT !.hb = hb]
<1>2. hb \in Nat
  BY <1>1, EffectAssumption DEF Deadline, EffectOptions
<1> HIDE DEF hb
<1>3. g \in EffectRecord /\ g.key = f.key /\ g.attempt = f.attempt /\ g.token = NoToken /\ g.status = "completed"
  BY <1>1, NoTokenType DEF Detached, EffectRecord
<1>4. /\ h \in EffectRecord /\ h.key = f.key /\ h.attempt = f.attempt /\ h.token = f.token
      /\ h.status = f.status /\ h.begun = f.begun /\ h.first = f.first
  BY <1>1, <1>2 DEF EffectRecord
<1> HIDE DEF g, h
<1>5. Paced(g, t)
  BY <1>1, <1>3 DEF Paced
<1>6. BackoffBefore(h) = BackoffBefore(f)
  BY <1>1, <1>4, BackoffSteps
<1>7. Paced(h, t)
  BY <1>1, <1>4, <1>6 DEF Paced, Due
<1> QED
  BY <1>5, <1>7 DEF g, h, hb

LEMMA PacedFailureRecord ==
    ASSUME NEW a \in Activation, NEW key \in EffectKeys, NEW t
    PROVE  Paced(FailureRecord(a, key), t)
<1> DEFINE f == FailureRecord(a, key)
<1>1. f \in EffectRecord /\ f.attempt = 1 /\ f.key = key /\ f.token = NoToken /\ f.status = "failed"
  BY NoTokenType DEF FailureRecord, EffectRecord
<1>2. MaxAttempts(key) \in Nat /\ MaxAttempts(key) >= 1
  BY EffectAssumption DEF MaxAttempts, EffectOptions
<1> HIDE DEF f
<1>3. Paced(f, t)
  BY <1>1, <1>2 DEF Paced
<1> QED
  BY <1>3 DEF f

\* The effect of an attempt that begins: the first of the activity, or one that was due, or that
\* takes the place of an attempt nobody heard of.
LEMMA PacedReserve ==
    ASSUME NEW d \in Tables, NEW t \in Nat, AllPaced(d, t), NEW a \in Activation, NEW key \in EffectKeys,
           NEW token \in Token, token # NoToken, NEW now \in Nat, now <= t, now + Lag >= t,
           \A e \in EffectFor(d, a, key) : e.status = "pending" /\ e.next <= now
    PROVE  AllPaced(Reserve(d, a, key, token, now), t)
<1> DEFINE old == EffectFor(d, a, key)
           o   == CHOOSE e \in old : TRUE
           attempt == IF old = {} THEN 1 ELSE o.attempt
           first   == IF old = {} THEN now ELSE o.first
           f == [act |-> a, key |-> key, status |-> "pending", attempt |-> attempt, token |-> token,
                 begun |-> now, start |-> Deadline(now, Effect[key].start),
                 hb |-> Deadline(now, Effect[key].hb), first |-> first, next |-> 0]
           e == Reserve(d, a, key, token, now)
<1>1. old # {} => o \in d.effects /\ o.key = key /\ o.status = "pending" /\ o.next <= now
  BY DEF EffectFor, EffectsOf
<1>2. old # {} => Paced(o, t) /\ o \in EffectRecord /\ o.attempt <= MaxAttempts(key)
  BY <1>1 DEF AllPaced, Paced
<1>3. MaxAttempts(key) \in Nat /\ MaxAttempts(key) >= 1
  BY EffectAssumption DEF MaxAttempts, EffectOptions
<1> HIDE DEF old, o
<1>4. attempt \in Nat \ {0} /\ first \in Nat /\ attempt <= MaxAttempts(key)
  BY <1>2, <1>3 DEF EffectRecord
<1>5. Deadline(now, Effect[key].start) \in Nat /\ Deadline(now, Effect[key].hb) \in Nat
  BY EffectAssumption DEF Deadline, EffectOptions
<1>6. e = [d EXCEPT !.effects = (d.effects \ old) \cup {f}]
  BY DEF Reserve, old, o
<1> HIDE DEF attempt, first
<1>7. /\ f \in EffectRecord /\ f.key = key /\ f.attempt = attempt /\ f.token = token
      /\ f.status = "pending" /\ f.begun = now /\ f.first = first
  BY <1>4, <1>5 DEF EffectRecord
<1> HIDE DEF e, f
<1>8. e.effects = (d.effects \ old) \cup {f}
  BY <1>6 DEF Tables
<1>9. /\ Slack(attempt) = Slack(attempt - 1) + Lag /\ Slack(attempt - 1) \in Nat /\ Lag \in Nat
      /\ attempt \in Nat /\ Slack(attempt) \in Nat
  BY <1>4, LateSteps
<1>10. BackoffBefore(f) \in Nat /\ Due(f) = first + BackoffBefore(f)
  BY <1>4, <1>7, BackoffSteps DEF Due
<1>11. t + Slack(attempt - 1) >= Due(f) /\ now + Slack(attempt) >= Due(f)
  <2>1. CASE old = {}
    <3>1. attempt = 1 /\ first = now
      BY <2>1 DEF attempt, first
    <3>2. BackoffBefore(f) = 0
      BY <1>4, <1>7, <3>1, BackoffSteps
    <3> QED
      BY <1>9, <1>10, <3>1, <3>2
  <2>2. CASE old # {}
    <3>1. attempt = o.attempt /\ first = o.first
      BY <2>2 DEF attempt, first
    <3>2. BackoffBefore(f) = BackoffBefore(o)
      BY <1>1, <1>2, <1>4, <1>7, <2>2, <3>1, BackoffSteps
    <3>3. Due(f) = Due(o) /\ Due(f) \in Nat
      BY <1>4, <1>10, <3>1, <3>2 DEF Due
    <3>4. CASE o.token # NoToken
      <4>1. t + Slack(attempt - 1) >= Due(f)
        BY <1>1, <1>2, <2>2, <3>1, <3>3, <3>4 DEF Paced
      <4> QED
        BY <1>9, <3>3, <4>1
    <3>5. CASE o.token = NoToken
      <4>1. o.next + Slack(attempt - 1) >= Due(f) /\ o.next <= now /\ o.next \in Nat
        BY <1>1, <1>2, <2>2, <3>1, <3>3, <3>5 DEF Paced, EffectRecord
      <4> QED
        BY <1>9, <3>3, <4>1
    <3> QED
      BY <3>4, <3>5
  <2> QED
    BY <2>1, <2>2
<1>12. Paced(f, t)
  BY <1>4, <1>7, <1>11 DEF Paced
<1>13. AllPaced(e, t)
  BY <1>8, <1>12 DEF AllPaced
<1> QED
  BY <1>13 DEF e

-------------------------------------------------------------------------------
(* What a step makes of effects that are paced. *)

LEMMA FewerPaced ==
    ASSUME NEW d, NEW e, NEW t, AllPaced(d, t), e.effects \subseteq d.effects
    PROVE  AllPaced(e, t)
  BY DEF AllPaced

\* Every effect of e is one of d, or what a failure at `now` makes of an attempt of d that is late.
OrFailed(d, e, now) ==
    \A f \in e.effects :
        \/ f \in d.effects
        \/ \E x \in d.effects : Late(x, now) /\ f = AfterFailure(x, now, TRUE)

LEMMA ExpireTimeoutsOutcome ==
    ASSUME NEW d \in Tables, NEW A, NEW now
    PROVE  OrFailed(d, ExpireTimeouts(d, A, now), now)
<1> DEFINE late == {e \in d.effects : e.act \in A /\ Late(e, now)}
           last(a) == {e \in late : e.act = a /\ \A o \in late : o.act = a => o.key <= e.key}
           freed == {t \in d.tasks : \E e \in late : e.act = t.act}
           blocked == [t \in freed |-> IF last(t.act) = {} THEN 0
                                       ELSE BlockedAfter(CHOOSE e \in last(t.act) : TRUE, now, TRUE)]
           d1 == Freed(d, freed, blocked)
           E  == {IF e \in late THEN AfterFailure(e, now, TRUE) ELSE e : e \in d1.effects}
           e  == ExpireTimeouts(d, A, now)
<1>1. e = [d1 EXCEPT !.effects = E]
  BY DEF ExpireTimeouts
<1>2. d1.effects = d.effects /\ "effects" \in DOMAIN d1
  BY DEF Freed, Tables
<1> HIDE DEF blocked, freed, d1
<1>3. \A x \in late : Late(x, now)
  OBVIOUS
<1> HIDE DEF late
<1>4. e.effects = E
  <2> HIDE DEF e, E
  <2> QED
    BY <1>1, <1>2
<1> HIDE DEF e
<1>5. \A f \in e.effects : \E x \in d.effects : f = IF x \in late THEN AfterFailure(x, now, TRUE) ELSE x
  BY <1>2, <1>4
<1>6. OrFailed(d, e, now)
  BY <1>3, <1>5 DEF OrFailed
<1> QED
  BY <1>6 DEF e

LEMMA PacedTimeouts ==
    ASSUME NEW d \in Tables, NEW t \in Nat, AllPaced(d, t), NEW A, NEW now \in Nat, now + Lag >= t
    PROVE  AllPaced(ExpireTimeouts(d, A, now), t)
<1>1. PICK e : e = ExpireTimeouts(d, A, now)
  OBVIOUS
<1>2. ASSUME NEW f \in e.effects PROVE Paced(f, t)
  <2>1. CASE f \in d.effects
    BY <2>1 DEF AllPaced
  <2>2. ASSUME NEW x \in d.effects, Late(x, now), f = AfterFailure(x, now, TRUE)
        PROVE  Paced(f, t)
    <3>1. Paced(x, t) /\ x.status = "pending" /\ x.token # NoToken
      BY <2>2 DEF AllPaced, Late
    <3> QED
      BY <2>2, <3>1, PacedFailure
  <2>3. OrFailed(d, e, now)
    BY <1>1, ExpireTimeoutsOutcome
  <2> QED
    BY <1>2, <2>1, <2>2, <2>3 DEF OrFailed
<1>3. AllPaced(e, t)
  BY <1>2 DEF AllPaced
<1> QED
  BY <1>1, <1>3

\* An attempt that ends, or tells that it goes on.
LEMMA PacedAttempt ==
    ASSUME NEW d \in Tables, NEW t \in Nat, AllPaced(d, t), NEW f \in d.effects,
           f.status = "pending", f.token # NoToken, NEW now \in Nat, now + Lag >= t
    PROVE  /\ AllPaced(Complete(d, f), t) /\ AllPaced(Beat(d, f, now), t)
           /\ \A retryable : AllPaced(Fail(d, f, now, retryable), t)
<1>1. Paced(f, t)
  BY DEF AllPaced
<1>2. ASSUME NEW e, NEW g, Paced(g, t), e.effects = (d.effects \ {f}) \cup {g} PROVE AllPaced(e, t)
  BY <1>2 DEF AllPaced
<1>3. AllPaced(Complete(d, f), t)
  <2> DEFINE g == [Detached(f) EXCEPT !.status = "completed", !.next = 0]
             e == Complete(d, f)
  <2>1. Paced(g, t)
    BY <1>1, PacedSettled
  <2>2. e = [d EXCEPT !.effects = (d.effects \ {f}) \cup {g}]
    BY DEF Complete
  <2> HIDE DEF g, e
  <2>3. e.effects = (d.effects \ {f}) \cup {g}
    BY <2>2 DEF Tables
  <2>4. AllPaced(e, t)
    BY <1>2, <2>1, <2>3
  <2> QED
    BY <2>4 DEF e
<1>4. AllPaced(Beat(d, f, now), t)
  <2> DEFINE g == [f EXCEPT !.hb = Deadline(now, Effect[f.key].hb)]
             e == Beat(d, f, now)
  <2>1. Paced(g, t)
    BY <1>1, PacedSettled
  <2>2. e = [d EXCEPT !.effects = (d.effects \ {f}) \cup {g}]
    BY DEF Beat
  <2> HIDE DEF g, e
  <2>3. e.effects = (d.effects \ {f}) \cup {g}
    BY <2>2 DEF Tables
  <2>4. AllPaced(e, t)
    BY <1>2, <2>1, <2>3
  <2> QED
    BY <2>4 DEF e
<1>5. ASSUME NEW retryable PROVE AllPaced(Fail(d, f, now, retryable), t)
  <2> DEFINE g  == AfterFailure(f, now, retryable)
             d1 == [d EXCEPT !.effects = (d.effects \ {f}) \cup {g}]
             T  == TasksOfActivation(d1, f.act)
             e  == Fail(d, f, now, retryable)
  <2>1. Paced(g, t)
    BY <1>1, PacedFailure
  <2>2. e = Freed(d1, T, [x \in T |-> BlockedAfter(f, now, retryable)])
    BY DEF Fail
  <2> HIDE DEF g, e
  <2>3. e.effects = (d.effects \ {f}) \cup {g}
    BY <2>2 DEF Freed, Tables
  <2>4. AllPaced(e, t)
    BY <1>2, <2>1, <2>3
  <2> QED
    BY <2>4 DEF e
<1> QED
  BY <1>3, <1>4, <1>5

LEMMA PacedRecords ==
    ASSUME NEW d, NEW e, NEW t, AllPaced(d, t), NEW a \in Activation, NEW keys \in SUBSET EffectKeys,
           \A f \in e.effects : f \in d.effects \/ f \in FailureRecords(a, keys)
    PROVE  AllPaced(e, t)
<1>1. \A f \in FailureRecords(a, keys) : Paced(f, t)
  BY PacedFailureRecord DEF FailureRecords
<1> QED
  BY <1>1 DEF AllPaced

\* Clients forget effects at most.
LEMMA ClientsForget ==
    ASSUME TypeOK, StartsOrSignals
    PROVE  db'.effects \subseteq db.effects
<1>1. db \in Tables /\ Instants \subseteq Nat
  BY InstantsType DEF TypeOK
<1>2. ASSUME NEW e \in Tables, NEW in, in.ref \in Refs, in.version \in Versions, NEW now \in Instants,
             e = CreateInstance(db, in.ref, in.version, Materialize(InitialWaits[in.ref[1]], now, now), now)
      PROVE  e.effects \subseteq db.effects
  <2> DEFINE W == Materialize(InitialWaits[in.ref[1]], now, now)
  <2>1. W \in SUBSET Wait /\ in.version \in Nat /\ now \in Nat
    BY <1>1, <1>2, InitialWaitsType, NumberAssumption
  <2>2. e = CreateInstance(db, in.ref, in.version, W, now)
    BY <1>2
  <2> HIDE DEF W
  <2>3. e.effects = EffectsBut(db, in.ref)
    BY <1>1, <1>2, <2>1, <2>2, CreateInstanceEffects
  <2> QED
    BY <2>3 DEF EffectsBut
<1>3. ASSUME NEW now \in Instants, NEW in \in ClientStarts, StartWorkflow(in, now)
      PROVE  db'.effects \subseteq db.effects
  <2>1. in.ref \in Refs /\ in.version \in Versions
    BY InputAssumption
  <2>2. db' = CreateInstance(db, in.ref, in.version, Materialize(InitialWaits[in.ref[1]], now, now), now)
    BY <1>3 DEF StartWorkflow
  <2>3. db' \in Tables
    BY <1>1, <2>1, <2>2, StartArrives DEF Begun
  <2> QED
    BY <1>2, <2>1, <2>2, <2>3
<1>4. ASSUME NEW now \in Instants, NEW in \in Appends, Signals(in, now) PROVE db'.effects = db.effects
  <2>1. in.ref \in Refs /\ in.type \in SignalTypes /\ in.key \in Keys \cup {NoKey}
    BY InputAssumption
  <2> QED
    BY <1>1, <1>4, <2>1, AppendSignalEffects DEF Signals
<1>5. ASSUME NEW now \in Instants, NEW in \in SendStarts, StartSendSignal(in, now)
      PROVE  db'.effects \subseteq db.effects
  <2>1. /\ in.ref \in Refs /\ in.version \in Versions
        /\ in.type \in SignalTypes /\ in.key \in Keys \cup {NoKey}
    BY InputAssumption
  <2>2. ASSUME NEW r \in Refs, db' = AppendSignal(db, r, in.type, in.key, now) PROVE db'.effects = db.effects
    BY <1>1, <2>1, <2>2, AppendSignalEffects
  <2>3. CASE SendToTarget(in, now)
    BY <2>1, <2>2, <2>3 DEF SendToTarget
  <2>4. CASE SendToRunning(in, now)
    BY <2>2, <2>4 DEF SendToRunning, LatestRunning, LastOf, RunsOf
  <2>5. CASE SendAndStart(in, now)
    <3> DEFINE e == CreateInstance(db, in.ref, in.version, Materialize(InitialWaits[in.ref[1]], now, now), now)
    <3>1. db' = AppendSignal(e, in.ref, in.type, in.key, now)
      BY <2>5 DEF SendAndStart
    <3>2. e \in Tables
      BY <1>1, <2>1, StartArrives DEF Begun
    <3>3. e.effects \subseteq db.effects
      BY <1>2, <2>1, <3>2
    <3> HIDE DEF e
    <3>4. db'.effects = e.effects
      BY <1>1, <2>1, <3>1, <3>2, AppendSignalEffects
    <3> QED
      BY <3>3, <3>4
  <2> QED
    BY <1>5, <2>3, <2>4, <2>5 DEF StartSendSignal
<1> QED
  BY <1>3, <1>4, <1>5 DEF StartsOrSignals

\* The effects after the timeouts that a call expires.
LEMMA PacedExpired ==
    ASSUME TypeOK, AllPaced(db, clock), NEW A, NEW now \in Instants
    PROVE  AllPaced(ExpireTimeouts(db, A, now), clock) /\ ExpireTimeouts(db, A, now) \in Tables
<1>1. db \in Tables /\ clock \in Nat /\ now \in Nat /\ now + Lag >= clock
  BY InstantsType DEF TypeOK, Instants
<1>2. PICK t \in Nat : t = clock
  BY <1>1
<1>3. PICK d \in Tables : d = db
  BY <1>1
<1>4. AllPaced(d, t) /\ now + Lag >= t
  BY <1>1, <1>2, <1>3
<1>5. AllPaced(ExpireTimeouts(d, A, now), t) /\ ExpireTimeouts(d, A, now) \in Tables
  BY <1>1, <1>4, PacedTimeouts, ExpireTimeoutsEffects
<1> QED
  BY <1>2, <1>3, <1>5

LEMMA PacedReservation ==
    ASSUME Inv, AllPaced(db, clock), NEW c \in held, NEW now \in Instants, NEW key \in EagerKeys,
           ReserveEffect(c, key, now)
    PROVE  AllPaced(db', clock)
<1> DEFINE d1 == ExpireTimeouts(db, Expirable(db, c.worker, now), now)
           open == \A e \in EffectFor(d1, c.act, key) : e.status = "pending" /\ e.next <= now
           token(n) == [n |-> n, worker |-> c.worker]
<1>1. /\ TypeOK /\ clock \in Nat /\ now \in Nat /\ now <= clock /\ now + Lag >= clock
      /\ c \in Claim /\ c.act \in Activation /\ c.worker \in Workers /\ key \in EffectKeys
  BY InstantsType, InputAssumption DEF Inv, TypeOK, Instants, Claim
<1>2. \/ open /\ \E n \in FreshIds : db' = Reserve(d1, c.act, key, token(n), now)
      \/ db' = d1
  BY DEF ReserveEffect
<1>3. \A n \in FreshIds : token(n) \in Token /\ token(n) # NoToken
  BY <1>1, InputAssumption DEF FreshIds, Token, NoToken
<1> HIDE DEF d1, token
<1>4. AllPaced(d1, clock) /\ d1 \in Tables
  BY <1>1, PacedExpired DEF d1
<1>5. ASSUME NEW n \in FreshIds, open, db' = Reserve(d1, c.act, key, token(n), now) PROVE AllPaced(db', clock)
  <2>1. PICK t \in Nat : t = clock
    BY <1>1
  <2>2. AllPaced(d1, t) /\ now <= t /\ now + Lag >= t
    BY <1>1, <1>4, <2>1
  <2>3. AllPaced(Reserve(d1, c.act, key, token(n), now), t)
    BY <1>1, <1>3, <1>4, <1>5, <2>2, PacedReserve
  <2> QED
    BY <1>5, <2>1, <2>3
<1> QED
  BY <1>2, <1>4, <1>5

LEMMA PacedActivity ==
    ASSUME Inv, TokensReal, AllPaced(db, clock), NEW x \in attempts, Activity(x)
    PROVE  AllPaced(db', clock)
<1>1. PICK now \in Instants : \/ HeartbeatEffect(x, now)
                              \/ CompleteEffect(x, now)
                              \/ \E retryable \in BOOLEAN : FailEffect(x, retryable, now)
  BY DEF Activity
<1> DEFINE d1 == ExpireTimeouts(db, Expirable(db, x.token.worker, now), now)
           E  == PendingAttempt(d1, x.act, x.key, x.token)
           e  == CHOOSE y \in E : TRUE
<1>2. TypeOK /\ clock \in Nat /\ now \in Nat /\ now + Lag >= clock /\ x.token # NoToken
  BY InstantsType DEF Inv, TypeOK, Instants, TokensReal, NoToken
<1>3. \/ db' = IF E = {} THEN d1 ELSE Beat(d1, e, now)
      \/ db' = IF E = {} THEN d1 ELSE Complete(d1, e)
      \/ \E retryable \in BOOLEAN : db' = IF E = {} THEN d1 ELSE Fail(d1, e, now, retryable)
  BY <1>1 DEF HeartbeatEffect, CompleteEffect, FailEffect
<1> HIDE DEF d1
<1>4. AllPaced(d1, clock) /\ d1 \in Tables
  BY <1>2, PacedExpired DEF d1
<1>5. E # {} => e \in d1.effects /\ e.status = "pending" /\ e.token # NoToken
  BY <1>2 DEF PendingAttempt, EffectFor, EffectsOf
<1> HIDE DEF E, e
<1>6. ASSUME E # {}
      PROVE  /\ AllPaced(Complete(d1, e), clock) /\ AllPaced(Beat(d1, e, now), clock)
             /\ \A retryable : AllPaced(Fail(d1, e, now, retryable), clock)
  <2>1. PICK t \in Nat : t = clock
    BY <1>2
  <2>2. AllPaced(d1, t) /\ now + Lag >= t
    BY <1>2, <1>4, <2>1
  <2>3. /\ AllPaced(Complete(d1, e), t) /\ AllPaced(Beat(d1, e, now), t)
        /\ \A retryable : AllPaced(Fail(d1, e, now, retryable), t)
    BY <1>2, <1>4, <1>5, <1>6, <2>2, PacedAttempt
  <2> QED
    BY <2>1, <2>3
<1> QED
  BY <1>3, <1>4, <1>6

\* Every step keeps the effects paced.
LEMMA PacedStep ==
    ASSUME Inv, HeldStarts, TokensReal, AllPaced(db, clock), [Next]_vars
    PROVE  AllPaced(db', clock')
<1>1. TypeOK /\ clock \in Nat /\ db \in Tables
  BY DEF Inv, TypeOK
<1>2. ASSUME db'.effects \subseteq db.effects PROVE AllPaced(db', clock)
  BY <1>2, FewerPaced
<1>3. ASSUME clock' = clock, AllPaced(db', clock) PROVE AllPaced(db', clock')
  BY <1>3
<1>4. CASE Clients
  <2>1. StartsOrSignals /\ clock' = clock
    BY <1>4 DEF Clients, StartsOrSignals, StartWorkflow, Signals, StartSendSignal
  <2> QED
    BY <1>1, <1>2, <1>3, <2>1, ClientsForget
<1>5. ASSUME NEW w \in alive, NEW s \in Shards, Shard(w, s) PROVE clock' = clock /\ AllPaced(db', clock)
  <2>1. CASE ReleaseShard(w, s)
    BY <1>2, <2>1 DEF ReleaseShard
  <2>2. ASSUME NEW now \in Instants, ClaimShard(w, s, now) \/ HeartbeatShard(w, s, now)
        PROVE  clock' = clock /\ AllPaced(db', clock)
    BY <1>2, <2>2 DEF ClaimShard, HeartbeatShard
  <2>3. ASSUME NEW now \in Instants, ClaimTasks(w, s, now) PROVE clock' = clock /\ AllPaced(db', clock)
    <3>1. clock' = clock
      BY <2>3 DEF ClaimTasks
    <3>2. PICK A : db'.effects = ExpireTimeouts(db, A, now).effects
      BY <2>3, ClaimTasksEffects
    <3>3. AllPaced(ExpireTimeouts(db, A, now), clock)
      BY <1>1, PacedExpired
    <3>4. AllPaced(db', clock)
      BY <3>2, <3>3 DEF AllPaced
    <3> QED
      BY <3>1, <3>4
  <2> QED
    BY <1>5, <2>1, <2>2, <2>3 DEF Shard
<1>6. ASSUME NEW c \in held, Settles(c) PROVE clock' = clock /\ AllPaced(db', clock)
  <2>1. CASE ReleaseClaim(c) \/ HandlerFails(c)
    <3> DEFINE T == {t \in TasksOfActivation(db, c.act) : t.owner = c.worker}
    <3>1. db' = Freed(db, T, [t \in T |-> t.blocked]) /\ clock' = clock
      BY <2>1 DEF ReleaseClaim, HandlerFails
    <3> HIDE DEF T
    <3>2. db'.effects = db.effects
      BY <1>1, <3>1 DEF Freed, Tables
    <3> QED
      BY <1>2, <3>1, <3>2
  <2>2. ASSUME NEW now \in Instants, CommitRefused(c, now) \/ CommitRejected(c, now)
        PROVE  clock' = clock /\ db' = db
    BY <2>2 DEF CommitRefused, CommitRejected
  <2>3. ASSUME NEW now \in Instants, NEW res \in Results(c), Commit(c, res, now)
        PROVE  clock' = clock /\ AllPaced(db', clock)
    <3>1. Commits /\ clock' = clock
      BY <2>3 DEF Commit, Commits
    <3>2. PICK b \in held : \A f \in db'.effects : f \in db.effects \/ f \in FailureRecords(b.act, b.failed)
      BY <3>1, CommitLedger
    <3>3. b.act \in Activation /\ b.failed \in SUBSET EffectKeys
      BY <1>1, InputAssumption DEF TypeOK, Claim
    <3>4. AllPaced(db', clock)
      BY <3>2, <3>3, PacedRecords
    <3> QED
      BY <3>1, <3>4
  <2> QED
    BY <1>2, <1>6, <2>1, <2>2, <2>3 DEF Settles
<1>7. ASSUME NEW c \in held, Handler(c) PROVE clock' = clock /\ AllPaced(db', clock)
  <2>1. ASSUME NEW start \in c.starts, CancelBuffered(c, start) PROVE clock' = clock /\ db' = db
    BY <2>1 DEF CancelBuffered
  <2>2. ASSUME NEW k \in CheckpointKeys, FailLocally(c, k) PROVE clock' = clock /\ db' = db
    BY <2>2 DEF FailLocally
  <2>3. ASSUME NEW now \in Instants, NEW start, BufferStart(c, start, now) PROVE clock' = clock /\ db' = db
    BY <2>3 DEF BufferStart
  <2>4. ASSUME NEW k \in CheckpointKeys, NEW release \in BOOLEAN, RecordActivationFailure(c, k, release)
        PROVE  clock' = clock /\ AllPaced(db', clock)
    <3>1. db' = RecordFailures(db, c.act, {k}, release) /\ clock' = clock
      BY <2>4 DEF RecordActivationFailure
    <3>2. c.act \in Activation /\ {k} \in SUBSET EffectKeys
      BY <1>1, InputAssumption DEF TypeOK, Claim
    <3>3. \A f \in db'.effects : f \in db.effects \/ f \in FailureRecords(c.act, {k})
      BY <1>1, <3>1, RecordFailuresEffects
    <3>4. AllPaced(db', clock)
      BY <3>2, <3>3, PacedRecords
    <3> QED
      BY <3>1, <3>4
  <2>5. ASSUME NEW now \in Instants, NEW start \in At(EagerStarts, c), CreateChild(c, start, now)
        PROVE  clock' = clock /\ AllPaced(db', clock)
    <3>1. Creates /\ clock' = clock
      BY <2>5 DEF CreateChild, Creates
    <3> QED
      BY <1>1, <1>2, <3>1, CreateLedger DEF ForgetsAbsent
  <2>6. ASSUME NEW now \in Instants, NEW r \in Refs, CancelChild(c, r, now)
        PROVE  clock' = clock /\ AllPaced(db', clock)
    <3>1. c.act.ref \in Refs /\ now \in Nat
      BY <1>1, InstantsType, ClaimFields DEF TypeOK
    <3>2. db' = CancelChildRun(db, c.act.ref, r, now) /\ clock' = clock
      BY <2>6 DEF CancelChild
    <3>3. db'.effects = db.effects
      BY <1>1, <3>1, <3>2, CancelChildRunEffects
    <3> QED
      BY <1>2, <3>2, <3>3
  <2>7. ASSUME NEW now \in Instants, NEW key \in EagerKeys, ReserveEffect(c, key, now)
        PROVE  clock' = clock /\ AllPaced(db', clock)
    <3>1. clock' = clock
      BY <2>7 DEF ReserveEffect
    <3> QED
      BY <2>7, <3>1, PacedReservation
  <2> QED
    BY <1>2, <1>7, <2>1, <2>2, <2>3, <2>4, <2>5, <2>6, <2>7 DEF Handler
<1>8. ASSUME NEW x \in attempts, Activity(x) PROVE clock' = clock /\ AllPaced(db', clock)
  <2>1. clock' = clock
    BY <1>8 DEF Activity, HeartbeatEffect, CompleteEffect, FailEffect
  <2> QED
    BY <1>8, <2>1, PacedActivity
<1>9. CASE \E w \in Workers : Crash(w)
  BY <1>2, <1>3, <1>9 DEF Crash
<1>10. CASE Tick
  <2>1. db' = db /\ clock' \in Nat /\ clock <= clock'
    BY <1>1, <1>10 DEF Tick
  <2> QED
    BY <1>1, <2>1, PacedLater DEF AllPaced
<1>11. CASE UNCHANGED vars
  BY <1>11 DEF vars
<1> QED
  BY <1>3, <1>4, <1>5, <1>6, <1>7, <1>8, <1>9, <1>10, <1>11 DEF Next

\* Every attempt begins, by the clock of the worker that reserves it, no earlier than its
\* activity was first attempted and all the backoffs before it are over, but for the Lag of the
\* clocks that the attempts before it and its own were read from.
RetryWaitsUpToLag ==
    \A e \in db.effects : e.token # NoToken => e.begun + Lag * e.attempt >= e.first + BackoffBefore(e)

\* An activity is not attempted again before the backoffs of its attempts are over, whether they
\* failed, ran into a timeout or were lost with a claim, on whichever worker the next one runs:
\* between workers whose clocks differ by Lag an attempt is early by Lag for every attempt there
\* was, and no more (retry_or_fail_effect, get_or_reserve_effect).
THEOREM RetryWaitsUpToLagHolds ==
    ASSUME RuntimeStarts, NoSelfStart PROVE Spec => []RetryWaitsUpToLag
<1> DEFINE Paces == TokensReal /\ AllPaced(db, clock)
<1>1. Init => Paces
  BY DEF Init, EmptyTables, TokensReal, AllPaced
<1>2. ASSUME BaseInv, Paces, [Next]_vars PROVE Paces'
  <2>1. Inv /\ HeldStarts
    BY <1>2 DEF BaseInv, WorkInv
  <2> QED
    BY <1>2, <2>1, TokensRealStep, PacedStep
<1>3. ASSUME BaseInv, Paces PROVE RetryWaitsUpToLag
  <2>1. \A e \in db.effects : e.token # NoToken => e.begun + Slack(e.attempt) >= Due(e)
    BY <1>3 DEF AllPaced, Paced
  <2> QED
    BY <2>1 DEF RetryWaitsUpToLag, Slack, Due
<1> HIDE DEF Paces
<1>4. BaseInv /\ Paces /\ [Next]_vars => Paces'
  BY <1>2
<1>5. BaseInv /\ Paces => RetryWaitsUpToLag
  BY <1>3
<1> QED
  BY <1>1, <1>4, <1>5, BaseHolds, PTL DEF Spec

\* When the workers read one clock, no attempt begins before the backoffs of the attempts before
\* it are over.
THEOREM RetryWaitsHolds ==
    ASSUME RuntimeStarts, NoSelfStart, Lag = 0 PROVE Spec => []RetryWaits
<1>1. ASSUME TypeOK, RetryWaitsUpToLag PROVE RetryWaits
  <2> SUFFICES ASSUME NEW e \in db.effects, e.token # NoToken PROVE e.begun >= e.first + BackoffBefore(e)
    BY DEF RetryWaits
  <2>1. e.begun \in Nat /\ e.attempt \in Nat /\ e.begun + Lag * e.attempt >= e.first + BackoffBefore(e)
    BY <1>1 DEF RetryWaitsUpToLag, TypeOK, Tables, EffectRecord
  <2>2. Lag * e.attempt = 0
    BY <2>1
  <2> QED
    BY <2>1, <2>2
<1>2. BaseInv /\ RetryWaitsUpToLag => RetryWaits
  BY <1>1 DEF BaseInv, WorkInv, Inv
<1> QED
  BY <1>2, BaseHolds, RetryWaitsUpToLagHolds, PTL
-------------------------------------------------------------------------------
(* Attempts are spent by failures. *)

\* The effect f is g at the same attempt, or g after the failure of its attempt.
SameActivity(f, g) == f.act = g.act /\ f.key = g.key
Goes(f, g) ==
    /\ SameActivity(f, g) /\ f.attempt = g.attempt
    /\ f.status \in {"pending", "failed"} => g.status = f.status
Spends(f, g) ==
    /\ SameActivity(f, g) /\ g.status = "pending" /\ g.token # NoToken
    /\ f.attempt = IF f.status = "failed" THEN g.attempt ELSE g.attempt + 1
Over(g) == (\E now \in Instants : Late(g, now)) \/ Ends(g)

\* Where an effect comes from: it was there, or its attempt is over, or it is the failure of a
\* checkpoint activity, or the first attempt of its activity.
Follows(f) ==
    \/ \E g \in db.effects : Goes(f, g) \/ (Spends(f, g) /\ Over(g))
    \/ f.key \in CheckpointKeys /\ f.status = "failed"
    \/ f.key \in EagerKeys /\ \A g \in db.effects : ~ SameActivity(f, g)
AllFollow(e) == \A f \in e.effects : Follows(f)

LEMMA FailureSpends ==
    ASSUME NEW g \in EffectRecord, g.status = "pending", g.token # NoToken, NEW now, NEW retryable
    PROVE  Spends(AfterFailure(g, now, retryable), g)
<1>1. CASE RetryGranted(g, now, retryable)
  BY <1>1 DEF AfterFailure, Detached, EffectRecord, Spends, SameActivity
<1>2. CASE ~ RetryGranted(g, now, retryable)
  BY <1>2 DEF AfterFailure, Detached, EffectRecord, Spends, SameActivity
<1> QED
  BY <1>1, <1>2

LEMMA FewerFollow ==
    ASSUME NEW e, \A f \in e.effects : f \in db.effects \/ (f.key \in CheckpointKeys /\ f.status = "failed")
    PROVE  AllFollow(e)
  BY DEF AllFollow, Follows, Goes, SameActivity

\* The effects after the timeouts that a call expires: one for each there was, and those that
\* have an attempt are as they were.
LEMMA TimeoutsFollow ==
    ASSUME db \in Tables, NEW A, NEW now \in Instants
    PROVE  LET e == ExpireTimeouts(db, A, now)
           IN  /\ e \in Tables
               /\ \A f \in e.effects : f \in db.effects \/ f.token = NoToken
               /\ \A f \in e.effects : \E g \in db.effects : Goes(f, g) \/ (Spends(f, g) /\ Over(g))
               /\ \A g \in db.effects : \E f \in e.effects : SameActivity(f, g)
<1> DEFINE late == {e \in db.effects : e.act \in A /\ Late(e, now)}
           last(a) == {e \in late : e.act = a /\ \A o \in late : o.act = a => o.key <= e.key}
           freed == {t \in db.tasks : \E e \in late : e.act = t.act}
           blocked == [t \in freed |-> IF last(t.act) = {} THEN 0
                                       ELSE BlockedAfter(CHOOSE e \in last(t.act) : TRUE, now, TRUE)]
           d1 == Freed(db, freed, blocked)
           after(x) == IF x \in late THEN AfterFailure(x, now, TRUE) ELSE x
           E  == {after(x) : x \in d1.effects}
           e  == ExpireTimeouts(db, A, now)
<1>1. e = [d1 EXCEPT !.effects = E]
  BY DEF ExpireTimeouts
<1>2. d1.effects = db.effects /\ "effects" \in DOMAIN d1
  BY DEF Freed, Tables
<1> HIDE DEF blocked, freed, d1
<1>3. ASSUME NEW x \in db.effects
      PROVE  Goes(after(x), x) \/ (Spends(after(x), x) /\ Over(x))
  <2>1. CASE x \in late
    <3>1. x \in EffectRecord /\ x.status = "pending" /\ x.token # NoToken /\ Over(x)
      BY <2>1 DEF Tables, Late, Over
    <3> QED
      BY <2>1, <3>1, FailureSpends
  <2>2. CASE x \notin late
    BY <2>2 DEF Goes, SameActivity
  <2> QED
    BY <2>1, <2>2
<1> HIDE DEF after
<1>4. e.effects = E
  <2> HIDE DEF e, E
  <2> QED
    BY <1>1, <1>2
<1>5. now \in Nat
  BY InstantsType DEF Instants
<1>6. e \in Tables /\ \A f \in e.effects : f \in db.effects \/ f.token = NoToken
  BY <1>5, ExpireTimeoutsEffects
<1> HIDE DEF e
<1>7. \A g \in db.effects : \E f \in e.effects : SameActivity(f, g)
  BY <1>2, <1>3, <1>4 DEF Goes, Spends
<1> QED
  BY <1>2, <1>3, <1>4, <1>6, <1>7 DEF e

\* A reservation keeps the number of the attempt it repeats.
LEMMA ReservationFollows ==
    ASSUME Inv, NEW c \in held, NEW now \in Instants, NEW key \in EagerKeys, ReserveEffect(c, key, now)
    PROVE  AllFollow(db')
<1> DEFINE d1 == ExpireTimeouts(db, Expirable(db, c.worker, now), now)
           open == \A e \in EffectFor(d1, c.act, key) : e.status = "pending" /\ e.next <= now
           token(n) == [n |-> n, worker |-> c.worker]
<1>1. \/ open /\ \E n \in FreshIds : db' = Reserve(d1, c.act, key, token(n), now)
      \/ db' = d1
  BY DEF ReserveEffect
<1> HIDE DEF d1, token
<1>2. /\ d1 \in Tables
      /\ \A f \in d1.effects : \E g \in db.effects : Goes(f, g) \/ (Spends(f, g) /\ Over(g))
      /\ \A g \in db.effects : \E f \in d1.effects : SameActivity(f, g)
  BY TimeoutsFollow DEF d1, Inv, TypeOK
<1>3. AllFollow(d1)
  BY <1>2 DEF AllFollow, Follows
<1>4. ASSUME NEW n \in FreshIds, open, db' = Reserve(d1, c.act, key, token(n), now) PROVE AllFollow(db')
  <2> DEFINE old == EffectFor(d1, c.act, key)
             o   == CHOOSE e \in old : TRUE
             attempt == IF old = {} THEN 1 ELSE o.attempt
             first   == IF old = {} THEN now ELSE o.first
             f == [act |-> c.act, key |-> key, status |-> "pending", attempt |-> attempt, token |-> token(n),
                   begun |-> now, start |-> Deadline(now, Effect[key].start),
                   hb |-> Deadline(now, Effect[key].hb), first |-> first, next |-> 0]
  <2>1. db' = [d1 EXCEPT !.effects = (d1.effects \ old) \cup {f}]
    BY <1>4 DEF Reserve
  <2>2. f.act = c.act /\ f.key = key /\ f.status = "pending" /\ f.attempt = attempt
    OBVIOUS
  <2> HIDE DEF f
  <2>3. db'.effects = (d1.effects \ old) \cup {f}
    BY <1>2, <2>1 DEF Tables
  <2>4. Follows(f)
    <3>1. CASE old = {}
      <4>1. \A g \in db.effects : ~ SameActivity(f, g)
        BY <1>2, <2>2, <3>1 DEF SameActivity, EffectFor, EffectsOf
      <4> QED
        BY <2>2, <4>1 DEF Follows
    <3>2. CASE old # {}
      <4>1. o \in d1.effects /\ o.act = c.act /\ o.key = key /\ o.status = "pending" /\ attempt = o.attempt
        BY <1>4, <3>2 DEF EffectFor, EffectsOf
      <4> HIDE DEF old, o, attempt
      <4>2. PICK g \in db.effects : Goes(o, g) \/ (Spends(o, g) /\ Over(g))
        BY <1>2, <4>1
      <4>3. Goes(f, g) \/ (Spends(f, g) /\ Over(g))
        BY <2>2, <4>1, <4>2 DEF Goes, Spends, SameActivity
      <4> QED
        BY <4>3 DEF Follows
    <3> QED
      BY <3>1, <3>2
  <2> QED
    BY <1>3, <2>3, <2>4 DEF AllFollow
<1> QED
  BY <1>1, <1>3, <1>4

\* An attempt spends itself only when it fails, and only while it is the one that is recorded.
LEMMA ActivityFollows ==
    ASSUME Inv, TokensReal, NEW x \in attempts, Activity(x)
    PROVE  AllFollow(db')
<1>1. PICK now \in Instants : \/ HeartbeatEffect(x, now)
                              \/ CompleteEffect(x, now)
                              \/ \E retryable \in BOOLEAN : FailEffect(x, retryable, now)
  BY DEF Activity
<1> DEFINE d1 == ExpireTimeouts(db, Expirable(db, x.token.worker, now), now)
           E  == PendingAttempt(d1, x.act, x.key, x.token)
           e  == CHOOSE y \in E : TRUE
<1>2. \/ db' = IF E = {} THEN d1 ELSE Beat(d1, e, now)
      \/ db' = IF E = {} THEN d1 ELSE Complete(d1, e)
      \/ \E retryable \in BOOLEAN : /\ db' = IF E = {} THEN d1 ELSE Fail(d1, e, now, retryable)
                                    /\ attempts' = attempts \ {x}
  BY <1>1 DEF HeartbeatEffect, CompleteEffect, FailEffect
<1> HIDE DEF d1
<1>3. /\ d1 \in Tables /\ \A f \in d1.effects : f \in db.effects \/ f.token = NoToken
      /\ \A f \in d1.effects : \E g \in db.effects : Goes(f, g) \/ (Spends(f, g) /\ Over(g))
  BY TimeoutsFollow DEF d1, Inv, TypeOK
<1>4. AllFollow(d1)
  BY <1>3 DEF AllFollow, Follows
<1>5. ASSUME E # {}
      PROVE  /\ e \in d1.effects /\ e \in db.effects /\ e \in EffectRecord
             /\ e.status = "pending" /\ e.token # NoToken
             /\ x.act = e.act /\ x.key = e.key /\ x.token = e.token
  <2>1. e \in d1.effects /\ e.status = "pending" /\ x.act = e.act /\ x.key = e.key /\ x.token = e.token
    BY <1>5 DEF PendingAttempt, EffectFor, EffectsOf
  <2>2. e.token # NoToken
    BY <2>1 DEF TokensReal, NoToken
  <2> QED
    BY <1>3, <2>1, <2>2 DEF Tables
<1> HIDE DEF E, e
<1>6. ASSUME NEW g, NEW d, Follows(g), d.effects = (d1.effects \ {e}) \cup {g} PROVE AllFollow(d)
  BY <1>4, <1>6 DEF AllFollow
<1>7. ASSUME E # {}, db' = Beat(d1, e, now) PROVE AllFollow(db')
  <2> DEFINE g == [e EXCEPT !.hb = Deadline(now, Effect[e.key].hb)]
  <2>1. Goes(g, e)
    BY <1>5, <1>7 DEF Goes, SameActivity, EffectRecord
  <2>2. db' = [d1 EXCEPT !.effects = (d1.effects \ {e}) \cup {g}]
    BY <1>7 DEF Beat
  <2> HIDE DEF g
  <2>3. db'.effects = (d1.effects \ {e}) \cup {g}
    BY <1>3, <2>2 DEF Tables
  <2> QED
    BY <1>5, <1>6, <1>7, <2>1, <2>3 DEF Follows
<1>8. ASSUME E # {}, db' = Complete(d1, e) PROVE AllFollow(db')
  <2> DEFINE g == [Detached(e) EXCEPT !.status = "completed", !.next = 0]
  <2>1. Goes(g, e)
    BY <1>5, <1>8 DEF Goes, SameActivity, Detached, EffectRecord
  <2>2. db' = [d1 EXCEPT !.effects = (d1.effects \ {e}) \cup {g}]
    BY <1>8 DEF Complete
  <2> HIDE DEF g
  <2>3. db'.effects = (d1.effects \ {e}) \cup {g}
    BY <1>3, <2>2 DEF Tables
  <2> QED
    BY <1>5, <1>6, <1>8, <2>1, <2>3 DEF Follows
<1>9. ASSUME E # {}, NEW retryable \in BOOLEAN, db' = Fail(d1, e, now, retryable), attempts' = attempts \ {x}
      PROVE  AllFollow(db')
  <2> DEFINE g  == AfterFailure(e, now, retryable)
             d2 == [d1 EXCEPT !.effects = (d1.effects \ {e}) \cup {g}]
             T  == TasksOfActivation(d2, e.act)
  <2>1. Spends(g, e)
    BY <1>5, <1>9, FailureSpends
  <2>2. Over(e)
    BY <1>5, <1>9 DEF Over, Ends
  <2>3. db' = Freed(d2, T, [t \in T |-> BlockedAfter(e, now, retryable)])
    BY <1>9 DEF Fail
  <2> HIDE DEF g
  <2>4. db'.effects = (d1.effects \ {e}) \cup {g}
    BY <1>3, <2>3 DEF Freed, Tables
  <2> QED
    BY <1>5, <1>6, <1>9, <2>1, <2>2, <2>4 DEF Follows
<1> QED
  BY <1>2, <1>4, <1>7, <1>8, <1>9

\* Handlers note failures of checkpoint activities only.
HeldFailures == \A c \in held : c.failed \subseteq CheckpointKeys

LEMMA HeldFailuresStep == ASSUME TypeOK, HeldFailures, [Next]_vars PROVE HeldFailures'
<1>1. \A c \in held : c \in Claim
  BY DEF TypeOK
<1>2. ASSUME held' \subseteq held PROVE HeldFailures'
  BY <1>2 DEF HeldFailures
<1>3. ASSUME NEW c \in held, NEW state, held' \subseteq held \cup {[c EXCEPT !.state = state]} PROVE HeldFailures'
  <2>1. [c EXCEPT !.state = state].failed = c.failed
    BY <1>1 DEF Claim
  <2> QED
    BY <1>3, <2>1 DEF HeldFailures
<1>4. ASSUME NEW w, NEW claims \in SUBSET held, held' = Forgotten(w, claims) PROVE HeldFailures'
  <2>1. \A c \in held : [c EXCEPT !.state = "forgotten"].failed = c.failed
    BY <1>1 DEF Claim
  <2> QED
    BY <1>4, <2>1 DEF HeldFailures, Forgotten
<1>5. ASSUME NEW c \in held, NEW S, held' = (held \ {c}) \cup {[c EXCEPT !.starts = S]} PROVE HeldFailures'
  <2>1. [c EXCEPT !.starts = S].failed = c.failed
    BY <1>1 DEF Claim
  <2> QED
    BY <1>5, <2>1 DEF HeldFailures
<1>6. CASE Clients
  BY <1>2, <1>6 DEF Clients, StartWorkflow, Signals, StartSendSignal
<1>7. ASSUME NEW w \in alive, NEW s \in Shards, Shard(w, s) PROVE HeldFailures'
  <2>1. CASE \E now \in Instants : ClaimTasks(w, s, now)
    BY <2>1 DEF ClaimTasks, NewClaim, HeldFailures
  <2>2. CASE \/ ReleaseShard(w, s)
             \/ \E now \in Instants : ClaimShard(w, s, now) \/ HeartbeatShard(w, s, now)
    BY <1>2, <2>2 DEF ReleaseShard, ClaimShard, HeartbeatShard
  <2> QED
    BY <1>7, <2>1, <2>2 DEF Shard
<1>8. ASSUME NEW c \in held, Settles(c) PROVE HeldFailures'
  <2>1. CASE HandlerFails(c)
    BY <1>4, <2>1 DEF HandlerFails
  <2>2. CASE \E now \in Instants : CommitRejected(c, now)
    BY <1>4, <2>2 DEF CommitRejected
  <2>3. CASE \/ ReleaseClaim(c)
             \/ \E now \in Instants : \E res \in Results(c) : Commit(c, res, now)
    BY <1>2, <2>3 DEF ReleaseClaim, Commit
  <2>4. CASE \E now \in Instants : CommitRefused(c, now)
    BY <1>3, <2>4 DEF CommitRefused
  <2> QED
    BY <1>8, <2>1, <2>2, <2>3, <2>4 DEF Settles
<1>9. ASSUME NEW c \in held, Handler(c) PROVE HeldFailures'
  <2>1. CASE \/ \E key \in CheckpointKeys, release \in BOOLEAN : RecordActivationFailure(c, key, release)
             \/ \E now \in Instants : \/ \E start \in At(EagerStarts, c) : CreateChild(c, start, now)
                                      \/ \E r \in Refs : CancelChild(c, r, now)
                                      \/ \E key \in EagerKeys : ReserveEffect(c, key, now)
    BY <1>2, <2>1 DEF RecordActivationFailure, CreateChild, CancelChild, ReserveEffect
  <2>2. CASE \E key \in CheckpointKeys : FailLocally(c, key)
    <3>1. PICK key \in CheckpointKeys : held' = (held \ {c}) \cup {[c EXCEPT !.failed = @ \cup {key}]}
      BY <2>2 DEF FailLocally
    <3>2. [c EXCEPT !.failed = @ \cup {key}].failed = c.failed \cup {key}
      BY <1>1 DEF Claim
    <3> QED
      BY <3>1, <3>2 DEF HeldFailures
  <2>3. CASE \/ \E now \in Instants : \E start \in At(CheckpointStarts, c) : BufferStart(c, start, now)
             \/ \E start \in c.starts : CancelBuffered(c, start)
    BY <1>5, <2>3 DEF BufferStart, CancelBuffered
  <2> QED
    BY <1>9, <2>1, <2>2, <2>3 DEF Handler
<1>10. ASSUME NEW x \in attempts, Activity(x) PROVE HeldFailures'
  BY <1>2, <1>10 DEF Activity, HeartbeatEffect, CompleteEffect, FailEffect
<1>11. CASE (\E w \in Workers : Crash(w)) \/ Tick
  BY <1>2, <1>11 DEF Crash, Tick
<1>12. CASE UNCHANGED vars
  BY <1>2, <1>12 DEF vars
<1> QED
  BY <1>6, <1>7, <1>8, <1>9, <1>10, <1>11, <1>12 DEF Next

\* Where the effects come from that a step leaves.
LEMMA StepFollows ==
    ASSUME Inv, HeldStarts, TokensReal, HeldFailures, [Next]_vars
    PROVE  AllFollow(db')
<1>1. TypeOK /\ db \in Tables
  BY DEF Inv, TypeOK
<1>2. ASSUME db'.effects \subseteq db.effects PROVE AllFollow(db')
  BY <1>2, FewerFollow
<1>3. ASSUME NEW a, NEW keys \in SUBSET CheckpointKeys,
             \A f \in db'.effects : f \in db.effects \/ f \in FailureRecords(a, keys)
      PROVE  AllFollow(db')
  <2>1. \A f \in FailureRecords(a, keys) : f.key \in CheckpointKeys /\ f.status = "failed"
    BY DEF FailureRecords, FailureRecord
  <2> QED
    BY <1>3, <2>1, FewerFollow
<1>4. CASE Clients
  <2>1. StartsOrSignals
    BY <1>4 DEF Clients, StartsOrSignals
  <2> QED
    BY <1>1, <1>2, <2>1, ClientsForget
<1>5. ASSUME NEW w \in alive, NEW s \in Shards, Shard(w, s) PROVE AllFollow(db')
  <2>1. CASE \/ ReleaseShard(w, s)
             \/ \E now \in Instants : ClaimShard(w, s, now) \/ HeartbeatShard(w, s, now)
    BY <1>2, <2>1 DEF ReleaseShard, ClaimShard, HeartbeatShard
  <2>2. ASSUME NEW now \in Instants, ClaimTasks(w, s, now) PROVE AllFollow(db')
    <3>1. PICK A : db'.effects = ExpireTimeouts(db, A, now).effects
      BY <2>2, ClaimTasksEffects
    <3>2. \A f \in ExpireTimeouts(db, A, now).effects : \E g \in db.effects : Goes(f, g) \/ (Spends(f, g) /\ Over(g))
      BY <1>1, TimeoutsFollow
    <3> QED
      BY <3>1, <3>2 DEF AllFollow, Follows
  <2> QED
    BY <1>5, <2>1, <2>2 DEF Shard
<1>6. ASSUME NEW c \in held, Settles(c) PROVE AllFollow(db')
  <2>1. CASE ReleaseClaim(c) \/ HandlerFails(c)
    <3> DEFINE T == {t \in TasksOfActivation(db, c.act) : t.owner = c.worker}
    <3>1. db' = Freed(db, T, [t \in T |-> t.blocked])
      BY <2>1 DEF ReleaseClaim, HandlerFails
    <3> HIDE DEF T
    <3>2. db'.effects = db.effects
      BY <1>1, <3>1 DEF Freed, Tables
    <3> QED
      BY <1>2, <3>2
  <2>2. ASSUME NEW now \in Instants, CommitRefused(c, now) \/ CommitRejected(c, now) PROVE AllFollow(db')
    BY <1>2, <2>2 DEF CommitRefused, CommitRejected
  <2>3. ASSUME NEW now \in Instants, NEW res \in Results(c), Commit(c, res, now) PROVE AllFollow(db')
    <3>1. Commits
      BY <2>3 DEF Commits
    <3>2. PICK b \in held : \A f \in db'.effects : f \in db.effects \/ f \in FailureRecords(b.act, b.failed)
      BY <3>1, CommitLedger
    <3> QED
      BY <1>3, <3>2 DEF HeldFailures
  <2> QED
    BY <1>6, <2>1, <2>2, <2>3 DEF Settles
<1>7. ASSUME NEW c \in held, Handler(c) PROVE AllFollow(db')
  <2>1. CASE \/ \E start \in c.starts : CancelBuffered(c, start)
             \/ \E k \in CheckpointKeys : FailLocally(c, k)
             \/ \E now \in Instants : \E start \in At(CheckpointStarts, c) : BufferStart(c, start, now)
    BY <1>2, <2>1 DEF CancelBuffered, FailLocally, BufferStart
  <2>2. ASSUME NEW k \in CheckpointKeys, NEW release \in BOOLEAN, RecordActivationFailure(c, k, release)
        PROVE  AllFollow(db')
    <3>1. db' = RecordFailures(db, c.act, {k}, release)
      BY <2>2 DEF RecordActivationFailure
    <3>2. \A f \in db'.effects : f \in db.effects \/ f \in FailureRecords(c.act, {k})
      BY <1>1, <3>1, RecordFailuresEffects
    <3> QED
      BY <1>3, <3>2
  <2>3. ASSUME NEW now \in Instants, NEW start \in At(EagerStarts, c), CreateChild(c, start, now)
        PROVE  AllFollow(db')
    <3>1. Creates
      BY <2>3 DEF Creates
    <3> QED
      BY <1>1, <1>2, <3>1, CreateLedger DEF ForgetsAbsent
  <2>4. ASSUME NEW now \in Instants, NEW r \in Refs, CancelChild(c, r, now) PROVE AllFollow(db')
    <3>1. c.act.ref \in Refs /\ now \in Nat
      BY <1>1, InstantsType, ClaimFields DEF TypeOK
    <3>2. db'.effects = db.effects
      BY <1>1, <2>4, <3>1, CancelChildRunEffects DEF CancelChild
    <3> QED
      BY <1>2, <3>2
  <2>5. ASSUME NEW now \in Instants, NEW key \in EagerKeys, ReserveEffect(c, key, now) PROVE AllFollow(db')
    BY <2>5, ReservationFollows
  <2> QED
    BY <1>7, <2>1, <2>2, <2>3, <2>4, <2>5 DEF Handler
<1>8. ASSUME NEW x \in attempts, Activity(x) PROVE AllFollow(db')
  BY <1>8, ActivityFollows
<1>9. CASE (\E w \in Workers : Crash(w)) \/ Tick
  BY <1>2, <1>9 DEF Crash, Tick
<1>10. CASE UNCHANGED vars
  BY <1>2, <1>10 DEF vars
<1> QED
  BY <1>4, <1>5, <1>6, <1>7, <1>8, <1>9, <1>10 DEF Next

\* The activities that are pending were reserved.
PendingEager == \A f \in db.effects : f.status = "pending" => f.key \in EagerKeys

\* The attempts a policy allows are spent by failures alone: an activity comes to its next attempt,
\* one more and within the policy, or fails for good, only when the attempt that is recorded for it
\* is late or ends itself, whatever is reserved again after a claim or a worker was lost
\* (get_or_reserve_effect, expire_activity_timeouts, retry_or_fail_effect, assert_mutable_effect).
THEOREM FailuresSpendAttempts ==
    ASSUME RuntimeStarts, NoSelfStart, OneDurability PROVE Spec => OnlyFailuresSpendAttempts
<1> DEFINE Spent == \A e \in db.effects, f \in db'.effects :
                        /\ e.act = f.act /\ e.key = f.key /\ e.status = "pending"
                        /\ f.attempt # e.attempt \/ f.status = "failed"
                        => /\ e.token # NoToken
                           /\ (\E now \in Instants : Late(e, now)) \/ Ends(e)
                           /\ f.status = "failed" => f.attempt = e.attempt
                           /\ f.status # "failed" => f.attempt = e.attempt + 1 /\ f.attempt <= MaxAttempts(e.key)
           Reserves == TokensReal /\ HeldFailures /\ PendingEager
<1>1. Init => Reserves
  BY DEF Init, EmptyTables, TokensReal, HeldFailures, PendingEager
<1>2. ASSUME BaseInv, Reserves, [Next]_vars PROVE AllFollow(db') /\ Inv /\ TokensReal' /\ HeldFailures'
  <2>1. Inv /\ HeldStarts /\ TypeOK
    BY <1>2 DEF BaseInv, WorkInv, Inv
  <2> QED
    BY <1>2, <2>1, StepFollows, TokensRealStep, HeldFailuresStep
<1>3. ASSUME BaseInv, Reserves, [Next]_vars PROVE PendingEager'
  <2>1. \A f \in db'.effects : Follows(f)
    BY <1>2, <1>3 DEF AllFollow
  <2>2. \A f \in db'.effects : f.status = "pending" => f.key \in EagerKeys
    BY <1>3, <2>1 DEF Follows, Goes, Spends, SameActivity, PendingEager
  <2> QED
    BY <2>2 DEF PendingEager
<1>4. ASSUME BaseInv, Reserves, [Next]_vars PROVE Spent
  <2>1. \A f \in db'.effects : Follows(f)
    BY <1>2, <1>4 DEF AllFollow
  <2>2. OneRecordEach(db.effects) /\ WithinPolicy(db'.effects)
    <3>1. Inv /\ Inv'
      BY <1>2, <1>4, NextStep
    <3> QED
      BY <3>1 DEF Inv, Sound
  <2> SUFFICES ASSUME NEW e \in db.effects, NEW f \in db'.effects,
                      e.act = f.act, e.key = f.key, e.status = "pending",
                      f.attempt # e.attempt \/ f.status = "failed"
               PROVE  Spends(f, e) /\ Over(e) /\ f.attempt <= MaxAttempts(f.key)
    BY DEF Spends, Over
  <2>3. e.key \in EagerKeys /\ e.key \notin CheckpointKeys
    BY <1>4 DEF PendingEager, OneDurability
  <2>4. PICK g \in db.effects : Goes(f, g) \/ (Spends(f, g) /\ Over(g))
    BY <2>1, <2>3 DEF Follows, SameActivity
  <2>5. g = e
    BY <2>2, <2>4 DEF OneRecordEach, Goes, Spends, SameActivity
  <2>6. ~ Goes(f, e)
    BY DEF Goes
  <2> QED
    BY <2>2, <2>4, <2>5, <2>6 DEF WithinPolicy
<1> HIDE DEF Spent
<1>5. BaseInv /\ Reserves /\ [Next]_vars => [Spent]_vars
  BY <1>4
<1>6. BaseInv /\ Reserves /\ [Next]_vars => Reserves'
  BY <1>2, <1>3
<1> HIDE DEF Reserves
<1>7. Spec => [][Spent]_vars
  BY <1>1, <1>5, <1>6, BaseHolds, PTL DEF Spec
<1> QED
  BY <1>7 DEF Spent, OnlyFailuresSpendAttempts

===============================================================================
