--------------------------- MODULE ShardChildProofs ---------------------------
(***************************************************************************)
(* The records of children and the runs they are about: a run knows the    *)
(* record it was started with, the record knows how the run ended, and a   *)
(* handler that is executed again starts no child of a key twice.          *)
(***************************************************************************)
EXTENDS ShardRunProofs

-------------------------------------------------------------------------------
(* Runs and records that belong together. *)

\* A run with a parent has a record, a record has a run, and they name each other.
Linked(d) ==
    /\ \A q \in Refs : d.inst[q].status = "absent" => d.inst[q].parent = 0
    /\ \A x \in d.children : d.inst[x.ref].parent = x.id
    /\ \A q \in Refs : d.inst[q].parent # 0 => \E x \in d.children : x.id = d.inst[q].parent /\ x.ref = q

\* The record says what has become of its run.
Agrees(d, x) == IF Running(d, x.ref) THEN x.status \in {"started", "abandoned"} ELSE x.status # "started"
AllAgree(d) == \A x \in d.children : Agrees(d, x)
AgreeBut(d, r) == \A x \in d.children : x.ref # r => Agrees(d, x)

\* No run starts or goes, none gets another parent, and no record comes or goes.
SameFamily(d, e) ==
    /\ \A q \in Refs : /\ e.inst[q].parent = d.inst[q].parent
                       /\ e.inst[q].status = "absent" <=> d.inst[q].status = "absent"
    /\ \A x \in d.children : \E f \in e.children : SameChild(x, f)
    /\ \A f \in e.children : \E x \in d.children : SameChild(x, f)

LEMMA RecordFields ==
    ASSUME NEW d \in Tables, Sound(d), NEW x \in d.children
    PROVE  x \in Child /\ x.ref \in Refs /\ x.id \in Nat /\ x.id # 0 /\ x.id <= d.childCounter
<1>1. x \in Child /\ x.id \in 1..d.childCounter /\ d.childCounter \in Nat
  BY DEF Tables, Sound, Numbered
<1> QED
  BY <1>1 DEF Child

LEMMA LinkedStays ==
    ASSUME NEW d \in Tables, NEW e \in Tables, Linked(d), SameFamily(d, e)
    PROVE  Linked(e)
<1>1. \A f \in e.children : f.ref \in Refs
  BY DEF Tables, Child
<1>2. \A q \in Refs : e.inst[q].status = "absent" => e.inst[q].parent = 0
  BY DEF Linked, SameFamily
<1>3. \A f \in e.children : e.inst[f.ref].parent = f.id
  BY <1>1 DEF Linked, SameFamily, SameChild
<1>4. \A q \in Refs : e.inst[q].parent # 0 => \E f \in e.children : f.id = e.inst[q].parent /\ f.ref = q
  BY DEF Linked, SameFamily, SameChild
<1> QED
  BY <1>2, <1>3, <1>4 DEF Linked

\* No two records are of one run.
LEMMA OneRecordPerRun ==
    ASSUME NEW d \in Tables, Sound(d), Linked(d), NEW x \in d.children, NEW y \in d.children, x.ref = y.ref
    PROVE  x = y
  BY DEF Linked, Sound, Numbered

-------------------------------------------------------------------------------
(* Children that are started. *)

\* Starts of the activation a with keys in K: every new run is linked to a record, and every
\* new record is of a run and of this activation, with a key of its own.
StartsLinked(d, e, a, K) ==
    /\ e \in Tables /\ d.childCounter <= e.childCounter
    /\ \A q \in Refs : \/ e.inst[q] = d.inst[q]
                       \/ /\ d.inst[q].status = "absent" /\ e.inst[q].status = "running"
                          /\ \E x \in e.children : x.id = e.inst[q].parent /\ x.ref = q
    /\ d.children \subseteq e.children
    /\ \A x \in e.children \ d.children :
         /\ x.id > d.childCounter /\ x.status = "started" /\ x.act = a /\ x.parent = a.ref /\ x.key \in K
         /\ e.inst[x.ref].status # "absent"
    /\ \A x, y \in e.children \ d.children : x.key = y.key => x = y

LEMMA StartChildLinks ==
    ASSUME NEW d \in Tables, NEW a \in Activation, NEW start \in ChildStart,
           NEW version \in Nat, NEW waits \in SUBSET Wait, NEW now \in Nat,
           d.inst[start.ref].status = "absent"
    PROVE  StartsLinked(d, StartChild(d, a, start, version, waits, now), a, {start.key})
<1> DEFINE r  == start.ref
           id == d.childCounter + 1
           d1 == NewInstance(d, r, version, waits, id, now)
           d2 == WithRecord(d1, a, start, r)
           e  == ReplaceTasks(d2, r)
<1>1. /\ r \in Refs /\ id \in Nat /\ d.childCounter \in Nat /\ id > d.childCounter
      /\ d.inst[r].status = "absent"
  BY DEF ChildStart, Tables
<1>2. StartChild(d, a, start, version, waits, now) = e
  BY DEF StartChild
<1> HIDE DEF r, id
<1>3. /\ d1 \in Tables
      /\ \A q \in Refs : q # r => d1.inst[q] = d.inst[q]
      /\ d1.inst[r].status = "running" /\ d1.inst[r].parent = id
      /\ d1.children = d.children /\ d1.childCounter = d.childCounter
  BY <1>1, NewInstanceFields
<1> HIDE DEF d1
<1> DEFINE x == ChildRecord(d1, a, start, r)
<1>4. /\ d2 \in Tables /\ d2.inst = d1.inst /\ d2.children = d1.children \cup {x}
      /\ d2.childCounter = d1.childCounter + 1
  BY <1>1, <1>3, WithRecordKeeps
<1>5. /\ x.id = id /\ x.status = "started" /\ x.act = a /\ x.parent = a.ref
      /\ x.key = start.key /\ x.ref = r
  BY <1>3 DEF ChildRecord, id
<1> HIDE DEF x, d2
<1>6. /\ e \in Tables
      /\ e.inst = d2.inst /\ e.children = d2.children /\ e.childCounter = d2.childCounter
  BY <1>1, <1>4, ReplaceTasksFields
<1> HIDE DEF e
<1>7. e.childCounter = id
  BY <1>3, <1>4, <1>6 DEF id
<1> QED
  BY <1>1, <1>2, <1>3, <1>4, <1>5, <1>6, <1>7 DEF StartsLinked

LEMMA WriteChildStartLinks ==
    ASSUME NEW d \in Tables, NEW a \in Activation, NEW start \in ChildStart,
           NEW version \in Nat, NEW waits \in SUBSET Wait, NEW now \in Nat,
           Accepted(d, start)
    PROVE  StartsLinked(d, WriteChildStart(d, a, start, version, waits, now), a, {start.key})
<1> DEFINE kept == KeptRun(d, start)
           k    == CHOOSE r \in kept : TRUE
           f    == WithRecord(d, a, start, k)
           g    == StartChild(d, a, start, version, waits, now)
<1>1. /\ WriteChildStart(d, a, start, version, waits, now) = IF kept # {} THEN f ELSE g
      /\ kept # {} \/ d.inst[start.ref].status = "absent"
  BY DEF WriteChildStart, Accepted
<1>2. ASSUME kept # {} PROVE StartsLinked(d, f, a, {start.key})
  <2>1. k \in Refs /\ d.inst[k].status # "absent"
    BY <1>2, KeptRunType
  <2> DEFINE x == ChildRecord(d, a, start, k)
  <2>2. /\ x.id = d.childCounter + 1 /\ x.status = "started" /\ x.act = a /\ x.parent = a.ref
        /\ x.key = start.key /\ x.ref = k /\ d.childCounter \in Nat
    BY DEF ChildRecord, Tables
  <2> HIDE DEF k
  <2>3. /\ f \in Tables /\ f.inst = d.inst /\ f.children = d.children \cup {x}
        /\ f.childCounter = d.childCounter + 1
    BY <2>1, WithRecordKeeps
  <2> HIDE DEF f, x
  <2> QED
    BY <2>1, <2>2, <2>3 DEF StartsLinked
<1>3. ASSUME kept = {} PROVE StartsLinked(d, g, a, {start.key})
  BY <1>1, <1>3, StartChildLinks
<1> HIDE DEF f, g, kept
<1> QED
  BY <1>1, <1>2, <1>3

LEMMA StartedLinks ==
    ASSUME NEW d \in Tables, NEW c \in Claim, NEW start \in ChildStart, NEW now \in Nat,
           Accepted(d, start)
    PROVE  StartsLinked(d, Started(d, c, start, now), c.act, {start.key})
<1>1. start.ref \in Refs /\ start.at \in Nat
  BY DEF ChildStart
<1>2. Materialize(InitialWaits[start.ref[1]], start.at, start.at) \in SUBSET Wait
  BY <1>1, InitialWaitsType
<1>3. c.act \in Activation /\ VersionOf[c.worker] \in Nat
  BY VersionOfType, ClaimFields
<1> QED
  BY <1>2, <1>3, WriteChildStartLinks DEF Started

LEMMA LinksTransitive ==
    ASSUME NEW d \in Tables, NEW e, NEW f, NEW a, NEW K, NEW L, K \cap L = {},
           StartsLinked(d, e, a, K), StartsLinked(e, f, a, L)
    PROVE  StartsLinked(d, f, a, K \cup L)
<1>1. e \in Tables /\ f \in Tables /\ d.childCounter \in Nat /\ e.childCounter \in Nat /\ f.childCounter \in Nat
  BY DEF StartsLinked, Tables
<1>2. \A x \in f.children : x.id \in Nat /\ x.ref \in Refs
  BY <1>1 DEF Tables, Child
<1>3. \A x \in f.children \ d.children :
         /\ x \in e.children \ d.children \/ x \in f.children \ e.children
         /\ x.id > d.childCounter /\ x.status = "started" /\ x.act = a /\ x.parent = a.ref
         /\ f.inst[x.ref].status # "absent"
         /\ x \in e.children \ d.children => x.key \in K
         /\ x \in f.children \ e.children => x.key \in L
  BY <1>1, <1>2 DEF StartsLinked
<1>4. \A x, y \in f.children \ d.children : x.key = y.key => x = y
  BY <1>3 DEF StartsLinked
<1>5. \A q \in Refs : \/ f.inst[q] = d.inst[q]
                      \/ /\ d.inst[q].status = "absent" /\ f.inst[q].status = "running"
                         /\ \E x \in f.children : x.id = f.inst[q].parent /\ x.ref = q
  BY DEF StartsLinked
<1>6. d.childCounter <= f.childCounter /\ d.children \subseteq f.children
  BY <1>1 DEF StartsLinked
<1> QED
  BY <1>1, <1>3, <1>4, <1>5, <1>6 DEF StartsLinked

LEMMA StartedAllLinks ==
    ASSUME NEW d \in Tables, NEW c \in Claim, NEW starts \in Seq(ChildStart), Len(starts) <= 2, NEW now \in Nat,
           Distinct(starts), \A i \in DOMAIN starts : Accepted(d, starts[i]),
           \A i, j \in DOMAIN starts : i # j => starts[i].key # starts[j].key
    PROVE  StartsLinked(d, StartedAll(d, c, starts, now), c.act, {starts[i].key : i \in DOMAIN starts})
<1> DEFINE K == {starts[i].key : i \in DOMAIN starts}
<1>1. /\ Len(starts) \in Nat /\ DOMAIN starts = 1..Len(starts)
      /\ \A i \in 1..Len(starts) : starts[i] \in ChildStart
  OBVIOUS
<1>2. CASE Len(starts) = 0
  <2>1. StartedAll(d, c, starts, now) = d
    BY <1>2, <1>1 DEF StartedAll
  <2>2. d.childCounter \in Nat
    BY DEF Tables
  <2> QED
    BY <2>1, <2>2 DEF StartsLinked
<1>3. CASE Len(starts) = 1
  <2>1. /\ StartedAll(d, c, starts, now) = Started(d, c, starts[1], now)
        /\ starts[1] \in ChildStart /\ Accepted(d, starts[1]) /\ K = {starts[1].key}
    <3>1. DOMAIN starts = {1}
      BY <1>3, <1>1
    <3> QED
      BY <1>3, <1>1, <3>1 DEF StartedAll
  <2> QED
    BY <2>1, StartedLinks
<1>4. CASE Len(starts) = 2
  <2> DEFINE e == Started(d, c, starts[1], now)
             f == Started(e, c, starts[2], now)
  <2>1. /\ StartedAll(d, c, starts, now) = f
        /\ starts[1] \in ChildStart /\ starts[2] \in ChildStart
        /\ Accepted(d, starts[1]) /\ Accepted(d, starts[2]) /\ starts[1].ref # starts[2].ref
        /\ starts[1].key # starts[2].key
        /\ K = {starts[1].key} \cup {starts[2].key}
    <3>1. DOMAIN starts = {1, 2}
      BY <1>4, <1>1
    <3> QED
      BY <1>4, <1>1, <3>1 DEF StartedAll, Distinct
  <2>2. StartsRuns(d, e, {starts[1].ref}) /\ StartsLinked(d, e, c.act, {starts[1].key})
    BY <2>1, StartedKeeps, StartedLinks
  <2>3. e \in Tables /\ starts[1].ref \in Refs
    BY <2>1, <2>2 DEF StartsRuns, ChildStart
  <2> HIDE DEF e
  <2>4. StartsLinked(e, f, c.act, {starts[2].key})
    <3>1. Accepted(e, starts[2])
      BY <2>1, <2>2, <2>3, AcceptedAfterStart
    <3> QED
      BY <2>1, <2>3, <3>1, StartedLinks
  <2> HIDE DEF f, K
  <2>5. StartsLinked(d, f, c.act, {starts[1].key} \cup {starts[2].key})
    BY <2>1, <2>2, <2>4, LinksTransitive
  <2> QED
    BY <2>1, <2>5 DEF K
<1>5. \A n \in Nat : n <= 2 => n = 0 \/ n = 1 \/ n = 2
  OBVIOUS
<1> QED
  BY <1>2, <1>3, <1>4, <1>5, <1>1

\* If every record that is added is of a new run of its own, all belong together again, and the
\* records agree that agreed.
LEMMA StartsKeepLinked ==
    ASSUME NEW d \in Tables, NEW e, NEW a, NEW K, Sound(d), Linked(d), StartsLinked(d, e, a, K),
           \A x \in e.children \ d.children : d.inst[x.ref].status = "absent",
           \A x, y \in e.children \ d.children : x.ref = y.ref => x = y
    PROVE  /\ Linked(e)
           /\ \A r \in Refs : AgreeBut(d, r) => AgreeBut(e, r)
           /\ AllAgree(d) => AllAgree(e)
<1>1. e \in Tables /\ d.childCounter \in Nat /\ \A x \in e.children : x.ref \in Refs /\ x.id \in Nat
  BY DEF StartsLinked, Tables, Child
<1>2. \A x \in d.children : x \in e.children /\ x.id # 0
  BY RecordFields DEF StartsLinked
<1>3. \A x \in d.children : e.inst[x.ref] = d.inst[x.ref]
  BY <1>1, <1>2 DEF StartsLinked, Linked
<1>4. \A x \in e.children \ d.children :
         Running(e, x.ref) /\ x.status = "started" /\ e.inst[x.ref].parent = x.id
  <2> SUFFICES ASSUME NEW x \in e.children, x \notin d.children
               PROVE  Running(e, x.ref) /\ x.status = "started" /\ e.inst[x.ref].parent = x.id
    OBVIOUS
  <2>1. x.status = "started" /\ x.ref \in Refs /\ e.inst[x.ref].status # "absent"
    BY <1>1 DEF StartsLinked
  <2>2. d.inst[x.ref].status = "absent"
    OBVIOUS
  <2>3. /\ e.inst[x.ref].status = "running"
        /\ \E y \in e.children : y.id = e.inst[x.ref].parent /\ y.ref = x.ref
    BY <2>1, <2>2 DEF StartsLinked
  <2>4. PICK y \in e.children : y.id = e.inst[x.ref].parent /\ y.ref = x.ref
    BY <2>3
  <2>5. y \notin d.children
    BY <1>2, <2>1, <2>2, <2>4 DEF Linked
  <2>6. y = x
    BY <2>4, <2>5
  <2> QED
    BY <2>1, <2>3, <2>4, <2>6 DEF Running
<1>5. Linked(e)
  <2>1. \A q \in Refs : e.inst[q].status = "absent" => e.inst[q].parent = 0
    BY DEF StartsLinked, Linked
  <2>2. \A x \in e.children : e.inst[x.ref].parent = x.id
    BY <1>3, <1>4 DEF Linked
  <2>3. \A q \in Refs : e.inst[q].parent # 0 => \E x \in e.children : x.id = e.inst[q].parent /\ x.ref = q
    BY <1>2 DEF StartsLinked, Linked
  <2> QED
    BY <2>1, <2>2, <2>3 DEF Linked
<1>6. \A x \in d.children : Agrees(d, x) => Agrees(e, x)
  BY <1>3 DEF Agrees, Running
<1>7. \A x \in e.children \ d.children : Agrees(e, x)
  BY <1>4 DEF Agrees
<1> QED
  BY <1>5, <1>6, <1>7 DEF AllAgree, AgreeBut

-------------------------------------------------------------------------------
(* Children that close. *)

\* The record of a run that has just ended is told.
LEMMA ParentIsTold ==
    ASSUME NEW d \in Tables, NEW r \in Refs, NEW previous \in Instance, NEW next, NEW now \in Nat,
           Sound(d), Linked(d), AgreeBut(d, r), next = "running" => AllAgree(d),
           d.inst[r].status = next, d.inst[r].parent = previous.parent
    PROVE  LET e == UpdateParentRecord(d, previous, next, now)
           IN  SameFamily(d, e) /\ AllAgree(e)
<1> DEFINE e    == UpdateParentRecord(d, previous, next, now)
           mine == {c \in d.children : c.id = previous.parent}
           told(c) == IF c \in mine /\ c.status = "started"
                      THEN [c EXCEPT !.status = IF next = "completed" THEN "completed" ELSE "failed", !.completedAt = now]
                      ELSE c
           d1   == [d EXCEPT !.children = {told(c) : c \in @}]
           p    == (CHOOSE c \in mine : TRUE).parent
<1>1. e = IF next = "running" \/ mine = {} THEN d ELSE RefreshTasks(d1, p, "child")
  BY DEF UpdateParentRecord
<1>2. SameFamily(d, d)
  BY DEF SameFamily, SameChild
<1>3. ASSUME next = "running" \/ mine = {} PROVE SameFamily(d, e) /\ AllAgree(e)
  <2>1. mine = {} => \A x \in d.children : x.ref # r
    BY DEF Linked
  <2>2. AllAgree(d)
    BY <1>3, <2>1 DEF AgreeBut, AllAgree
  <2> QED
    BY <1>1, <1>2, <1>3, <2>2
<1>4. ASSUME next # "running", mine # {} PROVE SameFamily(d, e) /\ AllAgree(e)
  <2>1. \A x \in d.children : x \in Child /\ x.ref \in Refs /\ x.id # 0
    BY RecordFields
  <2>2. \A x \in d.children : /\ told(x) \in Child /\ SameChild(x, told(x))
                              /\ x \in mine => told(x).status # "started"
                              /\ x \notin mine => told(x) = x
    BY <2>1 DEF Child, SameChild
  <2>3. \A x \in d.children : x \in mine <=> x.ref = r
    BY <2>1 DEF Linked, Sound, Numbered
  <2> HIDE DEF told
  <2>4. d1 \in Tables /\ d1.inst = d.inst /\ d1.children = {told(x) : x \in d.children}
    BY <2>2 DEF Tables
  <2>5. p \in Refs
    BY <1>4 DEF Tables, Child
  <2> HIDE DEF d1, p
  <2>6. e.inst = d.inst /\ e.children = {told(x) : x \in d.children}
    BY <1>1, <1>4, <2>4, <2>5, RefreshTasksFields
  <2> HIDE DEF e, mine
  <2>7. SameFamily(d, e)
    BY <2>2, <2>6 DEF SameFamily
  <2>8. \A x \in d.children : Agrees(e, told(x))
    BY <1>4, <2>1, <2>2, <2>3, <2>6 DEF AgreeBut, Agrees, Running, SameChild
  <2> QED
    BY <2>6, <2>7, <2>8 DEF AllAgree
<1> QED
  BY <1>3, <1>4

\* A run that fails or is canceled takes the children it reaches along, and their records say so.
LEMMA ClosedTogether ==
    ASSUME NEW d \in Tables, NEW r, NEW next, NEW seq \in Nat \ {0}, NEW now \in Nat,
           Sound(d), Linked(d), AllAgree(d)
    PROVE  LET e == ApplyClosePolicy(d, r, next, seq, now)
           IN  SameFamily(d, e) /\ AllAgree(e)
<1> DEFINE e      == ApplyClosePolicy(d, r, next, seq, now)
           hit    == ClosedWith(d, r)
           killed == {c.ref : c \in {x \in hit : x.policy = "cancel" /\ Running(d, x.ref)}}
           close(c) == IF c.policy = "abandon" THEN [c EXCEPT !.status = "abandoned", !.delivered = seq]
                       ELSE [c EXCEPT !.status = "failed", !.completedAt = now, !.delivered = seq]
           after(c) == IF c \in hit THEN close(c) ELSE c
           T  == {t \in d.tasks : t.act.ref \in killed}
           d1 == DeleteTasks(d, T)
<1>1. ASSUME next \notin {"failed", "canceled"} PROVE SameFamily(d, e) /\ AllAgree(e)
  <2>1. e = d
    BY <1>1 DEF ApplyClosePolicy
  <2> QED
    BY <2>1 DEF SameFamily, SameChild
<1>2. ASSUME next \in {"failed", "canceled"} PROVE SameFamily(d, e) /\ AllAgree(e)
  <2>1. e = [d1 EXCEPT !.children = {IF c \in hit THEN close(c) ELSE c : c \in @},
                       !.inst = [q \in Refs |-> IF q \in killed
                                                THEN [d.inst[q] EXCEPT !.status = "canceled", !.waits = {}, !.updatedAt = now]
                                                ELSE d.inst[q]]]
    BY <1>2 DEF ApplyClosePolicy
  <2>2. d1 \in Tables /\ d1.inst = d.inst /\ d1.children = d.children
    BY DeleteTasksFields
  <2> HIDE DEF d1, T
  <2>3. /\ e.children = {after(c) : c \in d.children}
        /\ e.inst = [q \in Refs |-> IF q \in killed
                                    THEN [d.inst[q] EXCEPT !.status = "canceled", !.waits = {}, !.updatedAt = now]
                                    ELSE d.inst[q]]
    BY <2>1, <2>2 DEF Tables
  <2> HIDE DEF e
  <2>4. \A q \in Refs : d.inst[q] \in Instance
    BY DEF Tables
  <2>5. \A q \in Refs : /\ e.inst[q].parent = d.inst[q].parent
                        /\ q \in killed => e.inst[q].status = "canceled"
                        /\ q \notin killed => e.inst[q] = d.inst[q]
    BY <2>3, <2>4 DEF Instance
  <2>6. hit \subseteq d.children
    BY DEF ClosedWith
  <2>7. \A q \in Refs : q \in killed => Running(d, q)
    OBVIOUS
  <2>8. \A x \in d.children : x \in Child /\ x.ref \in Refs /\ x.policy \in ClosePolicies
    BY DEF Tables, Child
  <2>9. \A x \in d.children : /\ SameChild(x, after(x))
                              /\ x \notin hit => after(x) = x
                              /\ x \in hit => after(x).status = IF x.policy = "abandon" THEN "abandoned" ELSE "failed"
    BY <2>8 DEF Child, SameChild
  <2>10. \A x \in d.children : x.ref \in killed <=> x \in hit /\ x.policy = "cancel" /\ Running(d, x.ref)
    <3> SUFFICES ASSUME NEW x \in d.children, x.ref \in killed
                 PROVE  x \in hit /\ x.policy = "cancel" /\ Running(d, x.ref)
      OBVIOUS
    <3>1. PICK y \in hit : y.policy = "cancel" /\ Running(d, y.ref) /\ y.ref = x.ref
      OBVIOUS
    <3>2. y = x
      BY <2>6, <3>1, OneRecordPerRun
    <3> QED
      BY <3>1, <3>2
  <2> HIDE DEF hit, killed, close, after
  <2>11. SameFamily(d, e)
    <3>1. e.children = {after(x) : x \in d.children}
      BY <2>3
    <3>2. \A q \in Refs : /\ e.inst[q].parent = d.inst[q].parent
                          /\ e.inst[q].status = "absent" <=> d.inst[q].status = "absent"
      BY <2>5, <2>7 DEF Running
    <3> QED
      BY <2>9, <3>1, <3>2 DEF SameFamily
  <2>12. \A x \in d.children : Agrees(e, after(x))
    <3> TAKE x \in d.children
    <3>1. after(x).ref = x.ref /\ x.ref \in Refs
      BY <2>8, <2>9 DEF SameChild
    <3>2. CASE x \in hit /\ x.policy = "abandon"
      BY <2>9, <3>1, <3>2 DEF Agrees
    <3>3. CASE x \in hit /\ x.policy = "cancel"
      <4>1. after(x).status = "failed"
        BY <2>9, <3>3
      <4>2. ~ Running(e, x.ref)
        BY <2>5, <2>10, <3>1, <3>3 DEF Running
      <4> QED
        BY <3>1, <4>1, <4>2 DEF Agrees
    <3>4. CASE x \notin hit
      <4>1. after(x) = x /\ e.inst[x.ref] = d.inst[x.ref]
        BY <2>5, <2>9, <2>10, <3>1, <3>4
      <4> QED
        BY <4>1 DEF AllAgree, Agrees, Running
    <3> QED
      BY <2>8, <3>2, <3>3, <3>4 DEF ClosePolicies
  <2> QED
    BY <2>3, <2>11, <2>12 DEF AllAgree
<1> QED
  BY <1>1, <1>2

\* A child that is canceled is the run of the record that is closed with it.
LEMMA CanceledWithRecord ==
    ASSUME NEW d \in Tables, NEW p \in Refs, NEW r \in Refs, NEW now \in Nat,
           Sound(d), Linked(d), AllAgree(d)
    PROVE  LET e == CancelChildRun(d, p, r, now)
           IN  SameFamily(d, e) /\ AllAgree(e)
<1> DEFINE e       == CancelChildRun(d, p, r, now)
           started == {x \in d.children : x.parent = p /\ x.ref = r /\ x.status = "started"}
           first   == {x \in started : \A y \in started : x.id <= y.id}
           i       == [d.inst[r] EXCEPT !.status = "canceled", !.waits = {}, !.updatedAt = now]
           closed  == [d EXCEPT !.inst[r] = i]
           d1      == DeleteTasks(closed, TasksOf(d, r))
           after(x) == IF x \in first THEN [x EXCEPT !.status = "failed", !.completedAt = now] ELSE x
           d2      == [d1 EXCEPT !.children = {after(x) : x \in @}]
<1>1. ASSUME started = {} PROVE SameFamily(d, e) /\ AllAgree(e)
  <2>1. e = d
    BY <1>1 DEF CancelChildRun
  <2> QED
    BY <2>1 DEF SameFamily, SameChild
<1>2. ASSUME NEW y \in started PROVE SameFamily(d, e) /\ AllAgree(e)
  <2>1. \A x \in d.children : x \in Child /\ x.ref \in Refs /\ x.id \in Nat
    BY DEF Tables, Child
  <2>2. \A x \in d.children : x.ref = r => x = y
    BY OneRecordPerRun
  <2>3. \A x \in d.children : x \in first <=> x.ref = r
    BY <2>1, <2>2
  <2>4. Running(d, r)
    BY DEF AllAgree, Agrees
  <2>5. e = IF Running(d2, p) THEN RefreshTasks(d2, p, "child") ELSE d2
    BY <1>2, <2>4 DEF CancelChildRun
  <2>6. /\ i \in Instance /\ i.status = "canceled" /\ i.parent = d.inst[r].parent
    BY InstanceFields DEF Instance, Closed
  <2>7. closed \in Tables /\ closed.children = d.children
        /\ \A q \in Refs : closed.inst[q] = IF q = r THEN i ELSE d.inst[q]
    BY <2>6 DEF Tables
  <2> HIDE DEF i, closed, first
  <2>8. d1 \in Tables /\ d1.children = d.children /\ d1.inst = closed.inst
    BY <2>7, DeleteTasksFields
  <2> HIDE DEF d1
  <2>9. \A x \in d.children : /\ after(x) \in Child /\ SameChild(x, after(x))
                              /\ x.ref = r => after(x).status = "failed"
                              /\ x.ref # r => after(x) = x
    BY <2>1, <2>3 DEF Child, SameChild
  <2> HIDE DEF after
  <2>10. d2 \in Tables /\ d2.children = {after(x) : x \in d.children} /\ d2.inst = closed.inst
    BY <2>8, <2>9 DEF Tables
  <2> HIDE DEF d2
  <2>11. e.children = {after(x) : x \in d.children} /\ e.inst = closed.inst
    BY <2>5, <2>10, RefreshTasksFields
  <2> HIDE DEF e, started
  <2>12. SameFamily(d, e)
    BY <2>4, <2>6, <2>7, <2>9, <2>11 DEF SameFamily, Running
  <2>13. \A x \in d.children : Agrees(e, after(x))
    BY <2>1, <2>6, <2>7, <2>9, <2>11 DEF AllAgree, Agrees, Running, SameChild
  <2> QED
    BY <2>11, <2>12, <2>13 DEF AllAgree
<1> QED
  BY <1>1, <1>2

-------------------------------------------------------------------------------
(* The starts of a checkpoint. *)

\* No two starts in the hands of a handler have one key.
HeldKeys == \A c \in held : \A x, y \in c.starts : x.key = y.key => x = y
KeysOf(c) == {x.key : x \in c.starts}

LEMMA HeldKeysStep ==
    ASSUME Inv, HeldKeys, [Next]_vars
    PROVE  HeldKeys'
<1> SUFFICES ASSUME NEW f \in held' PROVE \A x, y \in f.starts : x.key = y.key => x = y
  BY DEF HeldKeys
<1>1. CASE \E c \in held : Remains(c, f)
  BY <1>1 DEF HeldKeys, Remains
<1>2. CASE Handed(f)
  BY <1>2 DEF Handed
<1>3. ASSUME NEW c \in held, NEW now \in Instants, NEW start \in ChildStart, Buffers(c, start, now, f)
      PROVE  \A x, y \in f.starts : x.key = y.key => x = y
  <2> DEFINE new == Decided(start, now)
  <2>1. f.starts = c.starts \cup {new} /\ \A x \in c.starts : x.key # start.key
    BY <1>3 DEF Buffers, BufferStart
  <2>2. new.key = start.key
    BY DEF Decided, ChildStart
  <2> HIDE DEF new
  <2> QED
    BY <2>1, <2>2 DEF HeldKeys
<1> QED
  BY <1>1, <1>2, <1>3, HeldStep DEF Buffered

\* Both tables have the same records, however they have changed.
SameRecords(C, D) ==
    /\ \A x \in C : \E f \in D : SameChild(x, f)
    /\ \A f \in D : \E x \in C : SameChild(x, f)

LEMMA SameRecordsTransitive ==
    ASSUME NEW C, NEW D, NEW E, SameRecords(C, D), SameRecords(D, E)
    PROVE  SameRecords(C, E)
<1>1. \A x, f, g : SameChild(x, f) /\ SameChild(f, g) => SameChild(x, g)
  BY DEF SameChild
<1> QED
  BY <1>1 DEF SameRecords

\* The records of a checkpoint: those there were (d1), which the reports leave as they are but
\* for what is delivered, and those of its starts (d2), each with a key of its own.
CommitAdds(c, d1, d2) ==
    /\ StartsLinked(d1, d2, c.act, KeysOf(c))
    /\ \A x \in db.children : \E f \in d1.children : SameChild(x, f) /\ f.status = x.status
    /\ \A f \in d1.children : \E x \in db.children : SameChild(x, f) /\ f.status = x.status
    /\ SameRecords(d2.children, db'.children)

LEMMA CommitStarts ==
    ASSUME Inv, HeldStarts, HeldKeys, NEW c \in held, NEW next \in {"running"} \cup Closed,
           NEW waits \in SUBSET Wait, NEW starts \in Seq(ChildStart), NEW now \in Nat,
           NEW d1 \in Tables, NEW d2 \in Tables, NEW d3 \in Tables, NEW d4 \in Tables,
           CommitParts(c, next, waits, starts, now, d1, d2, d3, d4)
    PROVE  CommitAdds(c, d1, d2)
<1> DEFINE r   == c.act.ref
           seq == db.inst[r].seq + 1
<1>1. /\ c \in Claim /\ db \in Tables /\ r \in Refs /\ db.inst[r] \in Instance
      /\ seq \in Nat \ {0}
  <2>1. c \in Claim /\ db \in Tables
    BY DEF Inv, TypeOK
  <2>2. r \in Refs
    BY <2>1, ClaimFields
  <2>3. db.inst[r] \in Instance /\ db.inst[r].seq \in Nat
    BY <2>1, <2>2, InstanceFields
  <2> HIDE DEF r
  <2>4. seq \in Nat /\ seq # 0
    BY <2>3
  <2> QED
    BY <2>1, <2>2, <2>3, <2>4
<1>2. /\ Len(starts) <= 2 /\ Distinct(starts)
      /\ \A k \in DOMAIN starts : starts[k] \in c.starts /\ Accepted(d1, starts[k])
      /\ Sound(d2)
      /\ d1.children = {IF c.act.kind = "child" /\ x.id = c.act.n THEN [x EXCEPT !.delivered = seq] ELSE x : x \in db.children}
      /\ d2 = StartedAll(d1, c, starts, now)
      /\ d3 = UpdateParentRecord(d2, db.inst[r], next, now)
      /\ d4 = ApplyClosePolicy(d3, r, next, seq, now)
      /\ db'.inst = d4.inst /\ db'.children = d4.children
  BY DEF CommitParts, CheckpointParts
<1> HIDE DEF r, seq
<1>3. \A x \in db.children : x \in Child
  BY <1>1 DEF Tables
<1>4. StartsLinked(d1, d2, c.act, {starts[i].key : i \in DOMAIN starts})
  <2>1. \A i, j \in DOMAIN starts : i # j => starts[i].key # starts[j].key
    BY <1>2 DEF Distinct, HeldKeys
  <2> QED
    BY <1>1, <1>2, <2>1, StartedAllLinks
<1>5. StartsLinked(d1, d2, c.act, KeysOf(c))
  <2>1. \A k \in {starts[i].key : i \in DOMAIN starts} : k \in KeysOf(c)
    BY <1>2 DEF KeysOf
  <2> QED
    BY <1>4, <2>1 DEF StartsLinked
<1>6. /\ \A x \in db.children : \E f \in d1.children : SameChild(x, f) /\ f.status = x.status
      /\ \A f \in d1.children : \E x \in db.children : SameChild(x, f) /\ f.status = x.status
  <2> DEFINE after(x) == IF c.act.kind = "child" /\ x.id = c.act.n THEN [x EXCEPT !.delivered = seq] ELSE x
  <2>1. \A x \in db.children : SameChild(x, after(x)) /\ after(x).status = x.status
    BY <1>3 DEF SameChild, Child
  <2>2. d1.children = {after(x) : x \in db.children}
    BY <1>2
  <2> HIDE DEF after
  <2> QED
    BY <2>1, <2>2
<1>7. SameRecords(d2.children, d3.children) /\ d3.inst = d2.inst
  BY <1>1, <1>2, UpdateParentRecordKeeps DEF Sound, SameRecords, Closing
<1>8. SameRecords(d3.children, d4.children)
  <2>1. Closing(d3.children, d4.children, IF next \in {"failed", "canceled"} THEN {seq} ELSE {})
    BY <1>1, <1>2, ApplyClosePolicyKeeps
  <2> QED
    BY <2>1 DEF SameRecords, Closing
<1> QED
  BY <1>2, <1>5, <1>6, <1>7, <1>8, SameRecordsTransitive DEF CommitAdds

-------------------------------------------------------------------------------
(* The runs and their records. *)

\* Every record a step adds is of a run that was not there before, and of one of its own.  A
\* start whose reuse policy keeps a run adds a record of a run that knows nothing of it.
NewRecords == {f \in db'.children : f.id > db.childCounter}
ChildrenAreNew ==
    /\ \A f \in NewRecords : db.inst[f.ref].status = "absent"
    /\ \A f, g \in NewRecords : f.ref = g.ref => f = g

Family(d) == Linked(d) /\ AllAgree(d)

LEMMA SameFamilies ==
    ASSUME NEW d, NEW e, Family(d), e.inst = d.inst, e.children = d.children
    PROVE  Family(e)
  BY DEF Family, Linked, AllAgree, Agrees, Running

LEMMA BegunKeepsFamily ==
    ASSUME NEW d \in Tables, NEW e \in Tables, NEW r \in Refs, Sound(d), Family(d),
           Begun(d, e, r), d.inst[r].status = "absent"
    PROVE  Family(e)
<1>1. \A x \in d.children : x.ref \in Refs /\ x.id # 0
  BY RecordFields
<1>2. \A x \in d.children : x.ref # r /\ e.inst[x.ref] = d.inst[x.ref]
  BY <1>1 DEF Family, Linked, Begun
<1>3. \A x \in e.children : e.inst[x.ref].parent = x.id /\ Agrees(e, x)
  BY <1>2 DEF Family, Linked, AllAgree, Agrees, Running, Begun
<1>4. \A q \in Refs : e.inst[q].status = "absent" => e.inst[q].parent = 0
  BY DEF Family, Linked, Begun
<1>5. \A q \in Refs : e.inst[q].parent # 0 => \E x \in e.children : x.id = e.inst[q].parent /\ x.ref = q
  BY DEF Family, Linked, Begun
<1> QED
  BY <1>3, <1>4, <1>5 DEF Family, Linked, AllAgree

LEMMA ArrivesKeepsFamily ==
    ASSUME Inv, Family(db), Arrives, NobodyTerminates
    PROVE  Family(db')
<1>1. db \in Tables /\ Sound(db)
  BY DEF Inv, TypeOK
<1>2. ASSUME NEW r \in Refs, Begins(r) PROVE Family(db')
  BY <1>1, <1>2, BegunKeepsFamily DEF Begins, Begun, NobodyTerminates
<1>3. ASSUME NEW r \in Refs, Receives(r) PROVE Family(db')
  BY <1>3, SameFamilies DEF Receives, SignalAdded
<1>4. ASSUME NEW r \in Refs, BeginsWithSignal(r) PROVE Family(db')
  <2>1. PICK e \in Tables : Begun(db, e, r) /\ SignalAdded(e, db', r)
    BY <1>4 DEF BeginsWithSignal
  <2>2. Family(e)
    BY <1>1, <1>4, <2>1, BegunKeepsFamily DEF BeginsWithSignal
  <2> QED
    BY <2>1, <2>2, SameFamilies DEF SignalAdded
<1> QED
  BY <1>2, <1>3, <1>4 DEF Arrives

\* A start that is sent at once.
LEMMA CreatesLinks ==
    ASSUME TypeOK, NEW c \in held, NEW now \in Instants, NEW start \in At(EagerStarts, c), CreateChild(c, start, now)
    PROVE  StartsLinked(db, db', c.act, {start.key})
<1> DEFINE eager == [start EXCEPT !.at = now, !.conflict = "fail"]
<1>1. c \in Claim /\ db \in Tables /\ now \in Nat
  BY InstantsType DEF TypeOK
<1>2. start \in ChildStart
  BY InputAssumption DEF At
<1>3. /\ eager \in ChildStart /\ eager.ref = start.ref /\ eager.conflict = "fail"
      /\ eager.reuse = start.reuse /\ eager.key = start.key
  BY <1>1, <1>2 DEF ChildStart, ConflictPolicies
<1>4. db' = Started(db, c, eager, now) /\ (KeptRun(db, start) = {} => db.inst[start.ref].status = "absent")
  BY DEF CreateChild
<1> HIDE DEF eager
<1>5. KeptRun(db, eager) = KeptRun(db, start)
  BY <1>3 DEF KeptRun
<1>6. Accepted(db, eager)
  BY <1>3, <1>4, <1>5 DEF Accepted
<1> QED
  BY <1>1, <1>3, <1>4, <1>6, StartedLinks

LEMMA CreatesKeepsFamily ==
    ASSUME Inv, Family(db), Creates, ChildrenAreNew
    PROVE  Family(db')
<1>1. db \in Tables /\ Sound(db) /\ TypeOK
  BY DEF Inv, TypeOK
<1>2. PICK c \in held, now \in Instants : \E start \in At(EagerStarts, c) : CreateChild(c, start, now)
  BY DEF Creates
<1>3. PICK start \in At(EagerStarts, c) : CreateChild(c, start, now)
  BY <1>2
<1>4. StartsLinked(db, db', c.act, {start.key})
  BY <1>1, <1>3, CreatesLinks
<1>5. \A x \in db'.children \ db.children : x \in NewRecords
  BY <1>4 DEF StartsLinked, NewRecords
<1> QED
  BY <1>1, <1>4, <1>5, StartsKeepLinked DEF Family, ChildrenAreNew

LEMMA CancelsKeepsFamily ==
    ASSUME Inv, Family(db), Cancels
    PROVE  Family(db')
<1>1. db \in Tables /\ Sound(db) /\ TypeOK
  BY DEF Inv, TypeOK
<1>2. PICK c \in held, now \in Instants, r \in Refs : CancelChild(c, r, now)
  BY DEF Cancels
<1>3. c.act.ref \in Refs /\ now \in Nat
  BY <1>1, InstantsType, ClaimFields DEF TypeOK
<1>4. db' = CancelChildRun(db, c.act.ref, r, now)
  BY <1>2 DEF CancelChild
<1>5. db' \in Tables
  BY <1>1, <1>3, <1>4, CancelChildRunKeeps
<1>6. SameFamily(db, db') /\ AllAgree(db')
  BY <1>1, <1>3, <1>4, CanceledWithRecord DEF Family
<1> QED
  BY <1>1, <1>5, <1>6, LinkedStays DEF Family

\* A checkpoint: its run advances, its starts come with their runs, the parent of a run that ends
\* is told, and the children of a run that fails are closed with it.
LEMMA CommitsKeepFamily ==
    ASSUME Inv, HeldStarts, HeldKeys, Family(db), Commits, ChildrenAreNew
    PROVE  Family(db')
<1>1. PICK c \in held, next \in {"running"} \cup Closed, waits \in SUBSET Wait, now \in Nat :
           \E starts \in Seq(ChildStart), d1, d2, d3, d4 \in Tables :
               CommitParts(c, next, waits, starts, now, d1, d2, d3, d4)
  BY CommitInParts
<1>2. PICK starts \in Seq(ChildStart), d1 \in Tables, d2 \in Tables, d3 \in Tables, d4 \in Tables :
           CommitParts(c, next, waits, starts, now, d1, d2, d3, d4)
  BY <1>1
<1> DEFINE r   == c.act.ref
           seq == db.inst[r].seq + 1
           n   == NextInstance(db, db.inst[r], next, waits, VersionOf[c.worker], now)
<1>3. /\ db \in Tables /\ Sound(db) /\ r \in Refs
  BY ClaimFields DEF Inv, TypeOK
<1>4. db.inst[r] \in Instance /\ db.inst[r].seq \in Nat /\ db.inst \in [Refs -> Instance]
  BY <1>3, InstanceFields DEF Tables
<1>5. /\ Running(db, r)
      /\ Sound(d1) /\ Sound(d2) /\ Sound(d3)
      /\ n \in Instance
      /\ d1.inst = [db.inst EXCEPT ![r] = n] /\ d1.childCounter = db.childCounter
      /\ d3 = UpdateParentRecord(d2, db.inst[r], next, now)
      /\ d4 = ApplyClosePolicy(d3, r, next, seq, now)
      /\ db'.inst = d4.inst /\ db'.children = d4.children
  BY <1>2 DEF CommitParts, CheckpointParts
<1>6. n.status = next /\ n.parent = db.inst[r].parent
  BY <1>4 DEF NextInstance, Instance
<1> HIDE DEF n
<1>7. /\ StartsLinked(d1, d2, c.act, KeysOf(c))
      /\ \A x \in db.children : \E f \in d1.children : SameChild(x, f) /\ f.status = x.status
      /\ \A f \in d1.children : \E x \in db.children : SameChild(x, f) /\ f.status = x.status
      /\ SameRecords(d2.children, db'.children)
  <2>1. CommitAdds(c, d1, d2)
    BY <1>2, CommitStarts
  <2> QED
    BY <2>1 DEF CommitAdds
<1>8. seq \in Nat \ {0}
  <2>1. seq \in Nat /\ seq # 0
    BY <1>4
  <2> QED
    BY <2>1
<1> HIDE DEF r, seq
<1>9. \A q \in Refs : d1.inst[q] = IF q = r THEN n ELSE db.inst[q]
  BY <1>4, <1>5
<1>10. next # "absent"
  BY DEF Closed
<1>11. SameFamily(db, d1)
  BY <1>5, <1>6, <1>7, <1>9, <1>10 DEF SameFamily, Running
<1>12. Linked(d1)
  BY <1>3, <1>11, LinkedStays DEF Family
<1>13. AgreeBut(d1, r) /\ (next = "running" => AllAgree(d1))
  <2>1. ASSUME NEW f \in d1.children, f.ref # r \/ next = "running" PROVE Agrees(d1, f)
    <3>1. PICK x \in db.children : SameChild(x, f) /\ f.status = x.status
      BY <1>7
    <3>2. f.ref \in Refs /\ x.ref = f.ref
      BY <3>1 DEF Tables, Child, SameChild
    <3>3. Running(d1, f.ref) <=> Running(db, f.ref)
      BY <1>5, <1>6, <1>9, <2>1, <3>2 DEF Running
    <3> QED
      BY <3>1, <3>2, <3>3 DEF Family, AllAgree, Agrees
  <2> QED
    BY <2>1 DEF AgreeBut, AllAgree
<1>14. \A x \in d2.children \ d1.children : \E f \in NewRecords : f.id = x.id /\ f.ref = x.ref
  <2> SUFFICES ASSUME NEW x \in d2.children, x \notin d1.children
               PROVE  \E f \in NewRecords : f.id = x.id /\ f.ref = x.ref
    OBVIOUS
  <2>1. x.id > db.childCounter
    BY <1>5, <1>7 DEF StartsLinked
  <2>2. PICK f \in db'.children : f.id = x.id /\ f.ref = x.ref
    BY <1>7 DEF SameRecords, SameChild
  <2> QED
    BY <2>1, <2>2 DEF NewRecords
<1>15. \A x \in d2.children \ d1.children : d1.inst[x.ref].status = "absent"
  <2> SUFFICES ASSUME NEW x \in d2.children, x \notin d1.children
               PROVE  d1.inst[x.ref].status = "absent"
    OBVIOUS
  <2>1. db.inst[x.ref].status = "absent"
    BY <1>14 DEF ChildrenAreNew
  <2>2. x.ref # r /\ x.ref \in Refs
    BY <1>5, <2>1 DEF Running, Tables, Child
  <2> QED
    BY <1>9, <2>1, <2>2
<1>16. \A x, y \in d2.children \ d1.children : x.ref = y.ref => x = y
  <2> SUFFICES ASSUME NEW x \in d2.children \ d1.children, NEW y \in d2.children \ d1.children, x.ref = y.ref
               PROVE  x = y
    OBVIOUS
  <2>1. x.id = y.id
    BY <1>14 DEF ChildrenAreNew
  <2> QED
    BY <1>5, <2>1 DEF Sound, Numbered
<1>17. Linked(d2) /\ AgreeBut(d2, r) /\ (next = "running" => AllAgree(d2))
  BY <1>3, <1>5, <1>7, <1>12, <1>13, <1>15, <1>16, StartsKeepLinked
<1>18. d2.inst[r] = n
  BY <1>3, <1>6, <1>7, <1>9, <1>10 DEF StartsLinked
<1>19. SameFamily(d2, d3) /\ AllAgree(d3)
  BY <1>3, <1>4, <1>5, <1>6, <1>17, <1>18, ParentIsTold
<1>20. Linked(d3)
  BY <1>17, <1>19, LinkedStays
<1>21. SameFamily(d3, d4) /\ AllAgree(d4)
  BY <1>5, <1>8, <1>19, <1>20, ClosedTogether
<1>22. Linked(d4)
  BY <1>20, <1>21, LinkedStays
<1> QED
  BY <1>5, <1>21, <1>22, SameFamilies DEF Family

FamilyInv == HeldKeys /\ Family(db)

LEMMA FamilyInit == Init => FamilyInv
<1> SUFFICES ASSUME Init PROVE FamilyInv
  OBVIOUS
<1>1. held = {} /\ db.children = {} /\ \A q \in Refs : db.inst[q] = NoInstance
  BY DEF Init, EmptyTables
<1>2. NoInstance.parent = 0
  BY DEF NoInstance
<1> QED
  BY <1>1, <1>2 DEF FamilyInv, HeldKeys, Family, Linked, AllAgree

LEMMA FamilyStep ==
    ASSUME BaseInv, FamilyInv, [Next]_vars, [ChildrenAreNew]_vars, NobodyTerminates
    PROVE  FamilyInv'
<1>1. Inv /\ HeldStarts /\ HeldKeys /\ Family(db) /\ TypeOK
  BY DEF BaseInv, WorkInv, FamilyInv, Inv
<1>2. HeldKeys'
  BY <1>1, HeldKeysStep
<1>3. Family(db')
  <2>1. CASE UNCHANGED vars
    BY <1>1, <2>1 DEF vars
  <2>2. CASE ChildrenAreNew
    <3>1. CASE QuietStep
      BY <1>1, <3>1, SameFamilies DEF QuietStep, QuietlyKeeps, Quiet
    <3>2. CASE StartsOrSignals
      BY <1>1, <3>2, ClientsArrive, ArrivesKeepsFamily
    <3>3. CASE Commits
      BY <1>1, <2>2, <3>3, CommitsKeepFamily
    <3>4. CASE Creates
      BY <1>1, <2>2, <3>4, CreatesKeepsFamily
    <3>5. CASE Cancels
      BY <1>1, <3>5, CancelsKeepsFamily
    <3> QED
      BY <1>1, <3>1, <3>2, <3>3, <3>4, <3>5, StepKinds
  <2> QED
    BY <2>1, <2>2
<1>4. Family(db)'
  BY <1>3 DEF Family, Linked, AllAgree, Agrees, Running
<1> QED
  BY <1>2, <1>4 DEF FamilyInv

\* As long as every start creates a run, each run that is somebody's child and its record belong
\* together, whatever checkpoints, cancellations and closing parents do (create_child_instance,
\* commit_checkpoint, apply_parent_close_policy, cancel_child_in_state).
THEOREM FamiliesHold ==
    ASSUME RuntimeStarts, NoSelfStart, NobodyTerminates
    PROVE  Spec /\ [][ChildrenAreNew]_vars => []FamilyInv
<1>1. BaseInv /\ FamilyInv /\ [Next]_vars /\ [ChildrenAreNew]_vars => FamilyInv'
  BY FamilyStep
<1> QED
  BY <1>1, FamilyInit, BaseHolds, PTL DEF Spec

\* A record that says "started" is about a run that is running: a parent never waits for a child
\* that has gone without its record being told (commit_checkpoint,
\* apply_parent_close_policy, cancel_child_in_state).
THEOREM StartedChildrenRun ==
    ASSUME RuntimeStarts, NoSelfStart, NobodyTerminates
    PROVE  Spec /\ [][ChildrenAreNew]_vars => []StartedChildIsRunning
<1>1. FamilyInv => StartedChildIsRunning
  BY DEF FamilyInv, Family, AllAgree, Agrees, StartedChildIsRunning
<1> QED
  BY <1>1, FamiliesHold, PTL

\* A run with a parent is known to it, while it runs and when it has closed
\* (create_child_instance, commit_checkpoint, cancel_child_in_state).
THEOREM ChildrenAreKnown ==
    ASSUME RuntimeStarts, NoSelfStart, NobodyTerminates
    PROVE  Spec /\ [][ChildrenAreNew]_vars => []ChildKnownToParent
<1>1. FamilyInv => ChildKnownToParent
  BY DEF FamilyInv, Family, Linked, AllAgree, Agrees, ChildKnownToParent
<1> QED
  BY <1>1, FamiliesHold, PTL

-------------------------------------------------------------------------------
(* Starts that keep no run. *)

\* Every start creates a run, whatever runs its id has had; and so do those in the hands of workers.
StartsAlways == \A x \in CheckpointStarts \cup EagerStarts : x.start.reuse = "always"
HeldAlways == \A c \in held : \A x \in c.starts : x.reuse = "always"
AlwaysInv == HeldKeys /\ HeldAlways

\* The records that are added are of runs in S that were not there, each of its own.
StartsFresh(d, e, S) ==
    /\ \A x \in e.children \ d.children : x.ref \in S /\ d.inst[x.ref].status = "absent"
    /\ \A x, y \in e.children \ d.children : x.ref = y.ref => x = y

Fresh(start, d) == start.reuse = "always" /\ start.conflict # "terminate_existing" /\ d.inst[start.ref].status = "absent"

LEMMA AlwaysKeepsNone ==
    ASSUME NEW d, NEW start, start.reuse = "always"
    PROVE  KeptRun(d, start) = {}
  BY DEF KeptRun, ShouldCreate

LEMMA StartChildRecord ==
    ASSUME NEW d \in Tables, NEW a \in Activation, NEW start \in ChildStart,
           NEW version \in Nat, NEW waits \in SUBSET Wait, NEW now \in Nat
    PROVE  \A x \in StartChild(d, a, start, version, waits, now).children \ d.children : x.ref = start.ref
<1> DEFINE r  == start.ref
           id == d.childCounter + 1
           d1 == NewInstance(d, r, version, waits, id, now)
           d2 == WithRecord(d1, a, start, r)
           e  == ReplaceTasks(d2, r)
<1>1. r \in Refs /\ id \in Nat
  BY DEF ChildStart, Tables
<1>2. StartChild(d, a, start, version, waits, now) = e
  BY DEF StartChild
<1> HIDE DEF r, id
<1>3. /\ d1 \in Tables
      /\ \A q \in Refs : q # r => d1.inst[q] = d.inst[q]
      /\ d1.inst[r].status = "running" /\ d1.inst[r].parent = id
      /\ d1.children = d.children /\ d1.childCounter = d.childCounter
  BY <1>1, NewInstanceFields
<1> HIDE DEF d1
<1> DEFINE x == ChildRecord(d1, a, start, r)
<1>4. d2 \in Tables /\ d2.children = d.children \cup {x}
  BY <1>1, <1>3, WithRecordKeeps
<1>5. x.ref = r
  BY DEF ChildRecord
<1> HIDE DEF x, d2
<1>6. e.children = d2.children
  BY <1>1, <1>4, ReplaceTasksFields
<1> HIDE DEF e
<1> QED
  BY <1>2, <1>4, <1>5, <1>6 DEF r

LEMMA StartedFresh ==
    ASSUME NEW d \in Tables, NEW c \in Claim, NEW start \in ChildStart, NEW now \in Nat, Fresh(start, d)
    PROVE  StartsFresh(d, Started(d, c, start, now), {start.ref})
<1> DEFINE waits == Materialize(InitialWaits[start.ref[1]], start.at, start.at)
           e     == StartChild(d, c.act, start, VersionOf[c.worker], waits, now)
<1>1. start.ref \in Refs /\ start.at \in Nat
  BY DEF ChildStart
<1>2. waits \in SUBSET Wait
  BY <1>1, InitialWaitsType
<1>3. c.act \in Activation /\ VersionOf[c.worker] \in Nat
  BY VersionOfType, ClaimFields
<1>4. Started(d, c, start, now) = e
  BY AlwaysKeepsNone DEF Fresh, Started, WriteChildStart
<1> HIDE DEF waits
<1>5. \A x \in e.children \ d.children : x.ref = start.ref
  BY <1>2, <1>3, StartChildRecord
<1>6. StartsLinked(d, e, c.act, {start.key})
  BY <1>2, <1>3, StartChildLinks DEF Fresh
<1> HIDE DEF e
<1>7. \A x, y \in e.children \ d.children : x = y
  BY <1>6 DEF StartsLinked
<1> QED
  BY <1>4, <1>5, <1>7 DEF StartsFresh, Fresh

LEMMA StartedAllFresh ==
    ASSUME NEW d \in Tables, NEW c \in Claim, NEW starts \in Seq(ChildStart), Len(starts) <= 2, NEW now \in Nat,
           Distinct(starts), \A i \in DOMAIN starts : Fresh(starts[i], d)
    PROVE  StartsFresh(d, StartedAll(d, c, starts, now), {starts[i].ref : i \in DOMAIN starts})
<1>1. /\ Len(starts) \in Nat /\ DOMAIN starts = 1..Len(starts)
      /\ \A i \in 1..Len(starts) : starts[i] \in ChildStart
  OBVIOUS
<1>2. CASE Len(starts) = 0
  <2>1. StartedAll(d, c, starts, now) = d
    BY <1>2, <1>1 DEF StartedAll
  <2> QED
    BY <2>1 DEF StartsFresh
<1>3. CASE Len(starts) = 1
  <2>1. /\ StartedAll(d, c, starts, now) = Started(d, c, starts[1], now)
        /\ starts[1] \in ChildStart /\ Fresh(starts[1], d)
        /\ {starts[i].ref : i \in DOMAIN starts} = {starts[1].ref}
    <3>1. DOMAIN starts = {1}
      BY <1>3, <1>1
    <3> QED
      BY <1>3, <1>1, <3>1 DEF StartedAll
  <2> QED
    BY <2>1, StartedFresh
<1>4. CASE Len(starts) = 2
  <2> DEFINE e == Started(d, c, starts[1], now)
             f == Started(e, c, starts[2], now)
             p == starts[1].ref
             q == starts[2].ref
  <2>1. /\ StartedAll(d, c, starts, now) = f
        /\ starts[1] \in ChildStart /\ starts[2] \in ChildStart
        /\ Fresh(starts[1], d) /\ Fresh(starts[2], d) /\ p # q
        /\ {starts[i].ref : i \in DOMAIN starts} = {p, q}
    <3>1. DOMAIN starts = {1, 2}
      BY <1>4, <1>1
    <3> QED
      BY <1>4, <1>1, <3>1 DEF StartedAll, Distinct
  <2>2. StartsRuns(d, e, {p}) /\ StartsFresh(d, e, {p})
    <3>1. Accepted(d, starts[1])
      BY <2>1 DEF Fresh, Accepted
    <3> QED
      BY <2>1, <3>1, StartedKeeps, StartedFresh
  <2>3. e \in Tables /\ p \in Refs /\ q \in Refs
    BY <2>1, <2>2 DEF StartsRuns, ChildStart
  <2> HIDE DEF e
  <2>4. e.inst[q] = d.inst[q]
    BY <2>1, <2>2, <2>3 DEF StartsRuns
  <2>5. StartsFresh(e, f, {q})
    BY <2>1, <2>3, <2>4, StartedFresh DEF Fresh
  <2> HIDE DEF f, p, q
  <2>6. \A x \in f.children \ d.children :
           \/ x \in e.children \ d.children /\ x.ref = p
           \/ x \in f.children \ e.children /\ x.ref = q
    BY <2>2, <2>5 DEF StartsFresh
  <2>7. d.inst[p].status = "absent" /\ d.inst[q].status = "absent"
    BY <2>1 DEF Fresh, p, q
  <2>8. StartsFresh(d, f, {p, q})
    BY <2>1, <2>2, <2>5, <2>6, <2>7 DEF StartsFresh
  <2> QED
    BY <2>1, <2>8
<1>5. \A n \in Nat : n <= 2 => n = 0 \/ n = 1 \/ n = 2
  OBVIOUS
<1> QED
  BY <1>2, <1>3, <1>4, <1>5, <1>1

LEMMA HeldAlwaysStep ==
    ASSUME Inv, HeldAlways, StartsAlways, [Next]_vars
    PROVE  HeldAlways'
<1> SUFFICES ASSUME NEW f \in held' PROVE \A x \in f.starts : x.reuse = "always"
  BY DEF HeldAlways
<1>1. CASE \E c \in held : Remains(c, f)
  BY <1>1 DEF HeldAlways, Remains
<1>2. CASE Handed(f)
  BY <1>2 DEF Handed
<1>3. ASSUME NEW c \in held, NEW now \in Instants, NEW start \in ChildStart, Buffers(c, start, now, f)
      PROVE  \A x \in f.starts : x.reuse = "always"
  <2> DEFINE new == Decided(start, now)
  <2>1. f.starts = c.starts \cup {new} /\ start \in At(CheckpointStarts, c)
    BY <1>3 DEF Buffers
  <2>2. start.reuse = "always"
    BY <2>1 DEF At, StartsAlways
  <2>3. new.reuse = "always"
    BY <2>2 DEF Decided, ChildStart
  <2> HIDE DEF new
  <2> QED
    BY <2>1, <2>3 DEF HeldAlways
<1> QED
  BY <1>1, <1>2, <1>3, HeldStep DEF Buffered

LEMMA CreatesNew ==
    ASSUME Inv, Creates, StartsAlways
    PROVE  ChildrenAreNew
<1>1. db \in Tables /\ TypeOK /\ \A x \in db.children : x.id \in 1..db.childCounter
  BY DEF Inv, TypeOK, Sound, Numbered
<1>2. PICK c \in held, now \in Instants : \E start \in At(EagerStarts, c) : CreateChild(c, start, now)
  BY DEF Creates
<1>3. PICK start \in At(EagerStarts, c) : CreateChild(c, start, now)
  BY <1>2
<1> DEFINE eager == [start EXCEPT !.at = now, !.conflict = "fail"]
<1>4. c \in Claim /\ now \in Nat
  BY <1>1, InstantsType DEF TypeOK
<1>5. start \in ChildStart /\ start.reuse = "always"
  BY InputAssumption DEF At, StartsAlways
<1>6. /\ eager \in ChildStart /\ eager.ref = start.ref /\ eager.conflict = "fail" /\ eager.reuse = "always"
  BY <1>4, <1>5 DEF ChildStart, ConflictPolicies
<1>7. db' = Started(db, c, eager, now) /\ db.inst[start.ref].status = "absent"
  BY <1>3, <1>5, AlwaysKeepsNone DEF CreateChild
<1> HIDE DEF eager
<1>8. StartsFresh(db, db', {eager.ref})
  BY <1>1, <1>4, <1>6, <1>7, StartedFresh DEF Fresh
<1>9. \A f \in NewRecords : f \in db'.children \ db.children
  BY <1>1 DEF NewRecords, Tables
<1> QED
  BY <1>8, <1>9 DEF StartsFresh, ChildrenAreNew

\* The starts of a checkpoint are for runs that are not there, or it is refused.
LEMMA CommitsNew ==
    ASSUME Inv, Inv', HeldStarts, AlwaysInv, Commits
    PROVE  ChildrenAreNew
<1>1. PICK c \in held, next \in {"running"} \cup Closed, waits \in SUBSET Wait, now \in Nat :
           \E starts \in Seq(ChildStart), d1, d2, d3, d4 \in Tables :
               CommitParts(c, next, waits, starts, now, d1, d2, d3, d4)
  BY CommitInParts
<1>2. PICK starts \in Seq(ChildStart), d1 \in Tables, d2 \in Tables, d3 \in Tables, d4 \in Tables :
           CommitParts(c, next, waits, starts, now, d1, d2, d3, d4)
  BY <1>1
<1> DEFINE r == c.act.ref
           n == NextInstance(db, db.inst[r], next, waits, VersionOf[c.worker], now)
<1>3. /\ db \in Tables /\ db' \in Tables /\ c \in Claim /\ r \in Refs /\ db.inst \in [Refs -> Instance]
      /\ \A x \in db.children : x.id \in 1..db.childCounter
      /\ \A f, g \in db'.children : f.id = g.id => f = g
  BY ClaimFields DEF Inv, TypeOK, Sound, Numbered, Tables
<1>4. /\ Len(starts) <= 2 /\ Distinct(starts) /\ d1.inst = [db.inst EXCEPT ![r] = n]
      /\ \A k \in DOMAIN starts : starts[k] \in c.starts /\ Accepted(d1, starts[k])
      /\ d2 = StartedAll(d1, c, starts, now)
  BY <1>2 DEF CommitParts, CheckpointParts
<1>5. n.status # "absent"
  BY <1>3 DEF NextInstance, Instance, Closed
<1>6. CommitAdds(c, d1, d2)
  BY <1>2, CommitStarts DEF AlwaysInv
<1> HIDE DEF r, n
<1>7. \A q \in Refs : d1.inst[q].status = "absent" => db.inst[q].status = "absent"
  BY <1>3, <1>4, <1>5
<1>8. \A k \in DOMAIN starts : Fresh(starts[k], d1)
  BY <1>4, AlwaysKeepsNone DEF AlwaysInv, HeldAlways, Accepted, Fresh
<1>9. StartsFresh(d1, d2, {starts[i].ref : i \in DOMAIN starts})
  BY <1>3, <1>4, <1>8, StartedAllFresh
<1>10. \A f \in NewRecords : \E x \in d2.children \ d1.children : SameChild(x, f)
  <2> SUFFICES ASSUME NEW f \in NewRecords PROVE \E x \in d2.children \ d1.children : SameChild(x, f)
    OBVIOUS
  <2>1. f \in db'.children /\ f.id > db.childCounter /\ db.childCounter \in Nat
    BY <1>3 DEF NewRecords, Tables
  <2>2. PICK x \in d2.children : SameChild(x, f)
    BY <1>6, <2>1 DEF CommitAdds, SameRecords
  <2>3. ASSUME x \in d1.children PROVE FALSE
    <3>1. PICK y \in db.children : SameChild(y, x)
      BY <1>6, <2>3 DEF CommitAdds
    <3>2. y.id = f.id /\ y.id \in 1..db.childCounter
      BY <1>3, <2>2, <3>1 DEF SameChild
    <3> QED
      BY <2>1, <3>2
  <2> QED
    BY <2>2, <2>3
<1>11. ASSUME NEW f \in NewRecords PROVE db.inst[f.ref].status = "absent"
  <2>1. PICK x \in d2.children \ d1.children : SameChild(x, f)
    BY <1>10
  <2>2. x.ref = f.ref /\ d1.inst[x.ref].status = "absent" /\ x.ref \in Refs
    BY <1>9, <2>1 DEF SameChild, StartsFresh, Tables, Child
  <2> QED
    BY <1>7, <2>2
<1>12. ASSUME NEW f \in NewRecords, NEW g \in NewRecords, f.ref = g.ref PROVE f = g
  <2>1. PICK x \in d2.children \ d1.children : SameChild(x, f)
    BY <1>10
  <2>2. PICK y \in d2.children \ d1.children : SameChild(y, g)
    BY <1>10
  <2>3. x = y
    BY <1>9, <1>12, <2>1, <2>2 DEF SameChild, StartsFresh
  <2>4. f.id = g.id /\ f \in db'.children /\ g \in db'.children
    BY <2>1, <2>2, <2>3 DEF SameChild, NewRecords
  <2> QED
    BY <1>3, <2>4
<1> QED
  BY <1>11, <1>12 DEF ChildrenAreNew

LEMMA AlwaysNew ==
    ASSUME BaseInv, BaseInv', AlwaysInv, StartsAlways, [Next]_vars, NobodyTerminates
    PROVE  AlwaysInv' /\ ChildrenAreNew
<1>1. Inv /\ Inv' /\ HeldStarts /\ TypeOK /\ db \in Tables /\ Sound(db)
  BY DEF BaseInv, WorkInv, Inv, TypeOK
<1>2. AlwaysInv'
  BY <1>1, HeldKeysStep, HeldAlwaysStep DEF AlwaysInv
<1>3. ChildrenAreNew
  <2>1. ASSUME SameRecords(db.children, db'.children) PROVE ChildrenAreNew
    <3>1. \A f \in db'.children : f.id \in 1..db.childCounter
      BY <1>1, <2>1 DEF SameRecords, SameChild, Sound, Numbered
    <3>2. db.childCounter \in Nat
      BY <1>1 DEF Tables
    <3> QED
      BY <3>1, <3>2 DEF NewRecords, ChildrenAreNew
  <2>2. db'.children = db.children => SameRecords(db.children, db'.children)
    BY DEF SameRecords, SameChild
  <2>3. CASE QuietStep
    BY <2>1, <2>2, <2>3 DEF QuietStep, QuietlyKeeps, Quiet
  <2>4. CASE StartsOrSignals
    <3>1. Arrives
      BY <1>1, <2>4, ClientsArrive
    <3>2. db'.children = db.children
      BY <3>1 DEF Arrives, Begins, BeginsWithSignal, Receives, Begun, SignalAdded
    <3> QED
      BY <2>1, <2>2, <3>2
  <2>5. CASE Commits
    BY <1>1, <2>5, CommitsNew
  <2>6. CASE Creates
    BY <1>1, <2>6, CreatesNew
  <2>7. CASE Cancels
    <3>1. Closing(db.children, db'.children, {})
      BY <1>1, <2>7, CancelsHalts DEF Halts, Halted
    <3> QED
      BY <2>1, <3>1 DEF Closing, SameRecords
  <2> QED
    BY <1>1, <2>3, <2>4, <2>5, <2>6, <2>7, StepKinds
<1> QED
  BY <1>2, <1>3

\* Where every start asks for a new run, no record is of a run that was there before: what the
\* theorems above suppose of a behaviour then follows from what its handlers send
\* (create_child_instance, commit_checkpoint, should_create_workflow_run).
THEOREM AlwaysStartsAreNew ==
    ASSUME RuntimeStarts, NoSelfStart, NobodyTerminates, StartsAlways
    PROVE  Spec => [][ChildrenAreNew]_vars
<1>1. Init => AlwaysInv
  BY DEF Init, AlwaysInv, HeldKeys, HeldAlways
<1>2. BaseInv /\ BaseInv' /\ AlwaysInv /\ [Next]_vars => AlwaysInv' /\ [ChildrenAreNew]_vars
  BY AlwaysNew
<1> QED
  BY <1>1, <1>2, BaseHolds, PTL DEF Spec

-------------------------------------------------------------------------------
(* Keys of starts. *)

\* A handler gives no key to a start it buffers and to one it sends at once: child_start looks for
\* the key among the buffered starts, create_child_instance among the records, and a checkpoint
\* writes its records without looking.
KeysApart ==
    \A x \in CheckpointStarts, y \in EagerStarts :
        x.id = y.id /\ x.seq = y.seq => x.start.key # y.start.key

\* The starts of an activation with a key.
From(inputs, a, key) == \E y \in inputs : y.id = a.ref[1] /\ y.seq = a.seq /\ y.start.key = key

\* A record is of the activation that started it: one that has been committed, or one that
\* sent the start at once.
KeyInv ==
    /\ HeldKeys
    /\ \A c \in held : \A x \in c.starts : From(CheckpointStarts, c.act, x.key)
    /\ OneChildPerKey
    /\ \A x \in db.children :
         /\ x.parent = x.act.ref
         /\ x.act.seq < db.inst[x.act.ref].seq \/ From(EagerStarts, x.act, x.key)

LEMMA KeyInit == Init => KeyInv
  BY DEF Init, EmptyTables, KeyInv, HeldKeys, OneChildPerKey

LEMMA HeldFromStep ==
    ASSUME Inv, KeyInv, [Next]_vars
    PROVE  \A f \in held' : \A x \in f.starts : From(CheckpointStarts, f.act, x.key)
<1> SUFFICES ASSUME NEW f \in held' PROVE \A x \in f.starts : From(CheckpointStarts, f.act, x.key)
  OBVIOUS
<1>1. CASE \E c \in held : Remains(c, f)
  BY <1>1 DEF KeyInv, Remains
<1>2. CASE Handed(f)
  BY <1>2 DEF Handed
<1>3. ASSUME NEW c \in held, NEW now \in Instants, NEW start \in ChildStart, Buffers(c, start, now, f)
      PROVE  \A x \in f.starts : From(CheckpointStarts, f.act, x.key)
  <2> DEFINE new == Decided(start, now)
  <2>1. f.act = c.act /\ f.starts = c.starts \cup {new} /\ start \in At(CheckpointStarts, c)
    BY <1>3 DEF Buffers
  <2>2. new.key = start.key
    BY DEF Decided, ChildStart
  <2>3. From(CheckpointStarts, c.act, start.key)
    BY <2>1 DEF At, From
  <2> HIDE DEF new
  <2> QED
    BY <2>1, <2>2, <2>3 DEF KeyInv
<1> QED
  BY <1>1, <1>2, <1>3, HeldStep DEF Buffered

\* What a step that adds no record leaves to show: no run goes back.
LEMMA SameRecordsKeepKeys ==
    ASSUME db \in Tables, Sound(db), KeyInv, SameRecords(db.children, db'.children),
           \A q \in Refs : db'.inst[q].seq >= db.inst[q].seq /\ db'.inst[q].seq \in Nat
    PROVE  /\ OneChildPerKey'
           /\ \A f \in db'.children :
                /\ f.parent = f.act.ref
                /\ f.act.seq < db'.inst[f.act.ref].seq \/ From(EagerStarts, f.act, f.key)
<1>1. \A x \in db.children : x.act.ref \in Refs /\ x.act.seq \in Nat /\ db.inst[x.act.ref].seq \in Nat
  BY DEF Tables, Child, Activation, Instance
<1>2. OneChildPerKey'
  BY DEF OneChildPerKey, KeyInv, SameRecords, SameChild
<1>3. ASSUME NEW f \in db'.children
      PROVE  /\ f.parent = f.act.ref
             /\ f.act.seq < db'.inst[f.act.ref].seq \/ From(EagerStarts, f.act, f.key)
  <2>1. PICK x \in db.children : SameChild(x, f)
    BY DEF SameRecords
  <2>2. f.act = x.act /\ f.parent = x.parent /\ f.key = x.key
    BY <2>1 DEF SameChild
  <2>3. /\ x.parent = x.act.ref
        /\ x.act.seq < db.inst[x.act.ref].seq \/ From(EagerStarts, x.act, x.key)
    BY DEF KeyInv
  <2>4. db'.inst[x.act.ref].seq >= db.inst[x.act.ref].seq /\ db'.inst[x.act.ref].seq \in Nat
    BY <1>1
  <2> QED
    BY <1>1, <2>2, <2>3, <2>4
<1> QED
  BY <1>2, <1>3

\* A start that is sent at once adds a record only if there is none of its activation and key.
LEMMA CreatesKeepKeys ==
    ASSUME TypeOK, Sound(db), KeyInv, Creates,
           \A q \in Refs : db'.inst[q].seq >= db.inst[q].seq /\ db'.inst[q].seq \in Nat
    PROVE  /\ OneChildPerKey'
           /\ \A f \in db'.children :
                /\ f.parent = f.act.ref
                /\ f.act.seq < db'.inst[f.act.ref].seq \/ From(EagerStarts, f.act, f.key)
<1>1. PICK c \in held, now \in Instants : \E start \in At(EagerStarts, c) : CreateChild(c, start, now)
  BY DEF Creates
<1>2. PICK start \in At(EagerStarts, c) : CreateChild(c, start, now)
  BY <1>1
<1>3. StartsLinked(db, db', c.act, {start.key})
  BY <1>2, CreatesLinks
<1>4. \A f \in db'.children : f \in db.children \/ (f.act = c.act /\ f.parent = c.act.ref /\ f.key = start.key)
  BY <1>3 DEF StartsLinked
<1>5. \A f, g \in db'.children \ db.children : f.key = g.key => f = g
  BY <1>3 DEF StartsLinked
<1>6. \A x \in db.children : ~ (x.act = c.act /\ x.key = start.key)
  <2>1. RecordsForKey(db, c.act, start.key) = {}
    BY <1>2 DEF CreateChild
  <2> QED
    BY <2>1 DEF RecordsForKey, KeyInv
<1>7. From(EagerStarts, c.act, start.key)
  BY <1>2 DEF At, From
<1>8. OneChildPerKey'
  BY <1>4, <1>5, <1>6 DEF OneChildPerKey, KeyInv
<1>9. \A x \in db.children : x.act.ref \in Refs /\ x.act.seq \in Nat /\ db.inst[x.act.ref].seq \in Nat
  BY DEF TypeOK, Tables, Child, Activation, Instance
<1>10. ASSUME NEW f \in db'.children
       PROVE  /\ f.parent = f.act.ref
              /\ f.act.seq < db'.inst[f.act.ref].seq \/ From(EagerStarts, f.act, f.key)
  <2>1. CASE f \in db.children
    <3>1. /\ f.parent = f.act.ref
          /\ f.act.seq < db.inst[f.act.ref].seq \/ From(EagerStarts, f.act, f.key)
      BY <2>1 DEF KeyInv
    <3>2. db'.inst[f.act.ref].seq >= db.inst[f.act.ref].seq /\ db'.inst[f.act.ref].seq \in Nat
      BY <1>9, <2>1
    <3> QED
      BY <1>9, <2>1, <3>1, <3>2
  <2>2. CASE f \notin db.children
    BY <1>4, <1>7, <2>2
  <2> QED
    BY <2>1, <2>2
<1> QED
  BY <1>8, <1>10

LEMMA ClosePolicyKeepsSequences ==
    ASSUME NEW d \in Tables, NEW r, NEW next, NEW seq \in Nat \ {0}, NEW now \in Nat, NEW q \in Refs
    PROVE  ApplyClosePolicy(d, r, next, seq, now).inst[q].seq = d.inst[q].seq
<1> DEFINE hit    == ClosedWith(d, r)
           killed == {c.ref : c \in {x \in hit : x.policy = "cancel" /\ Running(d, x.ref)}}
           T      == {t \in d.tasks : t.act.ref \in killed}
           d1     == DeleteTasks(d, T)
           inst   == [p \in Refs |-> IF p \in killed
                                     THEN [d.inst[p] EXCEPT !.status = "canceled", !.waits = {}, !.updatedAt = now]
                                     ELSE d.inst[p]]
           e      == ApplyClosePolicy(d, r, next, seq, now)
<1>1. d1 \in Tables
  BY DeleteTasksFields
<1>2. e.inst = IF next \in {"failed", "canceled"} THEN inst ELSE d.inst
  <2> HIDE DEF d1
  <2> QED
    BY <1>1 DEF ApplyClosePolicy, Tables, d1
<1>3. inst[q].seq = d.inst[q].seq
  BY DEF Tables, Instance
<1> QED
  BY <1>2, <1>3

LEMMA CommitMovesOn ==
    ASSUME Inv, NEW c \in held, NEW next \in {"running"} \cup Closed,
           NEW waits \in SUBSET Wait, NEW starts \in Seq(ChildStart), NEW now \in Nat,
           NEW d1 \in Tables, NEW d2 \in Tables, NEW d3 \in Tables, NEW d4 \in Tables,
           CommitParts(c, next, waits, starts, now, d1, d2, d3, d4), CommitAdds(c, d1, d2)
    PROVE  db'.inst[c.act.ref].seq = db.inst[c.act.ref].seq + 1
<1> DEFINE r   == c.act.ref
           seq == db.inst[r].seq + 1
           n   == NextInstance(db, db.inst[r], next, waits, VersionOf[c.worker], now)
<1>1. db \in Tables /\ r \in Refs
  BY ClaimFields DEF Inv, TypeOK
<1>2. db.inst[r] \in Instance /\ db.inst[r].seq \in Nat /\ db.inst \in [Refs -> Instance]
  BY <1>1, InstanceFields DEF Tables
<1>3. /\ Sound(d2) /\ d1.inst = [db.inst EXCEPT ![r] = n]
      /\ d3 = UpdateParentRecord(d2, db.inst[r], next, now)
      /\ d4 = ApplyClosePolicy(d3, r, next, seq, now)
      /\ db'.inst = d4.inst
  BY DEF CommitParts, CheckpointParts
<1>4. n.status = next /\ n.seq = seq /\ next # "absent"
  BY <1>2 DEF NextInstance, Instance, Closed
<1> HIDE DEF n, r
<1>5. seq \in Nat \ {0}
  <2>1. seq \in Nat /\ seq # 0
    BY <1>2
  <2> QED
    BY <2>1
<1> HIDE DEF seq
<1>6. d1.inst[r] = n
  BY <1>1, <1>2, <1>3
<1>7. d2.inst[r] = n
  BY <1>1, <1>4, <1>6 DEF CommitAdds, StartsLinked
<1>8. d3.inst = d2.inst
  BY <1>2, <1>3, UpdateParentRecordKeeps DEF Sound
<1>9. d4.inst[r].seq = d3.inst[r].seq
  BY <1>1, <1>3, <1>5, ClosePolicyKeepsSequences
<1> QED
  BY <1>3, <1>4, <1>7, <1>8, <1>9 DEF r, seq

\* The records of a checkpoint have keys that no record of its activation has: until now it has
\* sent starts at once only.
LEMMA CommitsKeepKeys ==
    ASSUME Inv, HeldStarts, KeyInv, KeysApart, Commits,
           \A q \in Refs : db'.inst[q].seq >= db.inst[q].seq /\ db'.inst[q].seq \in Nat
    PROVE  /\ OneChildPerKey'
           /\ \A f \in db'.children :
                /\ f.parent = f.act.ref
                /\ f.act.seq < db'.inst[f.act.ref].seq \/ From(EagerStarts, f.act, f.key)
<1>1. PICK c \in held, next \in {"running"} \cup Closed, waits \in SUBSET Wait, now \in Nat :
           \E starts \in Seq(ChildStart), d1, d2, d3, d4 \in Tables :
               CommitParts(c, next, waits, starts, now, d1, d2, d3, d4)
  BY CommitInParts
<1>2. PICK starts \in Seq(ChildStart), d1 \in Tables, d2 \in Tables, d3 \in Tables, d4 \in Tables :
           CommitParts(c, next, waits, starts, now, d1, d2, d3, d4)
  BY <1>1
<1>3. CommitAdds(c, d1, d2)
  BY <1>2, CommitStarts DEF KeyInv
<1>4. /\ c.act.ref \in Refs /\ c.act.seq \in Nat /\ db \in Tables
      /\ db.inst[c.act.ref].seq = c.act.seq
  BY <1>2, ClaimFields DEF Inv, TypeOK, CommitParts
<1>5. db'.inst[c.act.ref].seq = c.act.seq + 1
  BY <1>2, <1>3, <1>4, CommitMovesOn
<1>6. \A x \in db.children : x.act.ref \in Refs /\ x.act.seq \in Nat /\ db.inst[x.act.ref].seq \in Nat
  BY <1>4 DEF Tables, Child, Activation, Instance
<1> DEFINE Old(f) == \E x \in db.children : SameChild(x, f)
           New(f) == \E x \in d2.children \ d1.children : SameChild(x, f)
<1>7. \A f \in db'.children : Old(f) \/ New(f)
  <2> SUFFICES ASSUME NEW f \in db'.children, ~ New(f) PROVE Old(f)
    OBVIOUS
  <2>1. PICK x \in d2.children : SameChild(x, f)
    BY <1>3 DEF CommitAdds, SameRecords
  <2>2. PICK y \in db.children : SameChild(y, x)
    BY <1>3, <2>1 DEF CommitAdds
  <2> QED
    BY <2>1, <2>2 DEF SameChild
<1>8. ASSUME NEW f \in db'.children, New(f)
      PROVE  f.act = c.act /\ f.parent = c.act.ref /\ From(CheckpointStarts, c.act, f.key)
  <2>1. PICK x \in d2.children \ d1.children : SameChild(x, f)
    BY <1>8
  <2>2. x.act = c.act /\ x.parent = c.act.ref /\ x.key \in KeysOf(c)
    BY <1>3 DEF CommitAdds, StartsLinked
  <2>3. From(CheckpointStarts, c.act, x.key)
    BY <2>2 DEF KeysOf, KeyInv
  <2> QED
    BY <2>1, <2>2, <2>3 DEF SameChild
<1>9. ASSUME NEW f \in db'.children, Old(f)
      PROVE  /\ f.act.ref \in Refs /\ f.act.seq \in Nat /\ f.parent = f.act.ref
             /\ f.act.seq < db.inst[f.act.ref].seq \/ From(EagerStarts, f.act, f.key)
  <2>1. PICK x \in db.children : SameChild(x, f)
    BY <1>9
  <2>2. f.act = x.act /\ f.parent = x.parent /\ f.key = x.key
    BY <2>1 DEF SameChild
  <2> QED
    BY <1>6, <2>2 DEF KeyInv
<1>10. ASSUME NEW f \in db'.children, NEW g \in db'.children, Old(f), New(g), f.act = g.act
       PROVE  f.key # g.key
  <2>1. f.act = c.act /\ From(CheckpointStarts, c.act, g.key)
    BY <1>8, <1>10
  <2>2. From(EagerStarts, c.act, f.key)
    BY <1>4, <1>9, <1>10, <2>1
  <2> QED
    BY <2>1, <2>2 DEF From, KeysApart
<1>11. ASSUME NEW f \in db'.children, NEW g \in db'.children, Old(f), Old(g), f.act = g.act, f.key = g.key
       PROVE  f.id = g.id
  <2>1. PICK x \in db.children : SameChild(x, f)
    BY <1>11
  <2>2. PICK y \in db.children : SameChild(y, g)
    BY <1>11
  <2> QED
    BY <1>11, <2>1, <2>2 DEF SameChild, KeyInv, OneChildPerKey
<1>12. ASSUME NEW f \in db'.children, NEW g \in db'.children, New(f), New(g), f.key = g.key
       PROVE  f.id = g.id
  <2>1. PICK x \in d2.children \ d1.children : SameChild(x, f)
    BY <1>12
  <2>2. PICK y \in d2.children \ d1.children : SameChild(y, g)
    BY <1>12
  <2>3. x = y
    BY <1>3, <1>12, <2>1, <2>2 DEF SameChild, CommitAdds, StartsLinked
  <2> QED
    BY <2>1, <2>2, <2>3 DEF SameChild
<1> HIDE DEF Old, New
<1>13. ASSUME NEW f \in db'.children, NEW g \in db'.children, f.act = g.act, f.key = g.key
       PROVE  f.id = g.id
  BY <1>7, <1>10, <1>11, <1>12, <1>13
<1>14. ASSUME NEW f \in db'.children
       PROVE  /\ f.parent = f.act.ref
              /\ f.act.seq < db'.inst[f.act.ref].seq \/ From(EagerStarts, f.act, f.key)
  <2>1. CASE New(f)
    BY <1>4, <1>5, <1>8, <2>1
  <2>2. CASE Old(f)
    <3>1. /\ f.act.ref \in Refs /\ f.act.seq \in Nat /\ f.parent = f.act.ref
          /\ f.act.seq < db.inst[f.act.ref].seq \/ From(EagerStarts, f.act, f.key)
      BY <1>9, <2>2
    <3>2. /\ db'.inst[f.act.ref].seq >= db.inst[f.act.ref].seq
          /\ db'.inst[f.act.ref].seq \in Nat /\ db.inst[f.act.ref].seq \in Nat
      BY <1>4, <3>1 DEF Tables, Instance
    <3> QED
      BY <3>1, <3>2
  <2> QED
    BY <1>7, <2>1, <2>2
<1> QED
  BY <1>13, <1>14 DEF OneChildPerKey

LEMMA SequencesGrow ==
    ASSUME BaseInv, BaseInv', [Next]_vars, NobodyTerminates
    PROVE  \A q \in Refs : db'.inst[q].seq >= db.inst[q].seq /\ db'.inst[q].seq \in Nat
<1>1. Inv /\ HeldStarts /\ Unstarted /\ db \in Tables /\ db' \in Tables
  BY DEF BaseInv, WorkInv, Inv, TypeOK
<1> SUFFICES ASSUME NEW q \in Refs
             PROVE  db'.inst[q].seq >= db.inst[q].seq /\ db'.inst[q].seq \in Nat
  OBVIOUS
<1>2. db.inst[q].seq \in Nat /\ db'.inst[q].seq \in Nat
  BY <1>1 DEF Tables, Instance
<1>3. CASE OtherStep
  BY <1>1, <1>2, <1>3, OtherRuns
<1>4. CASE Advances
  <2>1. PICK c \in held, next \in {"running"} \cup Closed, S \in SUBSET Refs :
           Running(db, c.act.ref) /\ Advanced(db, c, next, S, db')
    BY <1>4 DEF Advances
  <2>2. db'.inst[q].seq = db.inst[q].seq \/ db'.inst[q].seq = db.inst[q].seq + 1
    BY <1>1, <2>1, AdvanceRuns
  <2> QED
    BY <1>2, <2>2
<1> QED
  BY <1>1, <1>3, <1>4, StepIsOtherOrAdvances

LEMMA KeyStep ==
    ASSUME BaseInv, BaseInv', KeyInv, [Next]_vars, NobodyTerminates, KeysApart
    PROVE  KeyInv'
<1>1. Inv /\ HeldStarts /\ TypeOK /\ db \in Tables /\ Sound(db)
  BY DEF BaseInv, WorkInv, Inv, TypeOK
<1>2. \A q \in Refs : db'.inst[q].seq >= db.inst[q].seq /\ db'.inst[q].seq \in Nat
  BY SequencesGrow
<1>3. HeldKeys'
  BY <1>1, HeldKeysStep DEF KeyInv
<1>4. \A f \in held' : \A x \in f.starts : From(CheckpointStarts, f.act, x.key)
  BY <1>1, HeldFromStep
<1> DEFINE Kept == /\ OneChildPerKey'
                   /\ \A f \in db'.children :
                        /\ f.parent = f.act.ref
                        /\ f.act.seq < db'.inst[f.act.ref].seq \/ From(EagerStarts, f.act, f.key)
<1>5. Kept
  <2>1. ASSUME db'.children = db.children PROVE Kept
    <3>1. SameRecords(db.children, db'.children)
      BY <2>1 DEF SameRecords, SameChild
    <3> QED
      BY <1>1, <1>2, <3>1, SameRecordsKeepKeys
  <2>2. CASE QuietStep
    BY <2>1, <2>2 DEF QuietStep, QuietlyKeeps, Quiet
  <2>3. CASE StartsOrSignals
    <3>1. Arrives
      BY <1>1, <2>3, ClientsArrive
    <3>2. db'.children = db.children
      BY <3>1 DEF Arrives, Begins, BeginsWithSignal, Receives, Begun, SignalAdded
    <3> QED
      BY <2>1, <3>2
  <2>4. CASE Commits
    BY <1>1, <1>2, <2>4, CommitsKeepKeys
  <2>5. CASE Creates
    BY <1>1, <1>2, <2>5, CreatesKeepKeys
  <2>6. CASE Cancels
    <3>1. Closing(db.children, db'.children, {})
      BY <1>1, <2>6, CancelsHalts DEF Halts, Halted
    <3>2. SameRecords(db.children, db'.children)
      BY <3>1 DEF Closing, SameRecords
    <3> QED
      BY <1>1, <1>2, <3>2, SameRecordsKeepKeys
  <2> QED
    BY <1>1, <2>2, <2>3, <2>4, <2>5, <2>6, StepKinds
<1>6. KeyInv' <=> /\ HeldKeys'
                  /\ \A f \in held' : \A x \in f.starts : From(CheckpointStarts, f.act, x.key)
                  /\ Kept
  BY DEF KeyInv, From
<1> QED
  BY <1>3, <1>4, <1>5, <1>6

\* An activation that is executed again, by the same worker or by another, starts the child of a
\* key once: what was sent at once is answered from its record, and a checkpoint that is accepted
\* is the first of its activation (create_child_instance, child_start, commit_checkpoint).
THEOREM OneChildIsStartedPerKey ==
    ASSUME RuntimeStarts, NoSelfStart, NobodyTerminates, KeysApart
    PROVE  Spec => []OneChildPerKey
<1>1. BaseInv /\ BaseInv' /\ KeyInv /\ [Next]_vars => KeyInv'
  BY KeyStep
<1>2. KeyInv => OneChildPerKey
  BY DEF KeyInv
<1> QED
  BY <1>1, <1>2, KeyInit, BaseHolds, PTL DEF Spec
===============================================================================
