-------------------------- MODULE ShardProviderProofs -------------------------
(***************************************************************************)
(* What the routers and the Postgres provider promise, proved of           *)
(* ShardProviders: what a caller was told of is in a journal that loads,   *)
(* and, with one partition, a read returns the run as it was at some       *)
(* instant of the call.                                                    *)
(***************************************************************************)
EXTENDS ShardProviders, WellFoundedInduction, TLAPS

-------------------------------------------------------------------------------
(* Induction over the entries of a journal, by sets of numbers. *)

LEMMA UpFromZero ==
    ASSUME NEW S, 0 \in S, \A n \in Nat : n \in S => n + 1 \in S
    PROVE  \A n \in Nat : n \in S
<1> DEFINE R == {ss \in Nat \X Nat : ss[1] < ss[2]}
           B == {n \in Nat : n \notin S}
<1>1. IsWellFoundedOn(R, Nat)
  BY NatLessThanWellFounded DEF OpToRel
<1> SUFFICES ASSUME B # {} PROVE FALSE
  OBVIOUS
<1>2. PICK x \in B : \A y \in B : ~ (<<y, x>> \in R)
  <2>1. B \subseteq Nat
    OBVIOUS
  <2> HIDE DEF R, B
  <2> QED BY <1>1, <2>1, WFMin
<1>3. x \in Nat /\ x # 0 /\ x - 1 \in Nat
  OBVIOUS
<1>4. x - 1 \in B
  BY <1>3
<1>5. <<x - 1, x>> \in Nat \X Nat /\ <<x - 1, x>>[1] < <<x - 1, x>>[2]
  BY <1>3
<1> QED
  BY <1>2, <1>4, <1>5

-------------------------------------------------------------------------------
(* The history of a journal: the store after each of its entries. *)

Grows(g, log, m) == g = [n \in 0..m |-> IF n = 0 THEN EmptyStore ELSE Apply(g[n - 1], log[n])]
History(log) == CHOOSE g : Grows(g, log, Len(log))

LEMMA GrowsExists == ASSUME NEW log, NEW m \in Nat PROVE \E g : Grows(g, log, m)
<1> DEFINE S == {n \in Nat : \E g : Grows(g, log, n)}
<1>1. 0 \in S
  <2> DEFINE g == [n \in 0..0 |-> EmptyStore]
  <2>1. Grows(g, log, 0)
    BY DEF Grows
  <2> QED BY <2>1
<1>2. ASSUME NEW n \in Nat, n \in S PROVE n + 1 \in S
  <2>1. PICK g : Grows(g, log, n)
    BY <1>2
  <2> DEFINE h == [i \in 0..(n + 1) |-> IF i = n + 1 THEN Apply(g[n], log[n + 1]) ELSE g[i]]
  <2>2. \A i \in 0..n : g[i] = IF i = 0 THEN EmptyStore ELSE Apply(g[i - 1], log[i])
    BY <2>1 DEF Grows
  <2>3. \A i \in 0..(n + 1) : h[i] = IF i = 0 THEN EmptyStore ELSE Apply(h[i - 1], log[i])
    <3> TAKE i \in 0..(n + 1)
    <3>1. CASE i = n + 1
      BY <3>1
    <3>2. CASE i # n + 1
      BY <3>2, <2>2
    <3> QED BY <3>1, <3>2
  <2>4. Grows(h, log, n + 1)
    BY <2>3 DEF Grows
  <2> QED BY <2>4
<1>3. \A n \in Nat : n \in S
  <2> HIDE DEF S
  <2> QED BY <1>1, <1>2, UpFromZero
<1> QED
  BY <1>3

LEMMA HistoryStep ==
    ASSUME NEW log, Len(log) \in Nat
    PROVE  /\ History(log)[0] = EmptyStore
           /\ \A n \in 1..Len(log) : History(log)[n] = Apply(History(log)[n - 1], log[n])
<1>1. Grows(History(log), log, Len(log))
  BY GrowsExists DEF History
<1>2. \A i \in 0..Len(log) : History(log)[i] = IF i = 0 THEN EmptyStore ELSE Apply(History(log)[i - 1], log[i])
  BY <1>1, Zenon DEF Grows
<1> QED
  BY <1>2

\* Another entry leaves the history before it as it was.
LEMMA HistoryAppend ==
    ASSUME NEW log \in Seq(Operations), NEW op \in Operations
    PROVE  /\ \A n \in 0..Len(log) : History(Append(log, op))[n] = History(log)[n]
           /\ History(Append(log, op))[Len(log) + 1] = Apply(History(log)[Len(log)], op)
<1> DEFINE new == Append(log, op)
           S == {n \in Nat : n <= Len(log) => History(new)[n] = History(log)[n]}
<1>1. /\ Len(log) \in Nat /\ Len(new) = Len(log) + 1 /\ new[Len(log) + 1] = op
      /\ \A n \in 1..Len(log) : new[n] = log[n]
  OBVIOUS
<1>2. /\ History(log)[0] = EmptyStore /\ History(new)[0] = EmptyStore
      /\ \A n \in 1..Len(log) : History(log)[n] = Apply(History(log)[n - 1], log[n])
      /\ \A n \in 1..(Len(log) + 1) : History(new)[n] = Apply(History(new)[n - 1], new[n])
  <2> HIDE DEF new
  <2> QED BY <1>1, HistoryStep
<1> HIDE DEF new
<1>3. 0 \in S
  BY <1>2
<1>4. ASSUME NEW n \in Nat, n \in S PROVE n + 1 \in S
  <2> SUFFICES ASSUME n + 1 <= Len(log) PROVE History(new)[n + 1] = History(log)[n + 1]
    OBVIOUS
  <2>1. n + 1 \in 1..Len(log) /\ n + 1 \in 1..(Len(log) + 1) /\ (n + 1) - 1 = n /\ n <= Len(log)
    BY <1>1
  <2>2. History(new)[n] = History(log)[n]
    BY <1>4, <2>1
  <2> QED BY <1>1, <1>2, <2>1, <2>2
<1>5. \A n \in Nat : n \in S
  <2> HIDE DEF S
  <2> QED BY <1>3, <1>4, UpFromZero
<1>6. \A n \in 0..Len(log) : History(new)[n] = History(log)[n]
  BY <1>5
<1>7. History(new)[Len(log) + 1] = Apply(History(new)[Len(log)], op)
  <2>1. Len(log) + 1 \in 1..(Len(log) + 1) /\ (Len(log) + 1) - 1 = Len(log)
    BY <1>1
  <2> QED BY <1>1, <1>2, <2>1
<1> QED
  BY <1>1, <1>6, <1>7 DEF new

-------------------------------------------------------------------------------
(* Stores that a journal can lead to. *)

\* Signals belong to runs that exist, and a store without runs has counted nothing.
Rooted(d) ==
    /\ d \in Store
    /\ \A x \in d.inbox : d.seq[x[1]] # 0
    /\ d.counter # 0 => \E r \in Runs : d.seq[r] # 0

\* No run of d has gone back in e.
NotBefore(d, e) == \A r \in Runs : d.seq[r] <= e.seq[r]

LEMMA EmptyRooted == Rooted(EmptyStore)
BY DEF Rooted, EmptyStore, Store

LEMMA OperationFields ==
    ASSUME NEW op \in Operations
    PROVE  /\ op.kind \in {"create", "signal", "commit", "load"} /\ op.run \in Runs /\ op.id \in Nat
           /\ op.kind = "load" <=> op \in Loads
BY DEF Operations, Creates, Appends, Commits, Loads

LEMMA ApplyFields ==
    ASSUME NEW d \in Store, NEW op \in Operations
    PROVE  /\ op.kind = "create" => /\ Apply(d, op) = [d EXCEPT !.seq[op.run] = 1]
                                    /\ Mutates(d, op) <=> d.seq[op.run] = 0
           /\ op.kind = "signal" => /\ Apply(d, op) = [d EXCEPT !.counter = @ + 1, !.inbox = @ \cup {<<op.run, d.counter + 1>>}]
                                    /\ Mutates(d, op) <=> d.seq[op.run] # 0
           /\ op.kind = "commit" => /\ Apply(d, op) = [d EXCEPT !.seq[op.run] = @ + 1, !.inbox = @ \ {<<op.run, op.id>>}]
                                    /\ Mutates(d, op) <=> d.seq[op.run] # 0 /\ <<op.run, op.id>> \in d.inbox
           /\ op.kind = "load" => ~ Mutates(d, op)
BY OperationFields DEF Apply, Mutates

\* An operation that changes a store leads to another such store, and takes no run back.
LEMMA ApplyRooted ==
    ASSUME NEW d, Rooted(d), NEW op \in Operations, Mutates(d, op)
    PROVE  Rooted(Apply(d, op)) /\ NotBefore(d, Apply(d, op))
<1> DEFINE e == Apply(d, op)
<1>1. /\ d \in Store /\ op.run \in Runs /\ op.id \in Nat
      /\ d.seq \in [Runs -> Nat] /\ d.counter \in Nat /\ d.inbox \subseteq Runs \X Nat
  BY OperationFields DEF Rooted, Store
<1>2. CASE op.kind = "create"
  <2>1. e = [d EXCEPT !.seq[op.run] = 1] /\ d.seq[op.run] = 0
    BY <1>1, <1>2, ApplyFields
  <2>2. e \in Store /\ e.inbox = d.inbox /\ e.counter = d.counter /\ e.seq = [d.seq EXCEPT ![op.run] = 1]
    BY <1>1, <2>1 DEF Store
  <2>3. \A r \in Runs : e.seq[r] = IF r = op.run THEN 1 ELSE d.seq[r]
    BY <1>1, <2>2
  <2>4. NotBefore(d, e)
    BY <1>1, <2>1, <2>3 DEF NotBefore
  <2> HIDE DEF e
  <2>5. \A x \in e.inbox : e.seq[x[1]] # 0
    BY <1>1, <2>2, <2>3 DEF Rooted
  <2>6. e.seq[op.run] # 0
    BY <1>1, <2>3
  <2> QED BY <1>1, <2>2, <2>4, <2>5, <2>6 DEF Rooted, e
<1>3. CASE op.kind = "signal"
  <2>1. e = [d EXCEPT !.counter = @ + 1, !.inbox = @ \cup {<<op.run, d.counter + 1>>}] /\ d.seq[op.run] # 0
    BY <1>1, <1>3, ApplyFields
  <2> DEFINE x == <<op.run, d.counter + 1>>
  <2>2. x \in Runs \X Nat /\ x[1] = op.run
    BY <1>1
  <2>3. e.inbox = d.inbox \cup {x} /\ e.seq = d.seq /\ e.counter = d.counter + 1
    BY <1>1, <2>1 DEF Store
  <2>4. e = [counter |-> d.counter + 1, seq |-> d.seq, inbox |-> d.inbox \cup {x}]
    BY <1>1, <2>1 DEF Store
  <2> HIDE DEF e, x
  <2>5. e \in Store
    BY <1>1, <2>2, <2>4 DEF Store
  <2>6. \A y \in e.inbox : e.seq[y[1]] # 0
    BY <2>1, <2>2, <2>3 DEF Rooted
  <2>7. Rooted(e)
    BY <1>1, <2>1, <2>3, <2>5, <2>6 DEF Rooted
  <2>8. NotBefore(d, e)
    BY <1>1, <2>3 DEF NotBefore
  <2> QED BY <2>7, <2>8 DEF e
<1>4. CASE op.kind = "commit"
  <2>1. e = [d EXCEPT !.seq[op.run] = @ + 1, !.inbox = @ \ {<<op.run, op.id>>}] /\ d.seq[op.run] # 0
    BY <1>1, <1>4, ApplyFields
  <2> DEFINE x == <<op.run, op.id>>
             q == [d.seq EXCEPT ![op.run] = @ + 1]
  <2>2. e = [counter |-> d.counter, seq |-> q, inbox |-> d.inbox \ {x}]
    BY <1>1, <2>1 DEF Store
  <2>3. q \in [Runs -> Nat] /\ \A r \in Runs : q[r] = IF r = op.run THEN d.seq[r] + 1 ELSE d.seq[r]
    BY <1>1
  <2> HIDE DEF e, x, q
  <2>4. e.counter = d.counter /\ e.seq = q /\ e.inbox = d.inbox \ {x}
    BY <2>2
  <2>5. e \in Store
    BY <1>1, <2>2, <2>3 DEF Store
  <2>6. \A y \in e.inbox : y[1] \in Runs /\ d.seq[y[1]] # 0
    BY <1>1, <2>4 DEF Rooted
  <2>7. \A y \in e.inbox : e.seq[y[1]] # 0
    BY <1>1, <2>3, <2>4, <2>6
  <2>8. NotBefore(d, e)
    BY <1>1, <2>3, <2>4 DEF NotBefore
  <2>9. e.seq[op.run] # 0
    BY <1>1, <2>3, <2>4
  <2> QED BY <1>1, <2>5, <2>7, <2>8, <2>9 DEF Rooted, e
<1> QED
  BY <1>1, <1>2, <1>3, <1>4, OperationFields, ApplyFields

\* Every entry of a journal changes the store that the entries before it lead to.
Sequential(log) ==
    /\ log \in Seq(Operations)
    /\ \A n \in 1..Len(log) : Mutates(History(log)[n - 1], log[n])

LEMMA HistoryRooted ==
    ASSUME NEW log, Sequential(log)
    PROVE  \A n \in 0..Len(log) : Rooted(History(log)[n])
<1> DEFINE S == {n \in Nat : n <= Len(log) => Rooted(History(log)[n])}
<1>1. Len(log) \in Nat /\ \A n \in 1..Len(log) : log[n] \in Operations
  BY DEF Sequential
<1>2. /\ History(log)[0] = EmptyStore
      /\ \A n \in 1..Len(log) : History(log)[n] = Apply(History(log)[n - 1], log[n])
  BY <1>1, HistoryStep
<1>3. 0 \in S
  BY <1>2, EmptyRooted
<1>4. ASSUME NEW n \in Nat, n \in S PROVE n + 1 \in S
  <2> SUFFICES ASSUME n + 1 <= Len(log) PROVE Rooted(History(log)[n + 1])
    OBVIOUS
  <2>1. n + 1 \in 1..Len(log) /\ (n + 1) - 1 = n /\ n <= Len(log)
    BY <1>1
  <2>2. Rooted(History(log)[n]) /\ Mutates(History(log)[n], log[n + 1])
    BY <1>4, <2>1 DEF Sequential
  <2> QED BY <1>1, <1>2, <2>1, <2>2, ApplyRooted
<1>5. \A n \in Nat : n \in S
  <2> HIDE DEF S
  <2> QED BY <1>3, <1>4, UpFromZero
<1> QED
  BY <1>1, <1>5

\* An operation that changes the store at the end of the journal may be recorded there.
LEMMA SequentialAppend ==
    ASSUME NEW log, Sequential(log), NEW op \in Operations, Mutates(History(log)[Len(log)], op)
    PROVE  Sequential(Append(log, op))
<1> DEFINE new == Append(log, op)
<1>1. /\ log \in Seq(Operations) /\ Len(log) \in Nat /\ new \in Seq(Operations)
      /\ Len(new) = Len(log) + 1 /\ new[Len(log) + 1] = op /\ \A n \in 1..Len(log) : new[n] = log[n]
  BY DEF Sequential
<1>2. \A n \in 0..Len(log) : History(new)[n] = History(log)[n]
  BY <1>1, HistoryAppend
<1> HIDE DEF new
<1>3. ASSUME NEW n \in 1..Len(new) PROVE Mutates(History(new)[n - 1], new[n])
  <2>1. n - 1 \in 0..Len(log) /\ (n = Len(log) + 1 \/ n \in 1..Len(log))
    BY <1>1
  <2>2. CASE n = Len(log) + 1
    <3>1. n - 1 = Len(log)
      BY <1>1, <2>2
    <3> QED BY <1>1, <1>2, <2>1, <2>2, <3>1
  <2>3. CASE n \in 1..Len(log)
    BY <1>1, <1>2, <2>1, <2>3 DEF Sequential
  <2> QED BY <2>1, <2>2, <2>3
<1> QED
  BY <1>1, <1>3 DEF Sequential, new

-------------------------------------------------------------------------------
(* Replaying a journal. *)

Replays(f, d, entries, m) ==
    f = [n \in 0..m |->
            IF n = 0 THEN [store |-> d, ok |-> TRUE]
            ELSE IF n \notin entries THEN f[n - 1]
            ELSE [store |-> Apply(f[n - 1].store, journal[n]),
                  ok |-> f[n - 1].ok /\ Mutates(f[n - 1].store, journal[n])]]

LEMMA ReplaysExists == ASSUME NEW d, NEW entries, NEW m \in Nat PROVE \E f : Replays(f, d, entries, m)
<1> DEFINE S == {n \in Nat : \E f : Replays(f, d, entries, n)}
           F(f, n) == IF n = 0 THEN [store |-> d, ok |-> TRUE]
                      ELSE IF n \notin entries THEN f[n - 1]
                      ELSE [store |-> Apply(f[n - 1].store, journal[n]),
                            ok |-> f[n - 1].ok /\ Mutates(f[n - 1].store, journal[n])]
<1>1. 0 \in S
  <2> DEFINE f == [n \in 0..0 |-> [store |-> d, ok |-> TRUE]]
  <2>1. Replays(f, d, entries, 0)
    BY DEF Replays
  <2> QED BY <2>1
<1>2. ASSUME NEW n \in Nat, n \in S PROVE n + 1 \in S
  <2>1. PICK f : Replays(f, d, entries, n)
    BY <1>2
  <2> DEFINE h == [i \in 0..(n + 1) |-> IF i = n + 1 THEN F(f, n + 1) ELSE f[i]]
  <2>2. f = [i \in 0..n |-> F(f, i)]
    BY <2>1, Zenon DEF Replays
  <2>3. \A i \in 0..n : f[i] = F(f, i)
    <3> HIDE DEF F
    <3> QED BY <2>2
  <2>4. \A i \in 0..(n + 1) : F(h, i) = F(f, i)
    <3> TAKE i \in 0..(n + 1)
    <3>1. CASE i = 0
      BY <3>1
    <3>2. CASE i # 0
      <4>1. h[i - 1] = f[i - 1]
        BY <3>2
      <4> HIDE DEF h
      <4> QED BY <4>1
    <3> QED BY <3>1, <3>2
  <2>5. h = [i \in 0..(n + 1) |-> F(h, i)]
    <3>1. \A i \in 0..(n + 1) : h[i] = F(f, i)
      <4> HIDE DEF F
      <4> QED BY <2>3
    <3>2. h = [i \in 0..(n + 1) |-> h[i]]
      OBVIOUS
    <3> HIDE DEF F, h
    <3> QED BY <2>4, <3>1, <3>2
  <2>6. Replays(h, d, entries, n + 1)
    <3> HIDE DEF h
    <3> QED BY <2>5, Zenon DEF Replays
  <2> QED BY <2>6
<1>3. \A n \in Nat : n \in S
  <2> HIDE DEF S
  <2> QED BY <1>1, <1>2, UpFromZero
<1> QED
  BY <1>3

LEMMA ReplayRuns ==
    ASSUME NEW d, NEW entries, Len(journal) \in Nat
    PROVE  \E f : Replays(f, d, entries, Len(journal)) /\ Replay(d, entries) = f[Len(journal)]
<1> DEFINE f == CHOOSE g : Replays(g, d, entries, Len(journal))
<1>1. Replays(f, d, entries, Len(journal))
  BY ReplaysExists
<1>2. Replay(d, entries) = f[Len(journal)]
  BY Zenon DEF Replay, Replays
<1> QED
  BY <1>1, <1>2

\* The entries between two points of a journal lead from the one to the other.
LEMMA ReplayLoads ==
    ASSUME Sequential(journal), NEW u \in 0..Len(journal), NEW n \in u..Len(journal)
    PROVE  Replay(History(journal)[u], (u + 1)..n) = [store |-> History(journal)[n], ok |-> TRUE]
<1> DEFINE H == History(journal)
           at(i) == IF i <= u THEN u ELSE IF i <= n THEN i ELSE n
<1>0. Len(journal) \in Nat
  BY DEF Sequential
<1>1. Len(journal) \in Nat /\ u \in Nat /\ n \in Nat /\ u <= n /\ n <= Len(journal)
  BY <1>0
<1>2. PICK f : Replays(f, H[u], (u + 1)..n, Len(journal)) /\ Replay(H[u], (u + 1)..n) = f[Len(journal)]
  BY <1>1, ReplayRuns
<1>3. \A i \in 0..Len(journal) :
         f[i] = IF i = 0 THEN [store |-> H[u], ok |-> TRUE]
                ELSE IF i \notin (u + 1)..n THEN f[i - 1]
                ELSE [store |-> Apply(f[i - 1].store, journal[i]),
                      ok |-> f[i - 1].ok /\ Mutates(f[i - 1].store, journal[i])]
  BY <1>2, Zenon DEF Replays
<1>4. \A i \in 1..Len(journal) : H[i] = Apply(H[i - 1], journal[i]) /\ Mutates(H[i - 1], journal[i])
  BY <1>1, HistoryStep DEF Sequential
<1> HIDE DEF H
<1> DEFINE S == {i \in Nat : i <= Len(journal) => f[i] = [store |-> H[at(i)], ok |-> TRUE]}
<1>5. 0 \in S
  <2>1. at(0) = u /\ 0 \in 0..Len(journal)
    BY <1>1
  <2>2. f[0] = [store |-> H[u], ok |-> TRUE]
    BY <1>3, <2>1
  <2> QED BY <2>1, <2>2
<1>6. ASSUME NEW i \in Nat, i \in S PROVE i + 1 \in S
  <2> SUFFICES ASSUME i + 1 <= Len(journal) PROVE f[i + 1] = [store |-> H[at(i + 1)], ok |-> TRUE]
    OBVIOUS
  <2>1. /\ i + 1 \in 0..Len(journal) /\ i + 1 \in 1..Len(journal) /\ (i + 1) - 1 = i
        /\ i <= Len(journal) /\ i + 1 # 0
    BY <1>1
  <2>2. f[i] = [store |-> H[at(i)], ok |-> TRUE]
    BY <1>6, <2>1
  <2>3. CASE i + 1 \notin (u + 1)..n
    <3>1. at(i + 1) = at(i)
      BY <1>1, <2>3
    <3> QED BY <1>3, <2>1, <2>2, <2>3, <3>1
  <2>4. CASE i + 1 \in (u + 1)..n
    <3>1. at(i + 1) = i + 1 /\ at(i) = i
      BY <1>1, <2>4
    <3>2. H[i + 1] = Apply(H[i], journal[i + 1]) /\ Mutates(H[i], journal[i + 1])
      BY <1>4, <2>1
    <3>3. f[i].store = H[i] /\ f[i].ok = TRUE
      BY <2>2, <3>1
    <3>4. f[i + 1] = [store |-> Apply(f[i].store, journal[i + 1]),
                      ok |-> f[i].ok /\ Mutates(f[i].store, journal[i + 1])]
      BY <1>3, <2>1, <2>4
    <3>5. (f[i].ok /\ Mutates(f[i].store, journal[i + 1])) = TRUE
      BY <3>2, <3>3
    <3> HIDE DEF at
    <3> QED BY <3>1, <3>2, <3>3, <3>4, <3>5, Zenon
  <2> QED BY <2>3, <2>4
<1>7. \A i \in Nat : i \in S
  <2> HIDE DEF S
  <2> QED BY <1>5, <1>6, UpFromZero
<1>8. at(Len(journal)) = n
  BY <1>1
<1> QED
  BY <1>1, <1>2, <1>7, <1>8 DEF H

LEMMA StoredIsHistory ==
    ASSUME Sequential(journal), NEW n \in 0..Len(journal)
    PROVE  Stored(n) = History(journal)[n]
<1>1. Len(journal) \in Nat /\ 0 \in 0..Len(journal) /\ n \in 0..Len(journal) /\ (0 + 1)..n = 1..n
  BY DEF Sequential
<1>2. History(journal)[0] = EmptyStore
  BY <1>1, HistoryStep
<1>3. Replay(EmptyStore, 1..n) = [store |-> History(journal)[n], ok |-> TRUE]
  BY <1>1, <1>2, ReplayLoads
<1> QED
  BY <1>3 DEF Stored

-------------------------------------------------------------------------------
(* Splitting a store by shard, and merging the parts. *)

LEMMA HighestIs ==
    ASSUME NEW S \in SUBSET Nat, NEW x \in S, \A y \in S : y <= x
    PROVE  Highest(S) = x
<1>1. ASSUME NEW z \in S, \A y \in S : y <= z PROVE z = x
  <2>1. z <= x /\ x <= z /\ z \in Nat /\ x \in Nat
    BY <1>1
  <2> QED BY <2>1
<1> QED
  BY <1>1, Zenon DEF Highest

\* A part has the runs of its shard and their signals, and counts from the whole's counter if it
\* has a run at all.
LEMMA SplitFields ==
    ASSUME NEW d, Rooted(d), NEW s \in Shards
    PROVE  /\ Split(d)[s] \in Store
           /\ \A r \in Runs : Split(d)[s].seq[r] = IF ShardOf[r] = s THEN d.seq[r] ELSE 0
           /\ Split(d)[s].inbox = {x \in d.inbox : ShardOf[x[1]] = s}
           /\ Split(d)[s].counter = IF \A r \in Runs : ShardOf[r] = s => d.seq[r] = 0 THEN 0 ELSE d.counter
<1>1. d \in Store /\ d.seq \in [Runs -> Nat] /\ d.inbox \subseteq Runs \X Nat /\ d.counter \in Nat
  BY DEF Rooted, Store
<1>2. CASE \A r \in Runs : ShardOf[r] = s => d.seq[r] = 0
  <2>1. Split(d)[s] = EmptyStore
    BY <1>2 DEF Split
  <2>2. \A x \in d.inbox : ShardOf[x[1]] # s
    <3> TAKE x \in d.inbox
    <3>1. x[1] \in Runs /\ d.seq[x[1]] # 0
      BY <1>1 DEF Rooted
    <3> QED BY <1>2, <3>1
  <2>3. {x \in d.inbox : ShardOf[x[1]] = s} = {}
    BY <2>2
  <2> QED BY <1>1, <1>2, <2>1, <2>3 DEF EmptyStore, Store
<1>3. CASE ~ \A r \in Runs : ShardOf[r] = s => d.seq[r] = 0
  <2>1. Split(d)[s] = PartOf(d, s)
    BY <1>3 DEF Split
  <2> DEFINE q == [r \in Runs |-> IF ShardOf[r] = s THEN d.seq[r] ELSE 0]
             b == {x \in d.inbox : ShardOf[x[1]] = s}
  <2>2. PartOf(d, s) = [counter |-> d.counter, seq |-> q, inbox |-> b]
    <3>1. d = [counter |-> d.counter, seq |-> d.seq, inbox |-> d.inbox]
      BY <1>1 DEF Store
    <3>2. PartOf(d, s) = [d EXCEPT !.seq = q, !.inbox = b]
      BY Zenon DEF PartOf
    <3> HIDE DEF q, b
    <3> QED BY <3>1, <3>2
  <2>3. q \in [Runs -> Nat] /\ b \in SUBSET (Runs \X Nat) /\ \A r \in Runs : q[r] = IF ShardOf[r] = s THEN d.seq[r] ELSE 0
    BY <1>1
  <2> HIDE DEF q
  <2> QED BY <1>1, <1>3, <2>1, <2>2, <2>3 DEF Store
<1> QED
  BY <1>2, <1>3

\* The part of a run's shard does for its operations.
LEMMA PartActs ==
    ASSUME NEW d, Rooted(d), NEW op \in Operations
    PROVE  LET part == Split(d)[ShardOf[op.run]]
           IN  /\ part \in Store /\ part.seq[op.run] = d.seq[op.run]
               /\ Mutates(part, op) <=> Mutates(d, op)
               /\ Mutates(d, op) => Apply(part, op).seq[op.run] = Apply(d, op).seq[op.run]
<1> DEFINE s == ShardOf[op.run]
           part == Split(d)[s]
<1>1. d \in Store /\ d.seq \in [Runs -> Nat] /\ d.inbox \subseteq Runs \X Nat /\ op.run \in Runs /\ s \in Shards
  BY OperationFields, RoutingAssumption DEF Rooted, Store
<1>2. /\ part \in Store /\ part.seq[op.run] = d.seq[op.run]
      /\ part.inbox = {x \in d.inbox : ShardOf[x[1]] = s}
  BY <1>1, SplitFields
<1>3. <<op.run, op.id>> \in part.inbox <=> <<op.run, op.id>> \in d.inbox
  BY <1>1, <1>2
<1> HIDE DEF part
<1>4. Mutates(part, op) <=> Mutates(d, op)
  BY <1>1, <1>2, <1>3, OperationFields, ApplyFields
<1>5. part.seq \in [Runs -> Nat]
  BY <1>2 DEF Store
<1>6. ASSUME Mutates(d, op) PROVE Apply(part, op).seq[op.run] = Apply(d, op).seq[op.run]
  <2>1. CASE op.kind = "create"
    <3>1. Apply(part, op) = [part EXCEPT !.seq[op.run] = 1] /\ Apply(d, op) = [d EXCEPT !.seq[op.run] = 1]
      BY <1>1, <1>2, <2>1, ApplyFields
    <3> QED BY <1>1, <1>2, <1>5, <3>1 DEF Store
  <2>2. CASE op.kind = "signal"
    <3>1. /\ Apply(part, op) = [part EXCEPT !.counter = @ + 1, !.inbox = @ \cup {<<op.run, part.counter + 1>>}]
          /\ Apply(d, op) = [d EXCEPT !.counter = @ + 1, !.inbox = @ \cup {<<op.run, d.counter + 1>>}]
      BY <1>1, <1>2, <2>2, ApplyFields
    <3> QED BY <1>1, <1>2, <1>5, <3>1 DEF Store
  <2>3. CASE op.kind = "commit"
    <3>1. /\ Apply(part, op) = [part EXCEPT !.seq[op.run] = @ + 1, !.inbox = @ \ {<<op.run, op.id>>}]
          /\ Apply(d, op) = [d EXCEPT !.seq[op.run] = @ + 1, !.inbox = @ \ {<<op.run, op.id>>}]
      BY <1>1, <1>2, <2>3, ApplyFields
    <3> QED BY <1>1, <1>2, <1>5, <3>1 DEF Store
  <2> QED BY <1>1, <1>6, <2>1, <2>2, <2>3, OperationFields, ApplyFields
<1> QED
  BY <1>2, <1>4, <1>6 DEF part

\* The parts after an operation on one of them merge into the whole after the operation.
LEMMA MergeActs ==
    ASSUME NEW d, Rooted(d), NEW op \in Operations, Mutates(d, op), NEW parts,
           DOMAIN parts = Shards,
           parts[ShardOf[op.run]] = Apply(Split(d)[ShardOf[op.run]], op),
           \A s \in Shards : s # ShardOf[op.run] => parts[s] = Split(d)[s]
    PROVE  Merge(parts) = Apply(d, op)
<1> DEFINE s0   == ShardOf[op.run]
           part == Split(d)[s0]
           e    == Apply(d, op)
           x(n) == <<op.run, n>>
<1>1. /\ d \in Store /\ d.seq \in [Runs -> Nat] /\ d.inbox \subseteq Runs \X Nat /\ d.counter \in Nat
      /\ op.run \in Runs /\ op.id \in Nat /\ s0 \in Shards /\ \A r \in Runs : ShardOf[r] \in Shards
  BY OperationFields, RoutingAssumption DEF Rooted, Store
<1>2. /\ part \in Store /\ \A r \in Runs : part.seq[r] = IF ShardOf[r] = s0 THEN d.seq[r] ELSE 0
      /\ part.inbox = {y \in d.inbox : ShardOf[y[1]] = s0}
      /\ part.counter = IF \A r \in Runs : ShardOf[r] = s0 => d.seq[r] = 0 THEN 0 ELSE d.counter
  BY <1>1, SplitFields
<1>3. \A s \in Shards : s # s0 =>
         /\ parts[s] \in Store /\ \A r \in Runs : parts[s].seq[r] = IF ShardOf[r] = s THEN d.seq[r] ELSE 0
         /\ parts[s].inbox = {y \in d.inbox : ShardOf[y[1]] = s}
         /\ parts[s].counter = IF \A r \in Runs : ShardOf[r] = s => d.seq[r] = 0 THEN 0 ELSE d.counter
  <2> TAKE s \in Shards
  <2> HAVE s # s0
  <2>1. parts[s] = Split(d)[s]
    OBVIOUS
  <2> HIDE DEF s0
  <2> QED BY <2>1, SplitFields
<1>4. parts[s0] = Apply(part, op)
  OBVIOUS
<1>5. Rooted(e) /\ e \in Store
  BY ApplyRooted DEF Rooted
<1>6. part.seq \in [Runs -> Nat] /\ part.counter \in Nat /\ part.inbox \subseteq Runs \X Nat
  BY <1>2 DEF Store
<1>7. /\ x(op.id)[1] = op.run /\ \A n \in Nat : x(n) \in Runs \X Nat /\ x(n)[1] = op.run
  BY <1>1
<1>8. \A s \in Shards : s # s0 => parts[s].counter \in Nat /\ parts[s].counter <= d.counter
  BY <1>1, <1>3
<1> HIDE DEF part, x
<1> DEFINE C == {parts[s].counter : s \in Shards}
           Q == [r \in Runs |-> parts[ShardOf[r]].seq[r]]
           I == UNION {parts[s].inbox : s \in Shards}
<1>9. Merge(parts) = [counter |-> Highest(C), seq |-> Q, inbox |-> I]
  BY DEF Merge
<1>10. ASSUME NEW c \in Nat, parts[s0].counter \in Nat, parts[s0].counter <= c,
              \A s \in Shards : s # s0 => parts[s].counter <= c, \E s \in Shards : parts[s].counter = c
       PROVE  Highest(C) = c
  <2>1. C \subseteq Nat /\ c \in C /\ \A y \in C : y <= c
    BY <1>1, <1>8, <1>10
  <2> HIDE DEF C
  <2> QED BY <2>1, HighestIs
<1>11. ASSUME NEW q, q \in [Runs -> Nat], parts[s0].seq[op.run] = q[op.run],
              \A r \in Runs : r # op.run => q[r] = d.seq[r],
              \A r \in Runs : r # op.run => parts[s0].seq[r] = part.seq[r]
       PROVE  Q = q
  <2>1. \A r \in Runs : Q[r] = q[r]
    <3> TAKE r \in Runs
    <3>1. ShardOf[r] \in Shards /\ Q[r] = parts[ShardOf[r]].seq[r]
      BY <1>1
    <3>2. CASE r = op.run
      BY <1>11, <3>1, <3>2
    <3>3. CASE r # op.run /\ ShardOf[r] = s0
      BY <1>2, <1>11, <3>1, <3>3
    <3>4. CASE r # op.run /\ ShardOf[r] # s0
      BY <1>3, <1>11, <3>1, <3>4
    <3> QED BY <3>2, <3>3, <3>4
  <2> QED BY <1>11, <2>1
<1>12. \A s \in Shards : \A y : s # s0 => (y \in parts[s].inbox <=> y \in d.inbox /\ ShardOf[y[1]] = s)
  BY <1>3
<1>13. \A y \in d.inbox : y[1] \in Runs /\ ShardOf[y[1]] \in Shards
  BY <1>1
<1>14. \A y : y \in part.inbox <=> y \in d.inbox /\ ShardOf[y[1]] = s0
  BY <1>2
<1>15. CASE op.kind = "create"
  <2>1. /\ e = [d EXCEPT !.seq[op.run] = 1] /\ parts[s0] = [part EXCEPT !.seq[op.run] = 1]
        /\ d.seq[op.run] = 0
    BY <1>1, <1>2, <1>4, <1>15, ApplyFields
  <2> DEFINE q == [d.seq EXCEPT ![op.run] = 1]
  <2>2. /\ parts[s0].counter = part.counter /\ parts[s0].inbox = part.inbox
        /\ parts[s0].seq[op.run] = 1 /\ \A r \in Runs : r # op.run => parts[s0].seq[r] = part.seq[r]
    BY <1>1, <1>2, <1>6, <2>1 DEF Store
  <2>3. Q = q
    BY <1>1, <1>11, <2>2
  <2>4. I = d.inbox
    BY <1>1, <1>12, <1>13, <1>14, <2>2
  <2>5. \E s \in Shards : parts[s].counter = d.counter
    <3>1. CASE d.counter = 0
      BY <1>1, <1>2, <2>2, <3>1
    <3>2. CASE d.counter # 0
      <4>1. PICK r \in Runs : d.seq[r] # 0
        BY <3>2 DEF Rooted
      <4>2. ShardOf[r] \in Shards
        BY <1>1
      <4> QED BY <1>2, <1>3, <2>2, <4>1, <4>2
    <3> QED BY <3>1, <3>2
  <2>6. part.counter <= d.counter
    BY <1>1, <1>2
  <2>7. Highest(C) = d.counter
    BY <1>1, <1>6, <1>8, <1>10, <2>2, <2>5, <2>6
  <2>8. e = [counter |-> d.counter, seq |-> q, inbox |-> d.inbox]
    BY <1>1, <2>1 DEF Store
  <2> QED BY <1>9, <2>3, <2>4, <2>7, <2>8
<1>16. CASE op.kind = "signal"
  <2>1. d.seq[op.run] # 0 /\ part.counter = d.counter
    BY <1>1, <1>2, <1>16, ApplyFields
  <2>2. /\ e = [d EXCEPT !.counter = @ + 1, !.inbox = @ \cup {x(d.counter + 1)}]
        /\ parts[s0] = [part EXCEPT !.counter = @ + 1, !.inbox = @ \cup {x(d.counter + 1)}]
    <3>1. x(d.counter + 1) = <<op.run, d.counter + 1>> /\ x(part.counter + 1) = <<op.run, part.counter + 1>>
      BY DEF x
    <3>2. e = [d EXCEPT !.counter = @ + 1, !.inbox = @ \cup {<<op.run, d.counter + 1>>}]
      BY <1>1, <1>16, ApplyFields
    <3>3. parts[s0] = [part EXCEPT !.counter = @ + 1, !.inbox = @ \cup {<<op.run, part.counter + 1>>}]
      BY <1>2, <1>4, <1>16, ApplyFields
    <3> QED BY <2>1, <3>1, <3>2, <3>3
  <2>3. /\ parts[s0].counter = d.counter + 1 /\ parts[s0].inbox = part.inbox \cup {x(d.counter + 1)}
        /\ parts[s0].seq = part.seq
    BY <1>2, <2>1, <2>2 DEF Store
  <2>4. Q = d.seq
    BY <1>1, <1>2, <1>11, <2>3
  <2>5. I = d.inbox \cup {x(d.counter + 1)}
    BY <1>1, <1>12, <1>13, <1>14, <2>3
  <2>6. d.counter + 1 \in Nat /\ \A s \in Shards : s # s0 => parts[s].counter <= d.counter + 1
    BY <1>1, <1>8
  <2>7. Highest(C) = d.counter + 1
    BY <1>1, <1>10, <2>3, <2>6
  <2>8. e = [counter |-> d.counter + 1, seq |-> d.seq, inbox |-> d.inbox \cup {x(d.counter + 1)}]
    BY <1>1, <2>2 DEF Store
  <2> QED BY <1>9, <2>4, <2>5, <2>7, <2>8
<1>17. CASE op.kind = "commit"
  <2>1. d.seq[op.run] # 0 /\ part.counter = d.counter
    BY <1>1, <1>2, <1>17, ApplyFields
  <2>2. /\ e = [d EXCEPT !.seq[op.run] = @ + 1, !.inbox = @ \ {x(op.id)}]
        /\ parts[s0] = [part EXCEPT !.seq[op.run] = @ + 1, !.inbox = @ \ {x(op.id)}]
    BY <1>1, <1>2, <1>4, <1>17, <2>1, ApplyFields DEF x
  <2> DEFINE q == [d.seq EXCEPT ![op.run] = @ + 1]
  <2>3. /\ parts[s0].counter = d.counter /\ parts[s0].inbox = part.inbox \ {x(op.id)}
        /\ parts[s0].seq = [part.seq EXCEPT ![op.run] = @ + 1]
    BY <1>2, <2>1, <2>2 DEF Store
  <2>4. /\ parts[s0].seq[op.run] = d.seq[op.run] + 1
        /\ \A r \in Runs : r # op.run => parts[s0].seq[r] = part.seq[r]
    BY <1>1, <1>2, <1>6, <2>3
  <2>5. Q = q
    BY <1>1, <1>11, <2>4
  <2>6. I = d.inbox \ {x(op.id)}
    <3>1. \A s \in Shards : s # s0 => x(op.id) \notin parts[s].inbox
      BY <1>7, <1>12
    <3> QED BY <1>1, <1>12, <1>13, <1>14, <2>3, <3>1
  <2>7. Highest(C) = d.counter
    BY <1>1, <1>8, <1>10, <2>3
  <2>8. e = [counter |-> d.counter, seq |-> q, inbox |-> d.inbox \ {x(op.id)}]
    BY <1>1, <2>2 DEF Store
  <2> QED BY <1>9, <2>5, <2>6, <2>7, <2>8
<1> QED
  BY <1>1, <1>15, <1>16, <1>17, OperationFields, ApplyFields

-------------------------------------------------------------------------------
(* The invariant of the Postgres provider. *)

\* The store that the whole journal leads to.
Now == History(journal)[Len(journal)]

Version == [store : Store, upto : Nat]
Stages == {"loading", "begun", "asked", "spawning", "registering", "ready", "executed", "recording", "answered"}
Call == [stage : Stages, op : Operations, since : Nat, base : Version, next : Nat, rows : SUBSET Nat,
         actor : Nat, mutated : BOOLEAN, outcome : {"none", "ok", "refused", "error"}, seq : Nat]

TypeOK ==
    /\ actors \in [Processes -> [Shards -> Nat]]
    /\ DOMAIN engines \subseteq Nat \ {0} /\ engines \in [DOMAIN engines -> Store]
    /\ initial \in [Processes -> [Shards -> Store]]
    /\ directory \in [Processes -> SUBSET Runs]
    /\ cache \in [Processes -> [Runs -> Nat]]
    /\ calls \in [Slots -> Call \cup {Idle}]
    /\ told \in [Runs -> Nat]
    /\ journal \in Seq(Operations)
    /\ snapshot \in Version
    /\ writer \in Processes \cup {NoProcess}

\* The journal loads, and a snapshot is what the entries it covers lead to.
IsVersion(v) == v.upto \in 0..Len(journal) /\ v.store = History(journal)[v.upto]
LogInv == Sequential(journal) /\ IsVersion(snapshot)

\* No two processes have an actor in common, and every actor lives.
Active(k) == calls[k].stage # "idle"
Has(p, a) == (\E s \in Shards : actors[p][s] = a) \/ (Active(<<p, 1>>) /\ calls[<<p, 1>>].actor = a)
ActorsApart ==
    /\ \A p \in Processes, a \in Nat \ {0} : Has(p, a) => a \in DOMAIN engines
    /\ \A p, q \in Processes, a \in Nat \ {0} : Has(p, a) /\ Has(q, a) => p = q

\* A call that writes is in its transaction from when it entered it until it is recorded.
InTransaction(k) ==
    /\ calls[k].stage \in {"asked", "spawning", "registering", "ready", "executed", "recording"}
    /\ calls[k].op.kind # "load"

\* The routers of a transaction have the parts of the present store, but for the operation it
\* has executed.
Elsewhere(p, s0) == \A s \in Shards : s # s0 => actors[p][s] = 0 /\ initial[p][s] = Split(Now)[s]
Home(k) == ShardOf[calls[k].op.run]
Transaction(k) ==
    LET p  == k[1]
        c  == calls[k]
        s0 == Home(k)
        a  == actors[p][s0]
    IN  /\ writer = p
        /\ Elsewhere(p, s0)
        /\ c.stage \in {"asked", "spawning"} => a = 0 /\ initial[p][s0] = Split(Now)[s0]
        /\ c.stage = "registering" => a = 0 /\ c.actor # 0 /\ engines[c.actor] = Split(Now)[s0]
        /\ c.stage = "ready" => a # 0 /\ c.actor = a /\ engines[a] = Split(Now)[s0]
        /\ c.stage \in {"executed", "recording"} =>
             /\ a # 0
             /\ c.mutated = Mutates(Now, c.op)
             /\ c.mutated => /\ engines[a] = Apply(Split(Now)[s0], c.op)
                             /\ c.seq = Apply(Now, c.op).seq[c.op.run]
             /\ ~ c.mutated => c.seq = Now.seq[c.op.run]

\* A read finds its run in the cache or nowhere: it reaches no actor.
Load(k) ==
    LET p == k[1]
        c == calls[k]
    IN  /\ c.stage \in {"loading", "asked", "answered"}
        /\ c.stage = "asked" =>
             /\ \A s \in Shards : actors[p][s] = 0
             /\ \A r \in Runs : r \in directory[p] <=> cache[p][r] # 0
             /\ \A r \in Runs : initial[p][ShardOf[r]].seq[r] # 0 => cache[p][r] # 0

\* With one partition a read loads the store as it was at some instant of the call.
Reads(k) ==
    LET p == k[1]
        c == calls[k]
    IN  /\ c.stage = "loading" =>
             /\ c.base.upto <= c.since
             /\ c.next = 0 => c.rows = {} /\ c.since <= Len(journal)
             /\ c.next # 0 => \E n \in c.since..Len(journal) : c.rows = (c.base.upto + 1)..n
        /\ c.stage = "asked" => \E n \in c.since..Len(journal) : cache[p] = History(journal)[n].seq
        /\ c.stage = "answered" =>
             /\ c.outcome = "ok"
             /\ \E n \in c.since..Len(journal) : c.seq = History(journal)[n].seq[c.op.run]

SlotInv(k) ==
    /\ calls[k].stage = "loading" => IsVersion(calls[k].base)
    /\ InTransaction(k) => Transaction(k)
    /\ Active(k) /\ calls[k].stage \notin {"registering", "ready"} => calls[k].actor = 0
    /\ Active(k) /\ calls[k].op.kind = "load" => Load(k)
    /\ Active(k) /\ calls[k].op.kind = "load" /\ Partitions = 1 => Reads(k)
    /\ calls[k].stage = "answered" /\ calls[k].op.kind \in {"create", "commit"} /\ calls[k].outcome = "ok" =>
         calls[k].seq <= Now.seq[calls[k].op.run]

ToldInv == \A r \in Runs : told[r] <= Now.seq[r]

ProviderInv ==
    /\ TypeOK
    /\ LogInv
    /\ ActorsApart
    /\ \A k \in Slots : SlotInv(k)
    /\ ToldInv

-------------------------------------------------------------------------------
(* What a step of one call leaves alone. *)

LEMMA OneCallEach ==
    ASSUME Journaled
    PROVE  /\ \A k \in Slots : k[1] \in Processes /\ k = <<k[1], 1>>
           /\ \A p \in Processes : <<p, 1>> \in Slots /\ <<p, 1>>[1] = p
           /\ \A j, k \in Slots : j # k => j[1] # k[1]
<1>1. 1..Calls = {1}
  BY CallAssumption
<1>2. Slots = Processes \X {1}
  BY <1>1 DEF Slots
<1> QED
  BY <1>2

LEMMA OfIsHas ==
    ASSUME Journaled, NEW p \in Processes, NEW a
    PROVE  a \in Of(p) <=> Has(p, a)
<1>1. 1..Calls = {1}
  BY CallAssumption
<1> QED
  BY <1>1 DEF Of, Has, Active

LEMMA KeptIsHas ==
    ASSUME Journaled, NEW k \in Slots, NEW q \in Processes, NEW a, Has(q, a), q # k[1] \/ \E s \in Shards : actors[q][s] = a
    PROVE  a \in Kept(k)
<1>1. CASE \E s \in Shards : actors[q][s] = a
  BY <1>1 DEF Kept
<1>2. CASE q # k[1] /\ Active(<<q, 1>>) /\ calls[<<q, 1>>].actor = a
  <2>1. <<q, 1>> \in Slots /\ <<q, 1>> # k
    BY <1>2, OneCallEach
  <2> QED BY <1>2, <2>1 DEF Kept, Active
<1> QED
  BY <1>1, <1>2 DEF Has

LEMMA CallFields ==
    ASSUME TypeOK, NEW k \in Slots, Active(k)
    PROVE  /\ calls[k] \in Call /\ calls[k].op \in Operations /\ calls[k].op.run \in Runs
           /\ calls[k].stage \in Stages /\ calls[k].actor \in Nat /\ Home(k) \in Shards
<1>1. calls[k] \in Call
  BY DEF TypeOK, Active, Idle
<1> QED
  BY <1>1, OperationFields, RoutingAssumption DEF Call, Home

LEMMA ActiveStages ==
    ASSUME TypeOK, NEW k \in Slots
    PROVE  /\ InTransaction(k) => Active(k)
           /\ calls[k].stage = "loading" => Active(k)
           /\ calls[k].stage = "answered" => Active(k)
BY DEF InTransaction, Active

\* The present store is one of those a journal can lead to.
LEMMA NowRooted == ASSUME LogInv PROVE Rooted(Now) /\ Now \in Store /\ Len(journal) \in Nat
<1>1. Len(journal) \in Nat
  BY DEF LogInv, Sequential
<1> QED
  BY <1>1, HistoryRooted DEF LogInv, Now, Rooted

\* A call depends on its process only, while the journal stays as it is.
LEMMA SlotFrame ==
    ASSUME Journaled, TypeOK, NEW k \in Slots, SlotInv(k), journal' = journal, calls'[k] = calls[k],
           actors'[k[1]] = actors[k[1]], initial'[k[1]] = initial[k[1]],
           directory'[k[1]] = directory[k[1]], cache'[k[1]] = cache[k[1]],
           \A a \in Nat \ {0} : Has(k[1], a) => engines'[a] = engines[a],
           InTransaction(k) => writer' = writer
    PROVE  SlotInv(k)'
<1> DEFINE p == k[1]
           c == calls[k]
<1>1. p \in Processes /\ k = <<p, 1>>
  BY OneCallEach
<1>2. Now' = Now /\ Home(k)' = Home(k) /\ Active(k)' = Active(k) /\ InTransaction(k)' = InTransaction(k)
  BY DEF Now, Home, Active, InTransaction
<1>3. c.stage = "loading" => IsVersion(c.base)'
  BY DEF SlotInv, IsVersion
<1>4. Active(k) /\ c.op.kind = "load" => Load(k)'
  BY DEF SlotInv, Load
<1>5. Active(k) /\ c.op.kind = "load" /\ Partitions = 1 => Reads(k)'
  BY DEF SlotInv, Reads
<1>6. InTransaction(k) => Transaction(k)'
  <2> SUFFICES ASSUME InTransaction(k) PROVE Transaction(k)'
    OBVIOUS
  <2>1. Transaction(k)
    BY DEF SlotInv
  <2>2. Active(k) /\ c \in Call /\ c.actor \in Nat /\ Home(k) \in Shards /\ c.stage \in Stages
    BY ActiveStages, CallFields
  <2> DEFINE a == actors[p][Home(k)]
  <2>3. a \in Nat
    BY <1>1, <2>2 DEF TypeOK
  <2>4. (a # 0 => Has(p, a)) /\ Has(p, c.actor)
    BY <1>1, <2>2 DEF Has
  <2>5. (a # 0 => engines'[a] = engines[a]) /\ (c.actor # 0 => engines'[c.actor] = engines[c.actor])
    BY <2>2, <2>3, <2>4
  <2>6. Elsewhere(p, Home(k))'
    BY <1>2, <2>1 DEF Transaction, Elsewhere
  <2> QED BY <1>2, <2>1, <2>5, <2>6 DEF Transaction
<1> QED
  BY <1>2, <1>3, <1>4, <1>5, <1>6 DEF SlotInv

\* A step of one process: the other processes keep what they have.
Alone(p) ==
    /\ \A q \in Processes : q # p =>
         /\ calls'[<<q, 1>>] = calls[<<q, 1>>]
         /\ actors'[q] = actors[q] /\ initial'[q] = initial[q]
         /\ directory'[q] = directory[q] /\ cache'[q] = cache[q]
         /\ \A a \in Nat \ {0} : Has(q, a) => engines'[a] = engines[a]
    /\ writer' = writer \/ writer \in {p, NoProcess}

LEMMA OthersKeep ==
    ASSUME Journaled, ProviderInv, NEW k \in Slots, Alone(k[1]), journal' = journal
    PROVE  \A j \in Slots : j # k => SlotInv(j)'
<1> SUFFICES ASSUME NEW j \in Slots, j # k PROVE SlotInv(j)'
  OBVIOUS
<1>1. j[1] \in Processes /\ j[1] # k[1] /\ j = <<j[1], 1>>
  BY OneCallEach
<1>2. SlotInv(j) /\ TypeOK
  BY DEF ProviderInv
<1>3. InTransaction(j) => writer' = writer
  <2> SUFFICES ASSUME InTransaction(j) PROVE writer' = writer
    OBVIOUS
  <2>1. writer = j[1]
    BY <1>2 DEF SlotInv, Transaction
  <2> QED BY <1>1, <2>1, NumberAssumption DEF Alone
<1> QED
  BY <1>1, <1>2, <1>3, SlotFrame DEF Alone

\* What is left to show of a step that records nothing.
LEMMA StepOf ==
    ASSUME Journaled, ProviderInv, NEW k \in Slots, Alone(k[1]), UNCHANGED <<journal, snapshot, told>>,
           TypeOK', ActorsApart', SlotInv(k)'
    PROVE  ProviderInv'
<1>1. \A j \in Slots : SlotInv(j)'
  BY OthersKeep
<1>2. LogInv'
  BY DEF ProviderInv, LogInv, IsVersion
<1>3. ToldInv'
  BY DEF ProviderInv, ToldInv, Now
<1> QED
  BY <1>1, <1>2, <1>3 DEF ProviderInv

\* A step after which only the call is another.
LEMMA CallStep ==
    ASSUME Journaled, ProviderInv, NEW k \in Slots, NEW c \in Call \cup {Idle},
           calls' = [calls EXCEPT ![k] = c], UNCHANGED <<routers, told, stored>>,
           c.stage # "idle" /\ c.actor # 0 => Has(k[1], c.actor),
           SlotInv(k)'
    PROVE  ProviderInv'
<1>1. k[1] \in Processes /\ k = <<k[1], 1>> /\ TypeOK /\ ActorsApart
  BY OneCallEach DEF ProviderInv
<1>2. calls'[k] = c /\ \A j \in Slots : j # k => calls'[j] = calls[j]
  BY <1>1 DEF TypeOK
<1>3. \A q \in Processes : q # k[1] => calls'[<<q, 1>>] = calls[<<q, 1>>]
  <2> TAKE q \in Processes
  <2>1. <<q, 1>> \in Slots /\ <<q, 1>>[1] = q
    BY OneCallEach
  <2> QED BY <1>2, <2>1
<1>4. Alone(k[1])
  BY <1>3 DEF Alone, routers, stored
<1>5. TypeOK'
  BY <1>1 DEF TypeOK, routers, stored
<1>6. \A p \in Processes, a \in Nat \ {0} : Has(p, a)' => Has(p, a)
  BY <1>1, <1>2, <1>3 DEF Has, Active, routers
<1>7. ActorsApart'
  BY <1>1, <1>6 DEF ActorsApart, routers
<1> QED
  BY <1>4, <1>5, <1>7, StepOf DEF routers, stored

-------------------------------------------------------------------------------
(* The steps of a call that change nothing but the call. *)

LEMMA NumbersOfLog == ASSUME TypeOK PROVE Len(journal) \in Nat /\ snapshot \in Version
BY DEF TypeOK

LEMMA AskInv ==
    ASSUME Journaled, ProviderInv, NEW k \in Slots, NEW op \in Asks[k[1]], Ask(k, op)
    PROVE  ProviderInv'
<1>1. op \in Operations /\ TypeOK /\ LogInv
  BY OneCallEach, AskAssumption DEF ProviderInv
<1>2. Len(journal) \in Nat /\ snapshot \in Version
  BY <1>1, NumbersOfLog
<1>3. PICK d : d = NewCall(op)
  OBVIOUS
<1>4. /\ d \in Call /\ d.actor = 0 /\ d.next = 0 /\ d.rows = {} /\ d.op = op
      /\ op.kind = "load" => d.since = Len(journal)
  <2>1. NoSnapshot \in Version
    BY EmptyRooted DEF NoSnapshot, Version, Rooted
  <2> QED BY <1>1, <1>2, <1>3, <2>1 DEF NewCall, Call, Stages
<1>5. PICK c : c = [d EXCEPT !.stage = "loading", !.base = snapshot]
  OBVIOUS
<1>6. /\ c \in Call /\ c.stage = "loading" /\ c.base = snapshot /\ c.actor = 0 /\ c.next = 0 /\ c.rows = {}
      /\ c.op = op
      /\ op.kind = "load" => c.since = Len(journal)
  BY <1>2, <1>4, <1>5 DEF Call, Stages
<1>7. calls' = [calls EXCEPT ![k] = c] /\ UNCHANGED <<routers, told, stored>>
  BY <1>3, <1>5, Zenon DEF Ask
<1>8. calls'[k] = c
  BY <1>1, <1>7 DEF TypeOK
<1>9. IsVersion(c.base)'
  BY <1>1, <1>7, <1>6 DEF LogInv, IsVersion, stored
<1>10. c.op.kind = "load" => Load(k)'
  BY <1>8, <1>6 DEF Load
<1>11. c.op.kind = "load" => Reads(k)'
  BY <1>1, <1>2, <1>7, <1>8, <1>6 DEF Reads, LogInv, IsVersion, stored
<1>12. SlotInv(k)'
  BY <1>8, <1>6, <1>9, <1>10, <1>11 DEF SlotInv, InTransaction
<1> QED
  BY <1>6, <1>7, <1>12, CallStep

LEMMA ReadPartitionInv ==
    ASSUME Journaled, ProviderInv, NEW k \in Slots, ReadPartition(k)
    PROVE  ProviderInv'
<1> DEFINE o == calls[k]
           R == {n \in (o.base.upto + 1)..Len(journal) : PartitionOf[ShardOf[journal[n].run]] = o.next}
<1>1. TypeOK /\ LogInv /\ SlotInv(k) /\ k[1] \in Processes
  BY OneCallEach DEF ProviderInv
<1>2. o.stage = "loading" /\ Active(k) /\ o.next < Partitions
  BY DEF ReadPartition, At, Active
<1>3. o \in Call /\ o.next \in Nat /\ o.rows \in SUBSET Nat /\ o.base.upto \in Nat /\ o.since \in Nat
  BY <1>1, <1>2, CallFields DEF Call, Version
<1>4. Len(journal) \in Nat
  BY <1>1, NumbersOfLog
<1>5. R \subseteq Nat
  BY <1>3, <1>4
<1>13. PICK c : c = [o EXCEPT !.rows = @ \cup R, !.next = @ + 1]
  OBVIOUS
<1>6. c \in Call /\ c.stage = "loading" /\ c.base = o.base /\ c.actor = o.actor /\ c.op = o.op /\ c.since = o.since
      /\ c.next = o.next + 1 /\ c.rows = o.rows \cup R
  <2>1. o.rows \cup R \in SUBSET Nat /\ o.next + 1 \in Nat
    BY <1>3, <1>5
  <2> HIDE DEF R, o
  <2> QED BY <1>2, <1>3, <1>13, <2>1 DEF Call
<1>7. calls' = [calls EXCEPT ![k] = c] /\ UNCHANGED <<routers, told, stored>>
  <2>1. calls' = [calls EXCEPT ![k].rows = @ \cup R, ![k].next = @ + 1] /\ UNCHANGED <<routers, told, stored>>
    BY Zenon DEF ReadPartition
  <2>2. k \in DOMAIN calls
    BY <1>1 DEF TypeOK
  <2> HIDE DEF R
  <2> QED BY <1>13, <2>1, <2>2
<1>8. calls'[k] = c
  BY <1>1, <1>7 DEF TypeOK
<1>9. o.actor = 0 /\ IsVersion(o.base)
  BY <1>1, <1>2 DEF SlotInv
<1>10. c.op.kind = "load" /\ Partitions = 1 => Reads(k)'
  <2> SUFFICES ASSUME o.op.kind = "load", Partitions = 1 PROVE Reads(k)'
    BY <1>6
  <2>1. Reads(k) /\ o.next = 0
    BY <1>1, <1>2, <1>3 DEF SlotInv
  <2>2. o.base.upto <= o.since /\ o.rows = {} /\ o.since <= Len(journal)
    BY <1>2, <2>1 DEF Reads
  <2>3. R = (o.base.upto + 1)..Len(journal)
    <3>1. \A n \in (o.base.upto + 1)..Len(journal) : PartitionOf[ShardOf[journal[n].run]] = 0
      <4> TAKE n \in (o.base.upto + 1)..Len(journal)
      <4>1. n \in 1..Len(journal)
        BY <1>3, <1>4
      <4>2. journal[n] \in Operations
        BY <1>1, <4>1 DEF TypeOK
      <4>3. PartitionOf[ShardOf[journal[n].run]] \in 0..(Partitions - 1)
        BY <4>2, OperationFields, RoutingAssumption
      <4> QED BY <4>3
    <3> QED BY <2>1, <3>1
  <2>4. c.rows = (c.base.upto + 1)..Len(journal) /\ Len(journal) \in c.since..Len(journal) /\ c.next # 0
    BY <1>3, <1>4, <1>6, <2>1, <2>2, <2>3
  <2> QED BY <1>6, <1>7, <1>8, <2>2, <2>4 DEF Reads, stored
<1>11. c.op.kind = "load" => Load(k)'
  BY <1>6, <1>8 DEF Load
<1>12. SlotInv(k)'
  BY <1>6, <1>7, <1>8, <1>9, <1>10, <1>11 DEF SlotInv, InTransaction, IsVersion, stored
<1> QED
  BY <1>6, <1>7, <1>9, <1>12, CallStep

\* An answer from the routers as they are.
LEMMA AnsweredCall ==
    ASSUME TypeOK, NEW k \in Slots, Active(k), NEW outcome \in {"ok", "refused", "error"}, NEW seq \in Nat
    PROVE  \E c \in Call : /\ Answered(k, outcome, seq) = [calls EXCEPT ![k] = c]
                           /\ c.stage = "answered" /\ c.op = calls[k].op /\ c.since = calls[k].since
                           /\ c.actor = calls[k].actor /\ c.outcome = outcome /\ c.seq = seq
<1> DEFINE o == calls[k]
           c == [o EXCEPT !.stage = "answered", !.base = NoSnapshot, !.rows = {}, !.outcome = outcome, !.seq = seq]
<1>1. o \in Call
  BY CallFields
<1>2. NoSnapshot \in Version
  BY EmptyRooted DEF NoSnapshot, Version, Rooted
<1>3. /\ c \in Call /\ c.stage = "answered" /\ c.op = o.op /\ c.since = o.since /\ c.actor = o.actor
      /\ c.outcome = outcome /\ c.seq = seq
  BY <1>1, <1>2 DEF Call, Stages
<1>4. Answered(k, outcome, seq) = [calls EXCEPT ![k] = c]
  <2>1. k \in DOMAIN calls
    BY DEF TypeOK
  <2> QED BY <2>1 DEF Answered
<1> QED
  BY <1>3, <1>4

LEMMA AnsweredInv ==
    ASSUME Journaled, ProviderInv, NEW k \in Slots, Active(k), calls[k].actor = 0,
           NEW outcome \in {"ok", "refused", "error"}, NEW seq \in Nat,
           calls' = Answered(k, outcome, seq), UNCHANGED <<routers, told, stored>>,
           outcome = "ok" => calls[k].op.kind = "load",
           calls[k].op.kind = "load" /\ Partitions = 1 =>
               /\ outcome = "ok"
               /\ \E n \in calls[k].since..Len(journal) : seq = History(journal)[n].seq[calls[k].op.run]
    PROVE  ProviderInv'
<1>1. TypeOK
  BY DEF ProviderInv
<1>2. PICK c \in Call : /\ calls' = [calls EXCEPT ![k] = c]
                        /\ c.stage = "answered" /\ c.op = calls[k].op /\ c.since = calls[k].since
                        /\ c.actor = calls[k].actor /\ c.outcome = outcome /\ c.seq = seq
  BY <1>1, AnsweredCall
<1>3. calls'[k] = c
  BY <1>1, <1>2 DEF TypeOK
<1>4. journal' = journal
  BY DEF stored
<1>5. c.op.kind = "load" => Load(k)'
  BY <1>2, <1>3 DEF Load
<1>6. c.op.kind = "load" /\ Partitions = 1 => Reads(k)'
  BY <1>2, <1>3, <1>4 DEF Reads
<1>7. SlotInv(k)'
  BY <1>2, <1>3, <1>5, <1>6 DEF SlotInv, InTransaction
<1> QED
  BY <1>2, <1>7, CallStep

LEMMA ReadCacheInv ==
    ASSUME Journaled, ProviderInv, NEW k \in Slots, ReadCache(k)
    PROVE  ProviderInv'
<1> DEFINE c == calls[k]
           n == cache[k[1]][c.op.run]
<1>1. TypeOK /\ SlotInv(k) /\ k[1] \in Processes
  BY OneCallEach DEF ProviderInv
<1>2. /\ c.stage = "asked" /\ Active(k) /\ c.op.kind = "load"
      /\ calls' = Answered(k, "ok", n) /\ UNCHANGED <<routers, told, stored>>
  BY DEF ReadCache, At, Active
<1>3. c.actor = 0 /\ c.op.run \in Runs
  BY <1>1, <1>2, CallFields DEF SlotInv
<1>4. n \in Nat
  BY <1>1, <1>3 DEF TypeOK
<1>5. Partitions = 1 => \E m \in c.since..Len(journal) : n = History(journal)[m].seq[c.op.run]
  BY <1>1, <1>2 DEF SlotInv, Reads
<1> HIDE DEF n
<1> QED
  BY <1>2, <1>3, <1>4, <1>5, AnsweredInv
\* The answer that a call has so far, and what it has in its hand, when it goes to another stage.
LEMMA StepIs ==
    ASSUME TypeOK, NEW k \in Slots, Active(k), NEW stage \in Stages
    PROVE  \E c \in Call : /\ Step(k, stage) = [calls EXCEPT ![k] = c]
                           /\ c = [calls[k] EXCEPT !.stage = stage]
                           /\ c.stage = stage /\ c.op = calls[k].op /\ c.since = calls[k].since
                           /\ c.actor = calls[k].actor /\ c.mutated = calls[k].mutated
                           /\ c.outcome = calls[k].outcome /\ c.seq = calls[k].seq
<1> DEFINE o == calls[k]
<1>1. o \in Call /\ k \in DOMAIN calls
  BY CallFields DEF TypeOK
<1>2. PICK c : c = [o EXCEPT !.stage = stage]
  OBVIOUS
<1>3. /\ c \in Call /\ c.stage = stage /\ c.op = o.op /\ c.since = o.since
      /\ c.actor = o.actor /\ c.mutated = o.mutated /\ c.outcome = o.outcome /\ c.seq = o.seq
  BY <1>1, <1>2 DEF Call
<1>4. Step(k, stage) = [calls EXCEPT ![k] = c]
  BY <1>1, <1>2 DEF Step
<1> QED
  BY <1>2, <1>3, <1>4

LEMMA LookUpInv ==
    ASSUME Journaled, ProviderInv, NEW k \in Slots, LookUp(k)
    PROVE  ProviderInv'
<1> DEFINE c == calls[k]
           p == k[1]
           r == c.op.run
<1>1. TypeOK /\ ActorsApart /\ SlotInv(k) /\ p \in Processes
  BY OneCallEach DEF ProviderInv
<1>2. /\ c.stage = "asked" /\ Active(k) /\ c.op.kind # "create"
      /\ c.op.kind = "load" => cache[p][r] = 0
  BY DEF LookUp, At, Active
<1>3. c.actor = 0 /\ r \in Runs /\ c.op \in Operations
  BY <1>1, <1>2, CallFields DEF SlotInv
<1>4. CASE Holds(p, r)
  <2>1. directory' = [directory EXCEPT ![p] = @ \cup {r}] /\ calls' = calls
        /\ UNCHANGED <<actors, engines, initial, cache, told, stored>>
    BY <1>4 DEF LookUp
  <2>2. c.op.kind # "load"
    <3> SUFFICES ASSUME c.op.kind = "load" PROVE FALSE
      OBVIOUS
    <3>1. Load(k)
      BY <1>1, <1>2 DEF SlotInv
    <3>2. actors[p][ShardOf[r]] = 0
      BY <1>2, <1>3, <3>1, RoutingAssumption DEF Load
    <3>3. initial[p][ShardOf[r]].seq[r] # 0
      BY <1>4, <3>2 DEF Holds
    <3> QED BY <1>2, <1>3, <3>1, <3>3 DEF Load
  <2>3. TypeOK'
    BY <1>1, <1>3, <2>1 DEF TypeOK, stored
  <2>4. ActorsApart'
    BY <1>1, <2>1 DEF ActorsApart, Has, Active
  <2>5. Alone(p)
    <3>1. \A q \in Processes : q # p => directory'[q] = directory[q]
      BY <1>1, <2>1 DEF TypeOK
    <3> QED BY <2>1, <3>1 DEF Alone, stored
  <2>6. SlotInv(k)'
    BY <1>1, <1>2, <2>1, <2>2 DEF SlotInv, InTransaction, Transaction, Elsewhere, Home, Active, Now, stored
  <2> QED BY <2>1, <2>3, <2>4, <2>5, <2>6, StepOf DEF stored
<1>5. CASE ~ Holds(p, r)
  <2>1. PICK outcome : outcome = IF c.op.kind = "load" THEN "ok" ELSE "refused"
    OBVIOUS
  <2>2. calls' = Answered(k, outcome, 0) /\ UNCHANGED <<routers, told, stored>>
    BY <1>5, <2>1 DEF LookUp, routers
  <2>3. c.op.kind = "load" /\ Partitions = 1 =>
          outcome = "ok" /\ \E n \in c.since..Len(journal) : 0 = History(journal)[n].seq[r]
    <3> SUFFICES ASSUME c.op.kind = "load", Partitions = 1
                 PROVE  \E n \in c.since..Len(journal) : 0 = History(journal)[n].seq[r]
      BY <2>1
    <3>1. PICK n \in c.since..Len(journal) : cache[p] = History(journal)[n].seq
      BY <1>1, <1>2 DEF SlotInv, Reads
    <3> QED BY <1>2, <3>1
  <2>4. outcome \in {"ok", "refused", "error"} /\ 0 \in Nat /\ (outcome = "ok" => c.op.kind = "load")
    BY <2>1
  <2> QED BY <1>2, <1>3, <2>2, <2>3, <2>4, AnsweredInv
<1> QED
  BY <1>4, <1>5

LEMMA FindActorInv ==
    ASSUME Journaled, ProviderInv, NEW k \in Slots, FindActor(k)
    PROVE  ProviderInv'
<1> DEFINE o == calls[k]
           p == k[1]
<1>1. TypeOK /\ SlotInv(k) /\ p \in Processes
  BY OneCallEach DEF ProviderInv
<1>2. o.stage = "asked" /\ Active(k) /\ Routed(k)
  BY DEF FindActor, At, Active
<1>3. o.actor = 0 /\ o.op \in Operations /\ o.op.run \in Runs
  BY <1>1, <1>2, CallFields DEF SlotInv
<1>4. o.op.kind # "load"
  BY <1>1, <1>2, <1>3 DEF SlotInv, Load, Routed
<1>5. InTransaction(k) /\ Transaction(k)
  BY <1>1, <1>2, <1>4 DEF InTransaction, SlotInv
<1>6. Handle(k) = 0
  BY <1>2, <1>5 DEF Transaction, Handle, Home
<1>7. calls' = Step(k, "spawning") /\ UNCHANGED <<routers, told, stored>>
  BY <1>6 DEF FindActor
<1>8. PICK c \in Call : /\ calls' = [calls EXCEPT ![k] = c] /\ c.stage = "spawning" /\ c.op = o.op /\ c.actor = 0
  <2>1. "spawning" \in Stages
    BY DEF Stages
  <2> QED BY <1>1, <1>2, <1>3, <1>7, <2>1, StepIs
<1>9. calls'[k] = c
  BY <1>1, <1>8 DEF TypeOK
<1>10. Transaction(k)'
  BY <1>2, <1>5, <1>7, <1>8, <1>9 DEF Transaction, Elsewhere, Home, Now, routers, stored
<1>11. SlotInv(k)'
  BY <1>4, <1>8, <1>9, <1>10 DEF SlotInv
<1> QED
  BY <1>7, <1>8, <1>11, CallStep
-------------------------------------------------------------------------------
(* The steps of a transaction that reach an actor. *)

LEMMA OtherCalls ==
    ASSUME Journaled, TypeOK, NEW k \in Slots, NEW c, calls' = [calls EXCEPT ![k] = c]
    PROVE  calls'[k] = c /\ \A q \in Processes : q # k[1] => calls'[<<q, 1>>] = calls[<<q, 1>>]
<1>1. calls'[k] = c /\ \A j \in Slots : j # k => calls'[j] = calls[j]
  BY DEF TypeOK
<1> QED
  BY <1>1, OneCallEach

\* A call that is not a read, past its loading, is in its transaction.
LEMMA NotRead ==
    ASSUME Journaled, ProviderInv, NEW k \in Slots, calls[k].stage \in {"spawning", "registering", "ready", "executed", "recording"}
    PROVE  /\ calls[k].op.kind # "load" /\ Active(k) /\ InTransaction(k) /\ Transaction(k)
           /\ k[1] \in Processes /\ k = <<k[1], 1>> /\ Home(k) \in Shards
           /\ calls[k] \in Call /\ calls[k].op \in Operations /\ calls[k].op.run \in Runs
<1>1. Active(k) /\ SlotInv(k) /\ TypeOK
  BY DEF Active, ProviderInv
<1>2. calls[k].op.kind # "load"
  BY <1>1 DEF SlotInv, Load
<1>3. InTransaction(k)
  BY <1>2 DEF InTransaction
<1> QED
  BY <1>1, <1>2, <1>3, OneCallEach, CallFields DEF SlotInv

LEMMA SpawnActorInv ==
    ASSUME Journaled, ProviderInv, NEW k \in Slots, SpawnActor(k)
    PROVE  ProviderInv'
<1> DEFINE o  == calls[k]
           p  == k[1]
           s0 == Home(k)
<1>1. TypeOK /\ ActorsApart /\ o.stage = "spawning" /\ FreeActors # {}
  BY DEF ProviderInv, SpawnActor, At
<1>2. /\ o.op.kind # "load" /\ Active(k) /\ InTransaction(k) /\ Transaction(k)
      /\ p \in Processes /\ k = <<p, 1>> /\ s0 \in Shards /\ o \in Call
  BY <1>1, NotRead
<1>3. PICK a : a = CHOOSE x \in FreeActors : \A y \in FreeActors : x <= y
  OBVIOUS
<1>4. a \in Nat \ {0} /\ a \notin DOMAIN engines
  <2>1. FreeActors \subseteq Nat \ {0}
    BY NumberAssumption DEF FreeActors
  <2>2. \E x \in FreeActors : \A y \in FreeActors : x <= y
    <3>1. \A i \in Nat : i \in FreeActors => \E x \in FreeActors : \A y \in FreeActors : x <= y
      <4> DEFINE R == {ss \in Nat \X Nat : ss[1] < ss[2]}
      <4>1. IsWellFoundedOn(R, Nat)
        BY NatLessThanWellFounded DEF OpToRel
      <4>2. FreeActors \subseteq Nat /\ FreeActors # {}
        BY <1>1, <2>1
      <4>3. PICK x \in FreeActors : \A y \in FreeActors : ~ (<<y, x>> \in R)
        <5> HIDE DEF R
        <5> QED BY <4>1, <4>2, WFMin
      <4>4. \A y \in FreeActors : x <= y
        <5> TAKE y \in FreeActors
        <5>1. x \in Nat /\ y \in Nat /\ ~ (<<y, x>> \in R)
          BY <4>2, <4>3
        <5>2. <<y, x>> \in Nat \X Nat /\ <<y, x>>[1] = y /\ <<y, x>>[2] = x
          BY <5>1
        <5>3. ~ (y < x)
          BY <5>1, <5>2
        <5> QED BY <5>1, <5>3
      <4> QED BY <4>4
    <3> QED BY <1>1, <2>1, <3>1
  <2>3. a \in FreeActors
    BY <1>3, <2>2
  <2> QED BY <2>1, <2>3 DEF FreeActors
<1>5. /\ engines' = [x \in DOMAIN engines \cup {a} |-> IF x = a THEN initial[p][s0] ELSE engines[x]]
      /\ initial' = [initial EXCEPT ![p][s0] = EmptyStore]
      /\ calls' = [calls EXCEPT ![k].stage = "registering", ![k].actor = a]
      /\ UNCHANGED <<actors, directory, cache, told, stored>>
  BY <1>3, Zenon DEF SpawnActor, Home
<1>6. PICK c : c = [o EXCEPT !.stage = "registering", !.actor = a]
  OBVIOUS
<1>7. c \in Call /\ c.stage = "registering" /\ c.actor = a /\ c.op = o.op
  BY <1>2, <1>4, <1>6 DEF Call, Stages
<1>8. calls' = [calls EXCEPT ![k] = c]
  BY <1>1, <1>5, <1>6 DEF TypeOK
<1>9. calls'[k] = c /\ \A q \in Processes : q # p => calls'[<<q, 1>>] = calls[<<q, 1>>]
  BY <1>1, <1>8, OtherCalls
<1>10. /\ DOMAIN engines' = DOMAIN engines \cup {a} /\ engines'[a] = initial[p][s0]
       /\ \A b \in DOMAIN engines : engines'[b] = engines[b]
  BY <1>4, <1>5
<1>11. /\ initial' \in [Processes -> [Shards -> Store]]
       /\ \A q \in Processes : q # p => initial'[q] = initial[q]
       /\ \A s \in Shards : s # s0 => initial'[p][s] = initial[p][s]
  BY <1>1, <1>2, <1>5, EmptyRooted DEF TypeOK, Rooted
<1>12. TypeOK'
  <2>1. initial[p][s0] \in Store
    BY <1>1, <1>2 DEF TypeOK
  <2>2. DOMAIN engines' \subseteq Nat \ {0} /\ engines' \in [DOMAIN engines' -> Store]
    BY <1>1, <1>4, <1>5, <2>1 DEF TypeOK
  <2>3. calls' \in [Slots -> Call \cup {Idle}]
    BY <1>1, <1>7, <1>8 DEF TypeOK
  <2>4. UNCHANGED <<actors, directory, cache, told, journal, snapshot, writer>>
    BY <1>5 DEF stored
  <2> QED BY <1>1, <1>11, <2>2, <2>3, <2>4 DEF TypeOK
<1>13. \A q \in Processes, b \in Nat \ {0} : Has(q, b)' => Has(q, b) \/ (q = p /\ b = a)
  BY <1>2, <1>5, <1>7, <1>9 DEF Has, Active
<1>14. ActorsApart'
  BY <1>1, <1>4, <1>10, <1>13 DEF ActorsApart
<1>15. Alone(p)
  BY <1>1, <1>5, <1>9, <1>10, <1>11 DEF Alone, ActorsApart, stored
<1>16. Transaction(k)'
  <2>1. actors[p][s0] = 0 /\ initial[p][s0] = Split(Now)[s0]
    BY <1>1, <1>2 DEF Transaction
  <2>2. Elsewhere(p, s0)'
    <3>1. Home(k)' = s0 /\ Now' = Now
      BY <1>5, <1>7, <1>9 DEF Home, Now, stored
    <3> QED BY <1>2, <1>5, <1>11, <3>1 DEF Transaction, Elsewhere
  <2> QED BY <1>2, <1>4, <1>5, <1>7, <1>9, <1>10, <2>1, <2>2 DEF Transaction, Home, Now, stored
<1>17. SlotInv(k)'
  BY <1>2, <1>7, <1>9, <1>16 DEF SlotInv
<1> QED
  BY <1>5, <1>12, <1>14, <1>15, <1>17, StepOf DEF stored

LEMMA RegisterInv ==
    ASSUME Journaled, ProviderInv, NEW k \in Slots, Register(k)
    PROVE  ProviderInv'
<1> DEFINE o  == calls[k]
           p  == k[1]
           s0 == Home(k)
<1>1. TypeOK /\ ActorsApart /\ o.stage = "registering"
  BY DEF ProviderInv, Register, At
<1>2. /\ o.op.kind # "load" /\ Active(k) /\ InTransaction(k) /\ Transaction(k)
      /\ p \in Processes /\ k = <<p, 1>> /\ s0 \in Shards /\ o \in Call
  BY <1>1, NotRead
<1>3. /\ actors' = [actors EXCEPT ![p][s0] = o.actor]
      /\ calls' = Step(k, "ready")
      /\ UNCHANGED <<engines, initial, directory, cache, told, stored>>
  BY DEF Register, Home
<1>4. PICK c \in Call : calls' = [calls EXCEPT ![k] = c] /\ c.stage = "ready" /\ c.op = o.op /\ c.actor = o.actor
  <2>1. "ready" \in Stages
    BY DEF Stages
  <2> QED BY <1>1, <1>2, <1>3, <2>1, StepIs
<1>5. calls'[k] = c /\ \A q \in Processes : q # p => calls'[<<q, 1>>] = calls[<<q, 1>>]
  BY <1>1, <1>4, OtherCalls
<1>6. /\ actors' \in [Processes -> [Shards -> Nat]] /\ actors'[p][s0] = o.actor
      /\ \A q \in Processes : q # p => actors'[q] = actors[q]
      /\ \A s \in Shards : s # s0 => actors'[p][s] = actors[p][s]
  <2>1. o.actor \in Nat
    BY <1>2 DEF Call
  <2> QED BY <1>1, <1>2, <1>3, <2>1 DEF TypeOK
<1>7. TypeOK'
  BY <1>1, <1>3, <1>4, <1>6 DEF TypeOK, stored
<1>8. \A q \in Processes, b \in Nat \ {0} : Has(q, b)' => Has(q, b)
  BY <1>2, <1>4, <1>5, <1>6 DEF Has, Active
<1>9. ActorsApart'
  BY <1>1, <1>3, <1>8 DEF ActorsApart
<1>10. Alone(p)
  BY <1>3, <1>5, <1>6 DEF Alone, stored
<1>11. Transaction(k)'
  <2>1. Elsewhere(p, s0)'
    <3>1. Home(k)' = s0 /\ Now' = Now
      BY <1>3, <1>4, <1>5 DEF Home, Now, stored
    <3> QED BY <1>2, <1>3, <1>6, <3>1 DEF Transaction, Elsewhere
  <2> QED BY <1>1, <1>2, <1>3, <1>4, <1>5, <1>6, <2>1 DEF Transaction, Home, Now, stored
<1>12. SlotInv(k)'
  BY <1>2, <1>4, <1>5, <1>11 DEF SlotInv
<1> QED
  BY <1>3, <1>7, <1>9, <1>10, <1>12, StepOf DEF stored
LEMMA ApplyStore == ASSUME NEW d \in Store, NEW op \in Operations PROVE Apply(d, op) \in Store
<1>1. d.seq \in [Runs -> Nat] /\ d.counter \in Nat /\ d.inbox \subseteq Runs \X Nat /\ op.run \in Runs
  BY OperationFields DEF Store
<1>2. d = [counter |-> d.counter, seq |-> d.seq, inbox |-> d.inbox]
  BY DEF Store
<1>3. CASE op.kind = "create"
  <2>1. Apply(d, op) = [d EXCEPT !.seq[op.run] = 1]
    BY <1>3, ApplyFields
  <2> QED BY <1>1, <2>1 DEF Store
<1>4. CASE op.kind = "signal"
  <2> DEFINE x == <<op.run, d.counter + 1>>
  <2>1. Apply(d, op) = [d EXCEPT !.counter = @ + 1, !.inbox = @ \cup {x}]
    BY <1>4, ApplyFields
  <2>2. x \in Runs \X Nat
    BY <1>1
  <2> HIDE DEF x
  <2>3. Apply(d, op) = [counter |-> d.counter + 1, seq |-> d.seq, inbox |-> d.inbox \cup {x}]
    BY <1>2, <2>1
  <2> QED BY <1>1, <2>2, <2>3 DEF Store
<1>5. CASE op.kind \notin {"create", "signal"}
  <2> DEFINE x == <<op.run, op.id>>
             q == [d.seq EXCEPT ![op.run] = @ + 1]
  <2>1. Apply(d, op) = [d EXCEPT !.seq[op.run] = @ + 1, !.inbox = @ \ {x}]
    BY <1>5 DEF Apply
  <2>2. q \in [Runs -> Nat]
    BY <1>1
  <2> HIDE DEF x
  <2>3. Apply(d, op) = [counter |-> d.counter, seq |-> q, inbox |-> d.inbox \ {x}]
    BY <1>2, <2>1
  <2> HIDE DEF q
  <2> QED BY <1>1, <2>2, <2>3 DEF Store
<1> QED
  BY <1>3, <1>4, <1>5

LEMMA ExecuteInv ==
    ASSUME Journaled, ProviderInv, NEW k \in Slots, Execute(k)
    PROVE  ProviderInv'
<1> DEFINE o  == calls[k]
           p  == k[1]
           s0 == Home(k)
           d  == engines[o.actor]
<1>1. TypeOK /\ ActorsApart /\ LogInv /\ o.stage = "ready"
  BY DEF ProviderInv, Execute, At
<1>2. /\ o.op.kind # "load" /\ Active(k) /\ InTransaction(k) /\ Transaction(k)
      /\ p \in Processes /\ k = <<p, 1>> /\ s0 \in Shards
      /\ o \in Call /\ o.op \in Operations /\ o.op.run \in Runs
  BY <1>1, NotRead
<1>3. /\ actors[p][s0] # 0 /\ o.actor = actors[p][s0] /\ d = Split(Now)[s0] /\ o.actor \in Nat \ {0}
  BY <1>1, <1>2 DEF Transaction, Call
<1>4. /\ d \in Store /\ d.seq[o.op.run] = Now.seq[o.op.run]
      /\ Mutates(d, o.op) <=> Mutates(Now, o.op)
      /\ Mutates(Now, o.op) => Apply(d, o.op).seq[o.op.run] = Apply(Now, o.op).seq[o.op.run]
  <2>1. Rooted(Now)
    BY <1>1, NowRooted
  <2>2. LET part == Split(Now)[ShardOf[o.op.run]]
        IN  /\ part \in Store /\ part.seq[o.op.run] = Now.seq[o.op.run]
            /\ Mutates(part, o.op) <=> Mutates(Now, o.op)
            /\ Mutates(Now, o.op) => Apply(part, o.op).seq[o.op.run] = Apply(Now, o.op).seq[o.op.run]
    <3> HIDE DEF o
    <3> QED BY <1>2, <2>1, PartActs
  <2> QED BY <1>3, <2>2, Zenon DEF Home
<1>5. PICK m \in BOOLEAN : m <=> Mutates(d, o.op)
  OBVIOUS
<1>6. PICK e : e = IF m THEN Apply(d, o.op) ELSE d
  OBVIOUS
<1>7. e \in Store /\ e.seq[o.op.run] \in Nat
  <2>1. e \in Store
    BY <1>2, <1>4, <1>6, ApplyStore
  <2> QED BY <1>2, <2>1 DEF Store
<1>8. PICK outcome : outcome = IF m \/ o.op.kind \in {"create", "load"} THEN "ok" ELSE "refused"
  OBVIOUS
<1>9. PICK c : c = [o EXCEPT !.stage = "executed", !.actor = 0, !.mutated = m, !.seq = e.seq[o.op.run], !.outcome = outcome]
  OBVIOUS
<1>10. /\ c \in Call /\ c.stage = "executed" /\ c.actor = 0 /\ c.mutated = m /\ c.op = o.op
       /\ c.seq = e.seq[o.op.run]
  BY <1>2, <1>5, <1>7, <1>8, <1>9 DEF Call, Stages
<1>11. /\ engines' = [a \in DOMAIN engines \cap Kept(k) |-> IF a = o.actor THEN e ELSE engines[a]]
       /\ calls' = [calls EXCEPT ![k] = c]
       /\ UNCHANGED <<actors, initial, directory, cache, told, stored>>
  <2>1. m = Mutates(d, o.op)
    BY <1>4, <1>5, OperationFields, ApplyFields DEF Mutates
  <2>2. /\ engines' = [a \in DOMAIN engines \cap Kept(k) |-> IF a = o.actor THEN e ELSE engines[a]]
        /\ UNCHANGED <<actors, initial, directory, cache, told, stored>>
    BY <1>6, <2>1, Zenon DEF Execute
  <2>3. calls' = [calls EXCEPT ![k] = [@ EXCEPT
                     !.stage = "executed", !.actor = 0, !.mutated = m, !.seq = e.seq[o.op.run], !.outcome = outcome]]
    BY <1>6, <1>8, <2>1, Zenon DEF Execute
  <2>4. k \in DOMAIN calls
    BY <1>1 DEF TypeOK
  <2> QED BY <1>9, <2>2, <2>3, <2>4
<1>12. calls'[k] = c /\ \A q \in Processes : q # p => calls'[<<q, 1>>] = calls[<<q, 1>>]
  BY <1>1, <1>11, OtherCalls
<1>13. \A q \in Processes, b \in Nat \ {0} : Has(q, b)' => Has(q, b) /\ b \in DOMAIN engines'
  <2> TAKE q \in Processes, b \in Nat \ {0}
  <2> HAVE Has(q, b)'
  <2>1. Has(q, b)
    BY <1>2, <1>10, <1>11, <1>12 DEF Has, Active
  <2>2. q # p \/ \E s \in Shards : actors[q][s] = b
    BY <1>2, <1>10, <1>11, <1>12 DEF Has, Active
  <2>3. b \in Kept(k)
    BY <1>2, <2>1, <2>2, KeptIsHas
  <2> QED BY <1>1, <1>11, <2>1, <2>3 DEF ActorsApart
<1>14. ActorsApart'
  BY <1>1, <1>13 DEF ActorsApart
<1>15. TypeOK'
  <2>1. DOMAIN engines' \subseteq Nat \ {0} /\ engines' \in [DOMAIN engines' -> Store]
    BY <1>1, <1>7, <1>11 DEF TypeOK
  <2> QED BY <1>1, <1>10, <1>11, <2>1 DEF TypeOK, stored
<1>16. Alone(p)
  <2>1. \A q \in Processes, b \in Nat \ {0} : q # p /\ Has(q, b) => engines'[b] = engines[b]
    <3> TAKE q \in Processes, b \in Nat \ {0}
    <3> HAVE q # p /\ Has(q, b)
    <3>1. b \in Kept(k) /\ b \in DOMAIN engines
      BY <1>1, KeptIsHas DEF ActorsApart
    <3>2. Has(p, o.actor)
      BY <1>2, <1>3 DEF Has
    <3>3. b # o.actor
      BY <1>1, <1>2, <1>3, <3>2 DEF ActorsApart
    <3> QED BY <1>11, <3>1, <3>3
  <2> QED BY <1>11, <1>12, <2>1 DEF Alone, stored
<1>17. engines'[o.actor] = e
  <2>1. Has(p, o.actor) /\ o.actor \in Kept(k)
    BY <1>2, <1>3, KeptIsHas DEF Has
  <2> QED BY <1>1, <1>2, <1>3, <1>11, <2>1 DEF ActorsApart
<1>18. Transaction(k)'
  <2>1. Home(k)' = s0 /\ Now' = Now
    BY <1>10, <1>11, <1>12 DEF Home, Now, stored
  <2>2. Elsewhere(p, s0)'
    BY <1>2, <1>11, <2>1 DEF Transaction, Elsewhere
  <2>3. writer' = p
    BY <1>2, <1>11 DEF Transaction, stored
  <2>4. c.mutated = Mutates(Now, c.op)
    <3>1. Mutates(Now, c.op) \in BOOLEAN
      BY <1>1, <1>2, <1>10, NowRooted, OperationFields, ApplyFields DEF Mutates
    <3> QED BY <1>4, <1>5, <1>10, <3>1
  <2>5. c.mutated => e = Apply(d, c.op) /\ c.seq = Apply(Now, c.op).seq[c.op.run]
    BY <1>4, <1>5, <1>6, <1>10
  <2>6. ~ c.mutated => c.seq = Now.seq[c.op.run]
    BY <1>4, <1>6, <1>10
  <2> QED BY <1>3, <1>10, <1>11, <1>12, <1>17, <2>1, <2>2, <2>3, <2>4, <2>5, <2>6 DEF Transaction
<1>19. SlotInv(k)'
  BY <1>2, <1>10, <1>12, <1>18 DEF SlotInv
<1> QED
  BY <1>11, <1>14, <1>15, <1>16, <1>19, StepOf DEF stored
-------------------------------------------------------------------------------
(* The steps that answer. *)

LEMMA LearnInv ==
    ASSUME Journaled, ProviderInv, NEW k \in Slots, Learn(k)
    PROVE  ProviderInv'
<1> DEFINE o  == calls[k]
           p  == k[1]
           s0 == Home(k)
<1>1. TypeOK /\ ActorsApart /\ SlotInv(k) /\ o.stage = "executed"
  BY DEF ProviderInv, Learn, At
<1>2. /\ o.op.kind # "load" /\ Active(k) /\ InTransaction(k) /\ Transaction(k)
      /\ p \in Processes /\ k = <<p, 1>> /\ s0 \in Shards
      /\ o \in Call /\ o.op \in Operations /\ o.op.run \in Runs
  BY <1>1, NotRead
<1>3. PICK dir : directory' = [directory EXCEPT ![p] = dir] /\ dir \subseteq Runs
  <2>1. directory[p] \subseteq Runs
    BY <1>1, <1>2 DEF TypeOK
  <2> DEFINE known == o.op.kind \in {"create", "commit", "load"} /\ o.outcome = "ok" /\ o.seq # 0
  <2>2. directory' = [directory EXCEPT ![p] = IF known THEN @ \cup {o.op.run} ELSE @]
    BY Zenon DEF Learn
  <2> HIDE DEF known
  <2>3. p \in DOMAIN directory
    BY <1>1, <1>2 DEF TypeOK
  <2>4. directory' = [directory EXCEPT ![p] = IF known THEN directory[p] \cup {o.op.run} ELSE directory[p]]
    BY <2>2, <2>3
  <2>5. (IF known THEN directory[p] \cup {o.op.run} ELSE directory[p]) \subseteq Runs
    BY <1>2, <2>1
  <2> QED BY <2>4, <2>5
<1>4. PICK n : cache' = [cache EXCEPT ![p][o.op.run] = n] /\ n \in Nat
  <2> DEFINE known == o.op.kind \in {"create", "commit", "load"} /\ o.outcome = "ok" /\ o.seq # 0
  <2>1. cache' = [cache EXCEPT ![p][o.op.run] = IF known THEN o.seq ELSE @]
    BY Zenon DEF Learn
  <2> HIDE DEF known
  <2>2. cache[p] \in [Runs -> Nat] /\ p \in DOMAIN cache
    BY <1>1, <1>2 DEF TypeOK
  <2>3. cache' = [cache EXCEPT ![p][o.op.run] = IF known THEN o.seq ELSE cache[p][o.op.run]]
    BY <1>2, <2>1, <2>2
  <2>4. (IF known THEN o.seq ELSE cache[p][o.op.run]) \in Nat
    BY <1>2, <2>2 DEF Call
  <2> QED BY <2>3, <2>4
<1>5. calls' = Step(k, "recording") /\ UNCHANGED <<actors, engines, initial, told, stored>>
  BY <1>2 DEF Learn
<1>6. PICK c \in Call : /\ calls' = [calls EXCEPT ![k] = c]
                        /\ c.stage = "recording" /\ c.op = o.op /\ c.actor = o.actor
                        /\ c.mutated = o.mutated /\ c.seq = o.seq
  <2>1. "recording" \in Stages
    BY DEF Stages
  <2> QED BY <1>1, <1>2, <1>5, <2>1, StepIs
<1>7. calls'[k] = c /\ \A q \in Processes : q # p => calls'[<<q, 1>>] = calls[<<q, 1>>]
  BY <1>1, <1>6, OtherCalls
<1>8. /\ directory' \in [Processes -> SUBSET Runs] /\ cache' \in [Processes -> [Runs -> Nat]]
      /\ \A q \in Processes : q # p => directory'[q] = directory[q] /\ cache'[q] = cache[q]
  BY <1>1, <1>2, <1>3, <1>4 DEF TypeOK
<1>9. TypeOK'
  BY <1>1, <1>5, <1>6, <1>8 DEF TypeOK, stored
<1>10. \A q \in Processes, b \in Nat \ {0} : Has(q, b)' => Has(q, b)
  BY <1>2, <1>5, <1>6, <1>7 DEF Has, Active
<1>11. ActorsApart'
  BY <1>1, <1>5, <1>10 DEF ActorsApart
<1>12. Alone(p)
  BY <1>5, <1>7, <1>8 DEF Alone, stored
<1>13. Transaction(k)'
  <2>1. Home(k)' = s0 /\ Now' = Now
    BY <1>5, <1>6, <1>7 DEF Home, Now, stored
  <2>2. Elsewhere(p, s0)'
    BY <1>2, <1>5, <2>1 DEF Transaction, Elsewhere
  <2> QED BY <1>1, <1>2, <1>5, <1>6, <1>7, <2>1, <2>2 DEF Transaction, stored
<1>14. SlotInv(k)'
  BY <1>1, <1>2, <1>6, <1>7, <1>13 DEF SlotInv
<1> QED
  BY <1>5, <1>9, <1>11, <1>12, <1>14, StepOf DEF stored

LEMMA ReturnInv ==
    ASSUME Journaled, ProviderInv, NEW k \in Slots, Return(k)
    PROVE  ProviderInv'
<1> DEFINE o == calls[k]
           p == k[1]
           r == o.op.run
<1>1. TypeOK /\ ActorsApart /\ LogInv /\ ToldInv /\ SlotInv(k) /\ o.stage = "answered" /\ p \in Processes /\ k = <<p, 1>>
  BY OneCallEach DEF ProviderInv, Return, At
<1>2. Active(k) /\ o \in Call /\ r \in Runs
  BY <1>1, CallFields DEF Active
<1>3. calls' = [calls EXCEPT ![k] = Idle] /\ UNCHANGED <<routers, stored>>
  BY DEF Return
<1>4. told' \in [Runs -> Nat] /\ \A q \in Runs : told'[q] <= Now.seq[q]
  <2> DEFINE heard == o.op.kind \in {"create", "commit"} /\ o.outcome = "ok" /\ o.seq > told[r]
  <2>1. told' = [told EXCEPT ![r] = IF heard THEN o.seq ELSE told[r]]
    BY <1>1, <1>2 DEF Return, TypeOK
  <2>2. heard => o.seq <= Now.seq[r]
    BY <1>1 DEF SlotInv
  <2>3. o.seq \in Nat /\ told \in [Runs -> Nat]
    BY <1>1, <1>2 DEF Call, TypeOK
  <2> HIDE DEF heard
  <2> QED BY <1>1, <1>2, <2>1, <2>2, <2>3 DEF ToldInv
<1>5. calls'[k] = Idle /\ \A q \in Processes : q # p => calls'[<<q, 1>>] = calls[<<q, 1>>]
  BY <1>1, <1>3, OtherCalls
<1>6. TypeOK'
  BY <1>1, <1>3, <1>4 DEF TypeOK, routers, stored
<1>7. \A q \in Processes, b \in Nat \ {0} : Has(q, b)' => Has(q, b)
  BY <1>1, <1>3, <1>5 DEF Has, Active, Idle, routers
<1>8. ActorsApart'
  BY <1>1, <1>3, <1>7 DEF ActorsApart, routers
<1>9. Alone(p)
  BY <1>3, <1>5 DEF Alone, routers, stored
<1>10. SlotInv(k)'
  BY <1>5 DEF SlotInv, Active, InTransaction, Idle
<1>11. \A j \in Slots : SlotInv(j)'
  BY <1>3, <1>9, <1>10, OthersKeep DEF stored
<1>12. LogInv' /\ ToldInv'
  BY <1>1, <1>3, <1>4 DEF LogInv, IsVersion, ToldInv, Now, stored
<1> QED
  BY <1>6, <1>8, <1>11, <1>12 DEF ProviderInv
-------------------------------------------------------------------------------
(* Recording: the journal grows by an entry. *)

LEMMA LogGrows ==
    ASSUME LogInv, NEW op \in Operations, Mutates(Now, op), journal' = Append(journal, op)
    PROVE  /\ Sequential(journal)' /\ Len(journal') = Len(journal) + 1
           /\ \A n \in 0..Len(journal) : History(journal')[n] = History(journal)[n]
           /\ Now' = Apply(Now, op) /\ NotBefore(Now, Now')
           /\ \A v : IsVersion(v) => IsVersion(v)'
<1>1. Sequential(journal) /\ journal \in Seq(Operations) /\ Len(journal) \in Nat
  BY DEF LogInv, Sequential
<1>2. Len(Append(journal, op)) = Len(journal) + 1
  BY <1>1
<1>3. Sequential(Append(journal, op))
  BY <1>1, SequentialAppend DEF Now
<1>4. /\ \A n \in 0..Len(journal) : History(Append(journal, op))[n] = History(journal)[n]
      /\ History(Append(journal, op))[Len(journal) + 1] = Apply(History(journal)[Len(journal)], op)
  BY <1>1, HistoryAppend
<1>5. Now' = Apply(Now, op)
  BY <1>2, <1>4 DEF Now
<1>6. NotBefore(Now, Now')
  BY <1>5, NowRooted, ApplyRooted
<1>7. ASSUME NEW v, IsVersion(v) PROVE IsVersion(v)'
  BY <1>1, <1>2, <1>4, <1>7 DEF IsVersion
<1>8. Sequential(journal)'
  BY <1>3 DEF Sequential
<1> QED
  BY <1>2, <1>4, <1>5, <1>6, <1>7, <1>8

\* A call that is in no transaction may see the journal grow.
LEMMA SlotAppend ==
    ASSUME Journaled, TypeOK, LogInv, NEW k \in Slots, SlotInv(k), ~ InTransaction(k), calls'[k] = calls[k],
           UNCHANGED <<actors, initial, directory, cache>>,
           NEW op \in Operations, Mutates(Now, op), journal' = Append(journal, op)
    PROVE  SlotInv(k)'
<1> DEFINE p == k[1]
           c == calls[k]
<1>1. /\ Len(journal) \in Nat /\ Len(journal') = Len(journal) + 1
      /\ \A n \in 0..Len(journal) : History(journal')[n] = History(journal)[n]
      /\ NotBefore(Now, Now') /\ \A v : IsVersion(v) => IsVersion(v)'
      /\ Rooted(Now) /\ Rooted(Now')
  <2>1. Sequential(journal)' /\ Len(journal') \in Nat
    BY LogGrows, NowRooted
  <2>2. Rooted(Now')
    BY LogGrows, NowRooted, ApplyRooted
  <2> QED BY <2>1, <2>2, LogGrows, NowRooted
<1>2. ~ InTransaction(k)' /\ Active(k)' = Active(k)
  BY DEF InTransaction, Active
<1>3. Active(k) => c.since \in Nat /\ c.op.run \in Runs
  BY CallFields DEF Call
<1>4. Active(k) /\ c.op.kind = "load" => Load(k)'
  BY DEF SlotInv, Load
<1>5. Active(k) /\ c.op.kind = "load" /\ Partitions = 1 => Reads(k)'
  <2> SUFFICES ASSUME Active(k), c.op.kind = "load", Partitions = 1 PROVE Reads(k)'
    OBVIOUS
  <2>1. Reads(k)
    BY DEF SlotInv
  <2>2. \A n \in c.since..Len(journal) : n \in c.since..Len(journal') /\ History(journal')[n] = History(journal)[n]
    BY <1>1, <1>3
  <2>3. c.stage = "loading" => /\ c.base.upto <= c.since
                               /\ c.next = 0 => c.rows = {} /\ c.since <= Len(journal')
                               /\ c.next # 0 => \E n \in c.since..Len(journal') : c.rows = (c.base.upto + 1)..n
    BY <1>1, <1>3, <2>1, <2>2 DEF Reads
  <2>4. c.stage = "asked" => \E n \in c.since..Len(journal') : cache[p] = History(journal')[n].seq
    BY <2>1, <2>2 DEF Reads
  <2>5. c.stage = "answered" => /\ c.outcome = "ok"
                                /\ \E n \in c.since..Len(journal') : c.seq = History(journal')[n].seq[c.op.run]
    BY <2>1, <2>2 DEF Reads
  <2> QED BY <2>3, <2>4, <2>5 DEF Reads
<1>6. c.stage = "answered" /\ c.op.kind \in {"create", "commit"} /\ c.outcome = "ok" => c.seq <= Now'.seq[c.op.run]
  <2> SUFFICES ASSUME c.stage = "answered", c.op.kind \in {"create", "commit"}, c.outcome = "ok"
               PROVE  c.seq <= Now'.seq[c.op.run]
    OBVIOUS
  <2>1. Active(k) /\ c \in Call /\ c.op.run \in Runs
    BY CallFields DEF Active
  <2>2. c.seq <= Now.seq[c.op.run] /\ Now.seq[c.op.run] <= Now'.seq[c.op.run]
    BY <1>1, <2>1 DEF SlotInv, NotBefore
  <2>3. c.seq \in Nat /\ Now.seq[c.op.run] \in Nat /\ Now'.seq[c.op.run] \in Nat
    BY <1>1, <2>1 DEF Call, Rooted, Store
  <2> QED BY <2>2, <2>3
<1> QED
  BY <1>1, <1>2, <1>4, <1>5, <1>6 DEF SlotInv

LEMMA RecordInv ==
    ASSUME Journaled, ProviderInv, NEW k \in Slots, Record(k)
    PROVE  ProviderInv'
<1> DEFINE o  == calls[k]
           p  == k[1]
           s0 == Home(k)
           parts == [s \in Shards |-> IF actors[p][s] = 0 THEN initial[p][s] ELSE engines[actors[p][s]]]
<1>1. TypeOK /\ ActorsApart /\ LogInv /\ ToldInv /\ SlotInv(k) /\ o.stage = "recording"
  BY DEF ProviderInv, Record, At
<1>2. /\ o.op.kind # "load" /\ Active(k) /\ InTransaction(k) /\ Transaction(k)
      /\ p \in Processes /\ k = <<p, 1>> /\ s0 \in Shards
      /\ o \in Call /\ o.op \in Operations /\ o.op.run \in Runs
  BY <1>1, NotRead
<1>3. writer' = NoProcess /\ calls' = Step(k, "answered") /\ UNCHANGED <<routers, told>>
  BY DEF Record
<1>4. PICK c \in Call : /\ calls' = [calls EXCEPT ![k] = c]
                        /\ c.stage = "answered" /\ c.op = o.op /\ c.actor = o.actor /\ c.seq = o.seq
  <2>1. "answered" \in Stages
    BY DEF Stages
  <2> QED BY <1>1, <1>2, <1>3, <2>1, StepIs
<1>5. calls'[k] = c /\ \A q \in Processes : q # p => calls'[<<q, 1>>] = calls[<<q, 1>>]
  BY <1>1, <1>4, OtherCalls
<1>6. \A q \in Processes, b \in Nat \ {0} : Has(q, b)' => Has(q, b)
  BY <1>2, <1>3, <1>4, <1>5 DEF Has, Active, routers
<1>7. ActorsApart'
  BY <1>1, <1>3, <1>6 DEF ActorsApart, routers
<1>8. Rooted(Now)
  BY <1>1, NowRooted
<1>9. o.actor = 0
  BY <1>1, <1>2 DEF SlotInv
<1>10. CASE ~ o.mutated
  <2>1. UNCHANGED <<journal, snapshot>>
    BY <1>10 DEF Record
  <2>2. TypeOK'
    BY <1>1, <1>3, <1>4, <2>1 DEF TypeOK, routers
  <2>3. Alone(p)
    BY <1>2, <1>3, <1>5 DEF Alone, Transaction, routers
  <2>4. c.seq = Now.seq[c.op.run] /\ Now' = Now /\ Now.seq[c.op.run] \in Nat
    BY <1>1, <1>2, <1>4, <1>8, <1>10, <2>1 DEF Transaction, Now, Rooted, Store
  <2>5. SlotInv(k)'
    BY <1>2, <1>4, <1>5, <1>9, <2>4 DEF SlotInv, InTransaction
  <2> QED BY <1>3, <1>7, <2>1, <2>2, <2>3, <2>5, StepOf
<1>11. CASE o.mutated
  <2>1. /\ journal' = Append(journal, o.op)
        /\ snapshot' = snapshot \/ snapshot' = [store |-> Whole(p), upto |-> Len(journal) + 1]
    BY <1>11 DEF Record
  <2>2. /\ Mutates(Now, o.op) /\ actors[p][s0] # 0 /\ engines[actors[p][s0]] = Apply(Split(Now)[s0], o.op)
        /\ o.seq = Apply(Now, o.op).seq[o.op.run] /\ Elsewhere(p, s0)
    BY <1>1, <1>2, <1>11 DEF Transaction
  <2>3. /\ Sequential(journal)' /\ Len(journal') = Len(journal) + 1 /\ Len(journal) \in Nat
        /\ Now' = Apply(Now, o.op) /\ NotBefore(Now, Now')
        /\ \A v : IsVersion(v) => IsVersion(v)'
    BY <1>1, <1>2, <2>1, <2>2, LogGrows, NowRooted
  <2>4. Rooted(Now')
    BY <1>2, <1>8, <2>2, <2>3, ApplyRooted
  <2>5. Whole(p) = Now'
    <3>1. /\ DOMAIN parts = Shards /\ parts[s0] = Apply(Split(Now)[s0], o.op)
          /\ \A s \in Shards : s # s0 => parts[s] = Split(Now)[s]
      BY <1>2, <2>2 DEF Elsewhere
    <3>2. Whole(p) = Merge(parts)
      BY DEF Whole
    <3>3. Merge(parts) = Apply(Now, o.op)
      <4> HIDE DEF parts, o
      <4> QED BY <1>2, <1>8, <2>2, <3>1, MergeActs DEF Home, o
    <3> QED BY <2>3, <3>2, <3>3
  <2>6. LogInv' /\ snapshot' \in Version
    <3>1. IsVersion(snapshot)'
      <4>1. CASE snapshot' = snapshot
        BY <1>1, <2>3, <4>1 DEF LogInv, IsVersion
      <4>2. CASE snapshot' = [store |-> Whole(p), upto |-> Len(journal) + 1]
        BY <2>3, <2>5, <4>2 DEF IsVersion, Now
      <4> QED BY <2>1, <4>1, <4>2
    <3>2. snapshot' \in Version
      <4>1. CASE snapshot' = snapshot
        BY <1>1, <4>1 DEF TypeOK
      <4>2. CASE snapshot' = [store |-> Whole(p), upto |-> Len(journal) + 1]
        BY <2>3, <2>4, <2>5, <4>2 DEF Version, Rooted
      <4> QED BY <2>1, <4>1, <4>2
    <3> QED BY <2>3, <3>1, <3>2 DEF LogInv
  <2>7. TypeOK'
    <3>1. journal' \in Seq(Operations)
      BY <1>1, <1>2, <2>1 DEF TypeOK
    <3> QED BY <1>1, <1>3, <1>4, <2>6, <3>1 DEF TypeOK, routers
  <2>8. \A j \in Slots : j # k => SlotInv(j)'
    <3> SUFFICES ASSUME NEW j \in Slots, j # k PROVE SlotInv(j)'
      OBVIOUS
    <3>1. SlotInv(j) /\ j[1] # p
      BY <1>2, OneCallEach DEF ProviderInv
    <3>2. ~ InTransaction(j)
      BY <1>2, <3>1 DEF SlotInv, Transaction
    <3>3. calls'[j] = calls[j]
      BY <1>1, <1>4 DEF TypeOK
    <3> QED BY <1>1, <1>2, <1>3, <2>1, <2>2, <3>1, <3>2, <3>3, SlotAppend DEF routers
  <2>9. SlotInv(k)'
    <3>1. c.seq = Now'.seq[c.op.run] /\ Now'.seq[c.op.run] \in Nat
      BY <1>2, <1>4, <2>2, <2>3, <2>4 DEF Rooted, Store
    <3> QED BY <1>2, <1>4, <1>5, <1>9, <3>1 DEF SlotInv, InTransaction
  <2>10. ToldInv'
    <3> SUFFICES ASSUME NEW r \in Runs PROVE told[r] <= Now'.seq[r]
      BY <1>3 DEF ToldInv
    <3>1. told[r] <= Now.seq[r] /\ Now.seq[r] <= Now'.seq[r]
      BY <1>1, <2>3 DEF ToldInv, NotBefore
    <3>2. told[r] \in Nat /\ Now.seq[r] \in Nat /\ Now'.seq[r] \in Nat
      BY <1>1, <1>8, <2>4 DEF TypeOK, Rooted, Store
    <3> QED BY <3>1, <3>2
  <2> QED BY <1>7, <2>6, <2>7, <2>8, <2>9, <2>10 DEF ProviderInv
<1> QED
  BY <1>10, <1>11
-------------------------------------------------------------------------------
(* Loading a store: the routers of a process start anew. *)

LEMMA SplitStore ==
    ASSUME NEW d \in Store, NEW s \in Shards
    PROVE  Split(d)[s] \in Store /\ \A r \in Runs : Split(d)[s].seq[r] # 0 => d.seq[r] # 0
<1>1. d.seq \in [Runs -> Nat] /\ d.inbox \subseteq Runs \X Nat /\ d.counter \in Nat
  BY DEF Store
<1>2. CASE Split(d)[s] = EmptyStore
  BY <1>2, EmptyRooted DEF Rooted, EmptyStore
<1>3. CASE Split(d)[s] = PartOf(d, s)
  <2> DEFINE q == [r \in Runs |-> IF ShardOf[r] = s THEN d.seq[r] ELSE 0]
             b == {x \in d.inbox : ShardOf[x[1]] = s}
  <2>1. d = [counter |-> d.counter, seq |-> d.seq, inbox |-> d.inbox]
    BY DEF Store
  <2>2. PartOf(d, s) = [d EXCEPT !.seq = q, !.inbox = b]
    BY Zenon DEF PartOf
  <2>3. q \in [Runs -> Nat] /\ b \in SUBSET (Runs \X Nat) /\ \A r \in Runs : q[r] # 0 => d.seq[r] # 0
    BY <1>1
  <2> HIDE DEF q, b
  <2>4. PartOf(d, s) = [counter |-> d.counter, seq |-> q, inbox |-> b]
    BY <2>1, <2>2
  <2> QED BY <1>1, <1>3, <2>3, <2>4 DEF Store
<1> QED
  BY <1>2, <1>3 DEF Split

\* Whatever of a journal is replayed, the outcome is a store.
LEMMA ReplayStore ==
    ASSUME journal \in Seq(Operations), NEW d \in Store, NEW entries
    PROVE  Replay(d, entries).store \in Store
<1>1. Len(journal) \in Nat /\ \A n \in 1..Len(journal) : journal[n] \in Operations
  OBVIOUS
<1>2. PICK f : Replays(f, d, entries, Len(journal)) /\ Replay(d, entries) = f[Len(journal)]
  BY <1>1, ReplayRuns
<1>3. \A i \in 0..Len(journal) :
         f[i] = IF i = 0 THEN [store |-> d, ok |-> TRUE]
                ELSE IF i \notin entries THEN f[i - 1]
                ELSE [store |-> Apply(f[i - 1].store, journal[i]),
                      ok |-> f[i - 1].ok /\ Mutates(f[i - 1].store, journal[i])]
  BY <1>2, Zenon DEF Replays
<1> DEFINE S == {i \in Nat : i <= Len(journal) => f[i].store \in Store}
<1>4. 0 \in S
  <2>1. 0 \in 0..Len(journal)
    BY <1>1
  <2>2. f[0] = [store |-> d, ok |-> TRUE]
    BY <1>3, <2>1, Zenon
  <2> QED BY <2>2
<1>5. ASSUME NEW i \in Nat, i \in S PROVE i + 1 \in S
  <2> SUFFICES ASSUME i + 1 <= Len(journal) PROVE f[i + 1].store \in Store
    OBVIOUS
  <2>1. /\ i + 1 \in 0..Len(journal) /\ i + 1 \in 1..Len(journal) /\ (i + 1) - 1 = i
        /\ i <= Len(journal) /\ i + 1 # 0
    BY <1>1
  <2>2. f[i].store \in Store /\ journal[i + 1] \in Operations
    BY <1>1, <1>5, <2>1
  <2>3. CASE i + 1 \notin entries
    <3>1. f[i + 1] = f[i]
      BY <1>3, <2>1, <2>3
    <3> QED BY <2>2, <3>1
  <2>4. CASE i + 1 \in entries
    <3>1. f[i + 1] = [store |-> Apply(f[i].store, journal[i + 1]),
                      ok |-> f[i].ok /\ Mutates(f[i].store, journal[i + 1])]
      BY <1>3, <2>1, <2>4
    <3>2. f[i + 1].store = Apply(f[i].store, journal[i + 1])
      BY <3>1
    <3> QED BY <2>2, <3>2, ApplyStore
  <2> QED BY <2>3, <2>4
<1>6. \A i \in Nat : i \in S
  <2> HIDE DEF S
  <2> QED BY <1>4, <1>5, UpFromZero
<1> QED
  BY <1>1, <1>2, <1>6

\* The latest snapshot and the journal after it load, as the present store.
LEMMA LatestIsNow == ASSUME LogInv PROVE Latest = [store |-> Now, ok |-> TRUE]
<1>1. Len(journal) \in Nat
  BY DEF LogInv, Sequential
<1>2. snapshot.upto \in 0..Len(journal) /\ Len(journal) \in snapshot.upto..Len(journal)
  BY <1>1 DEF LogInv, IsVersion
<1>3. Replay(History(journal)[snapshot.upto], (snapshot.upto + 1)..Len(journal)) = [store |-> History(journal)[Len(journal)], ok |-> TRUE]
  BY <1>2, ReplayLoads DEF LogInv
<1> QED
  BY <1>3 DEF LogInv, IsVersion, Latest, Now

\* After a reset the process has no actor, and the other processes have what they had.
LEMMA ResetIs ==
    ASSUME Journaled, ProviderInv, NEW k \in Slots, NEW d \in Store, Reset(k[1], d), UNCHANGED <<told, journal, snapshot>>,
           NEW c \in Call \cup {Idle}, c.stage # "idle" => c.actor = 0, calls' = [calls EXCEPT ![k] = c],
           writer' = writer \/ (writer \in {k[1], NoProcess} /\ writer' \in Processes \cup {NoProcess})
    PROVE  /\ TypeOK' /\ ActorsApart' /\ Alone(k[1]) /\ calls'[k] = c
           /\ \A s \in Shards : actors'[k[1]][s] = 0 /\ initial'[k[1]][s] = Split(d)[s]
           /\ directory'[k[1]] = {r \in Runs : d.seq[r] # 0} /\ cache'[k[1]] = d.seq
<1> DEFINE p == k[1]
<1>1. p \in Processes /\ k = <<p, 1>> /\ TypeOK /\ ActorsApart
  BY OneCallEach DEF ProviderInv
<1>2. calls'[k] = c /\ \A q \in Processes : q # p => calls'[<<q, 1>>] = calls[<<q, 1>>]
  BY <1>1, OtherCalls
<1>3. Split(d) \in [Shards -> Store]
  BY SplitStore DEF Split
<1>4. d.seq \in [Runs -> Nat]
  BY DEF Store
<1>5. /\ actors' = [actors EXCEPT ![p] = [s \in Shards |-> 0]]
      /\ engines' = [a \in DOMAIN engines \ Of(p) |-> engines[a]]
      /\ initial' = [initial EXCEPT ![p] = Split(d)]
      /\ directory' = [directory EXCEPT ![p] = {r \in Runs : d.seq[r] # 0}]
      /\ cache' = [cache EXCEPT ![p] = d.seq]
  BY DEF Reset
<1>6. /\ actors' \in [Processes -> [Shards -> Nat]] /\ initial' \in [Processes -> [Shards -> Store]]
      /\ directory' \in [Processes -> SUBSET Runs] /\ cache' \in [Processes -> [Runs -> Nat]]
      /\ actors'[p] = [s \in Shards |-> 0] /\ initial'[p] = Split(d)
      /\ directory'[p] = {r \in Runs : d.seq[r] # 0} /\ cache'[p] = d.seq
      /\ \A q \in Processes : q # p => /\ actors'[q] = actors[q] /\ initial'[q] = initial[q]
                                       /\ directory'[q] = directory[q] /\ cache'[q] = cache[q]
  BY <1>1, <1>3, <1>4, <1>5 DEF TypeOK
<1>7. \A q \in Processes, b \in Nat \ {0} : Has(q, b)' => q # p /\ Has(q, b)
  <2> TAKE q \in Processes, b \in Nat \ {0}
  <2> HAVE Has(q, b)'
  <2>1. \A s \in Shards : actors'[p][s] = 0
    BY <1>6
  <2>2. calls'[<<p, 1>>].stage # "idle" => calls'[<<p, 1>>].actor = 0
    BY <1>1, <1>2
  <2>3. ~ Has(p, b)'
    BY <2>1, <2>2 DEF Has, Active
  <2>4. q # p
    BY <2>3
  <2> QED BY <1>2, <1>6, <2>4 DEF Has, Active
<1>8. \A q \in Processes, b \in Nat \ {0} : q # p /\ Has(q, b) => b \in DOMAIN engines' /\ engines'[b] = engines[b]
  <2> TAKE q \in Processes, b \in Nat \ {0}
  <2> HAVE q # p /\ Has(q, b)
  <2>1. b \in DOMAIN engines /\ ~ Has(p, b)
    BY <1>1 DEF ActorsApart
  <2>2. b \notin Of(p)
    BY <1>1, <2>1, OfIsHas
  <2> QED BY <1>5, <2>1, <2>2
<1>9. ActorsApart'
  BY <1>1, <1>7, <1>8 DEF ActorsApart
<1>10. DOMAIN engines' \subseteq Nat \ {0} /\ engines' \in [DOMAIN engines' -> Store]
  BY <1>1, <1>5 DEF TypeOK
<1>11. TypeOK'
  BY <1>1, <1>6, <1>10 DEF TypeOK
<1>12. Alone(p)
  BY <1>2, <1>6, <1>8 DEF Alone
<1> QED
  BY <1>2, <1>6, <1>9, <1>11, <1>12

LEMMA EnterInv ==
    ASSUME Journaled, ProviderInv, NEW k \in Slots, Enter(k)
    PROVE  ProviderInv'
<1> DEFINE o == calls[k]
           p == k[1]
<1>1. TypeOK /\ LogInv /\ SlotInv(k) /\ o.stage = "begun" /\ Active(k) /\ p \in Processes
  BY OneCallEach DEF ProviderInv, Enter, At, Active
<1>2. o.op.kind # "load" /\ o.actor = 0
  BY <1>1 DEF SlotInv, Load
<1>3. /\ writer = NoProcess /\ writer' = p /\ Reset(p, Now) /\ calls' = Step(k, "asked")
      /\ UNCHANGED <<told, journal, snapshot>>
  BY <1>1, LatestIsNow DEF Enter
<1>4. PICK c \in Call : calls' = [calls EXCEPT ![k] = c] /\ c.stage = "asked" /\ c.op = o.op /\ c.actor = 0
  <2>1. "asked" \in Stages
    BY DEF Stages
  <2> QED BY <1>1, <1>2, <1>3, <2>1, StepIs
<1>5. /\ TypeOK' /\ ActorsApart' /\ Alone(p) /\ calls'[k] = c
      /\ \A s \in Shards : actors'[p][s] = 0 /\ initial'[p][s] = Split(Now)[s]
  BY <1>1, <1>3, <1>4, NowRooted, ResetIs
<1>6. Home(k)' \in Shards /\ Now' = Now
  BY <1>1, <1>3, <1>4, <1>5, CallFields DEF Home, Now
<1>7. Transaction(k)'
  BY <1>3, <1>4, <1>5, <1>6 DEF Transaction, Elsewhere
<1>8. SlotInv(k)'
  BY <1>2, <1>4, <1>5, <1>7 DEF SlotInv
<1> QED
  BY <1>3, <1>5, <1>8, StepOf
\* What a read has loaded, when there is one partition.
LEMMA LoadedIs ==
    ASSUME LogInv, Partitions = 1, NEW k \in Slots, Reads(k), calls[k].stage = "loading", IsVersion(calls[k].base),
           calls[k].next = Partitions, calls[k].since \in Nat
    PROVE  \E n \in calls[k].since..Len(journal) :
              Replay(calls[k].base.store, calls[k].rows) = [store |-> History(journal)[n], ok |-> TRUE]
<1> DEFINE c == calls[k]
<1>1. Len(journal) \in Nat
  BY DEF LogInv, Sequential
<1>2. c.base.upto \in 0..Len(journal) /\ c.base.store = History(journal)[c.base.upto] /\ c.base.upto <= c.since
  BY DEF IsVersion, Reads
<1>3. PICK n \in c.since..Len(journal) : c.rows = (c.base.upto + 1)..n
  BY DEF Reads
<1>4. n \in c.base.upto..Len(journal)
  BY <1>1, <1>2, <1>3
<1>5. Replay(History(journal)[c.base.upto], (c.base.upto + 1)..n) = [store |-> History(journal)[n], ok |-> TRUE]
  BY <1>2, <1>4, ReplayLoads DEF LogInv
<1> QED
  BY <1>2, <1>3, <1>5

LEMMA CatchUpInv ==
    ASSUME Journaled, ProviderInv, NEW k \in Slots, CatchUp(k)
    PROVE  ProviderInv'
<1> DEFINE o == calls[k]
           p == k[1]
           r == o.op.run
<1>1. /\ TypeOK /\ LogInv /\ SlotInv(k) /\ o.stage = "loading" /\ o.next = Partitions /\ Active(k) /\ p \in Processes
  BY OneCallEach DEF ProviderInv, CatchUp, At, Active
<1>2. o \in Call /\ r \in Runs /\ o.actor = 0 /\ o.op \in Operations /\ IsVersion(o.base) /\ o.since \in Nat
  BY <1>1, CallFields DEF SlotInv, Call
<1>3. PICK loaded : loaded = Replay(o.base.store, o.rows)
  OBVIOUS
<1>4. loaded.store \in Store
  BY <1>1, <1>2, <1>3, ReplayStore DEF Call, Version, TypeOK
<1>5. o.op.kind = "load" /\ Partitions = 1 =>
        \E n \in o.since..Len(journal) : loaded = [store |-> History(journal)[n], ok |-> TRUE]
  BY <1>1, <1>2, <1>3, LoadedIs DEF SlotInv
<1>6. CASE ~ loaded.ok
  <2>1. calls' = Answered(k, "error", 0) /\ UNCHANGED <<routers, told, stored>>
    BY <1>3, <1>6 DEF CatchUp
  <2>2. ~ (o.op.kind = "load" /\ Partitions = 1)
    BY <1>5, <1>6
  <2> QED BY <1>1, <1>2, <2>1, <2>2, AnsweredInv
<1>7. CASE loaded.ok
  <2> DEFINE d == loaded.store
             known == o.op.kind \in {"create", "load"} \/ d.seq[r] # 0
  <2>1. /\ Reset(p, d) /\ UNCHANGED <<told, stored>>
        /\ calls' = IF ~ known THEN Answered(k, "refused", 0)
                    ELSE Loaded(k, IF o.op.kind = "load" THEN "asked" ELSE "begun")
    BY <1>3, <1>7, Zenon DEF CatchUp
  <2>2. PICK c \in Call : /\ calls' = [calls EXCEPT ![k] = c]
                          /\ c.op = o.op /\ c.since = o.since /\ c.actor = 0
                          /\ \/ c.stage = "answered" /\ c.outcome = "refused" /\ o.op.kind # "load"
                             \/ c.stage = "asked" /\ o.op.kind = "load"
                             \/ c.stage = "begun" /\ o.op.kind # "load"
    <3>1. CASE ~ known
      <4>1. o.op.kind # "load" /\ calls' = Answered(k, "refused", 0)
        BY <2>1, <3>1
      <4> QED BY <1>1, <1>2, <4>1, AnsweredCall
    <3>2. CASE known
      <4>1. PICK stage : stage = IF o.op.kind = "load" THEN "asked" ELSE "begun"
        OBVIOUS
      <4>2. calls' = Loaded(k, stage)
        BY <2>1, <3>2, <4>1
      <4>3. PICK c : c = [o EXCEPT !.stage = stage, !.base = NoSnapshot, !.rows = {}]
        OBVIOUS
      <4>4. NoSnapshot \in Version
        BY EmptyRooted DEF NoSnapshot, Version, Rooted
      <4>5. c \in Call /\ c.op = o.op /\ c.since = o.since /\ c.actor = 0 /\ c.stage = stage
        BY <1>2, <4>1, <4>3, <4>4 DEF Call, Stages
      <4>6. calls' = [calls EXCEPT ![k] = c]
        BY <1>1, <4>2, <4>3 DEF TypeOK, Loaded
      <4> QED BY <4>1, <4>5, <4>6
    <3> QED BY <3>1, <3>2
  <2>3. UNCHANGED <<journal, snapshot, writer, told>>
    BY <2>1 DEF stored
  <2>4. /\ TypeOK' /\ ActorsApart' /\ Alone(p) /\ calls'[k] = c
        /\ \A s \in Shards : actors'[p][s] = 0 /\ initial'[p][s] = Split(d)[s]
        /\ directory'[p] = {q \in Runs : d.seq[q] # 0} /\ cache'[p] = d.seq
    <3>1. d \in Store /\ Reset(k[1], d)
      BY <1>4, <2>1
    <3>2. UNCHANGED <<told, journal, snapshot>> /\ writer' = writer
      BY <2>3
    <3>3. c \in Call \cup {Idle} /\ (c.stage # "idle" => c.actor = 0) /\ calls' = [calls EXCEPT ![k] = c]
      BY <2>2
    <3> HIDE DEF d, known
    <3> QED BY <3>1, <3>2, <3>3, ResetIs
  <2>5. c.op.kind = "load" => Load(k)'
    <3> SUFFICES ASSUME c.op.kind = "load", c.stage = "asked" PROVE Load(k)'
      BY <2>2, <2>4 DEF Load
    <3>1. \A q \in Runs : initial'[p][ShardOf[q]].seq[q] # 0 => cache'[p][q] # 0
      <4> TAKE q \in Runs
      <4>1. ShardOf[q] \in Shards
        BY RoutingAssumption
      <4> QED BY <1>4, <2>4, <4>1, SplitStore
    <3> QED BY <2>2, <2>4, <3>1 DEF Load
  <2>6. c.op.kind = "load" /\ Partitions = 1 => Reads(k)'
    <3> SUFFICES ASSUME c.op.kind = "load", Partitions = 1 PROVE Reads(k)'
      OBVIOUS
    <3>1. PICK n \in o.since..Len(journal) : loaded = [store |-> History(journal)[n], ok |-> TRUE]
      BY <1>5, <2>2
    <3>2. c.stage = "asked" /\ cache'[p] = History(journal)[n].seq
      BY <2>2, <2>4, <3>1
    <3> QED BY <2>2, <2>3, <2>4, <3>2 DEF Reads
  <2>7. SlotInv(k)'
    BY <2>2, <2>4, <2>5, <2>6 DEF SlotInv, InTransaction
  <2> QED BY <2>3, <2>4, <2>7, StepOf
<1> QED
  BY <1>6, <1>7

LEMMA CrashInv ==
    ASSUME Journaled, ProviderInv, NEW p \in Processes, Crash(p)
    PROVE  ProviderInv'
<1>1. PICK k : k = <<p, 1>>
  OBVIOUS
<1>2. k \in Slots /\ k[1] = p /\ TypeOK /\ LogInv /\ \A j \in Slots : j # k => j[1] # p
  BY <1>1, OneCallEach DEF ProviderInv
<1>3. /\ Reset(p, Now) /\ UNCHANGED <<told, journal, snapshot>>
      /\ writer' = IF writer = p THEN NoProcess ELSE writer
  BY <1>2, LatestIsNow DEF Crash
<1>4. calls' = [calls EXCEPT ![k] = Idle]
  <2>1. calls' = [j \in Slots |-> IF j[1] = p THEN Idle ELSE calls[j]]
    BY DEF Crash
  <2>2. calls = [j \in Slots |-> calls[j]]
    BY <1>2 DEF TypeOK
  <2>3. [calls EXCEPT ![k] = Idle] = [j \in Slots |-> IF j = k THEN Idle ELSE calls[j]]
    BY <2>2, Zenon
  <2>4. \A j \in Slots : (j[1] = p) <=> (j = k)
    BY <1>2
  <2>5. [j \in Slots |-> IF j[1] = p THEN Idle ELSE calls[j]] = [j \in Slots |-> IF j = k THEN Idle ELSE calls[j]]
    BY <2>4
  <2> QED BY <2>1, <2>3, <2>5
<1>5. TypeOK' /\ ActorsApart' /\ Alone(p) /\ calls'[k] = Idle
  <2>1. writer' = writer \/ (writer \in {p, NoProcess} /\ writer' \in Processes \cup {NoProcess})
    BY <1>3
  <2> QED BY <1>2, <1>3, <1>4, <2>1, NowRooted, ResetIs DEF Idle
<1>6. SlotInv(k)'
  BY <1>5 DEF SlotInv, Active, InTransaction, Idle
<1> QED
  BY <1>2, <1>3, <1>5, <1>6, StepOf

-------------------------------------------------------------------------------

LEMMA InitInv == ASSUME Journaled, Init PROVE ProviderInv
<1>1. EmptyStore \in Store /\ NoSnapshot \in Version
  BY EmptyRooted DEF Rooted, NoSnapshot, Version
<1>2. TypeOK
  BY <1>1, NumberAssumption DEF Init, TypeOK
<1>3. journal = <<>> /\ Len(journal) = 0 /\ \A k \in Slots : calls[k].stage = "idle"
  BY DEF Init, Idle
<1>4. LogInv
  <2>1. Sequential(journal)
    BY <1>2, <1>3 DEF Sequential, TypeOK
  <2>2. History(journal)[0] = EmptyStore
    BY <1>3, HistoryStep
  <2>3. IsVersion(snapshot)
    BY <1>3, <2>2 DEF Init, IsVersion, NoSnapshot
  <2> QED BY <2>1, <2>3 DEF LogInv
<1>5. \A p \in Processes, a \in Nat \ {0} : ~ Has(p, a)
  BY <1>3, OneCallEach DEF Init, Has, Active
<1>6. ActorsApart
  BY <1>5 DEF ActorsApart
<1>7. \A k \in Slots : SlotInv(k)
  BY <1>3 DEF SlotInv, Active, InTransaction
<1>8. ToldInv
  <2>1. Now \in Store
    BY <1>4, NowRooted
  <2> QED BY <2>1 DEF Init, ToldInv, Store
<1> QED
  BY <1>2, <1>4, <1>6, <1>7, <1>8 DEF ProviderInv

\* A step of one call keeps the invariant, whichever it is.
LEMMA CallNext ==
    ASSUME Journaled, ProviderInv, NEW k \in Slots,
           \/ \E op \in Asks[k[1]] : Ask(k, op)
           \/ ReadPartition(k) \/ CatchUp(k) \/ Enter(k)
           \/ ReadCache(k) \/ LookUp(k) \/ FindActor(k) \/ SpawnActor(k) \/ Register(k) \/ Execute(k)
           \/ Learn(k) \/ Record(k) \/ Return(k)
    PROVE  ProviderInv'
BY AskInv, ReadPartitionInv, CatchUpInv, EnterInv, ReadCacheInv, LookUpInv, FindActorInv, SpawnActorInv,
   RegisterInv, ExecuteInv, LearnInv, RecordInv, ReturnInv

LEMMA StutterInv == ASSUME Journaled, ProviderInv, UNCHANGED vars PROVE ProviderInv'
<1>1. UNCHANGED <<actors, engines, initial, directory, cache, calls, told, journal, snapshot, writer>>
  BY DEF vars
<1>2. TypeOK' /\ LogInv' /\ ToldInv' /\ ActorsApart'
  BY <1>1 DEF ProviderInv, TypeOK, LogInv, IsVersion, ToldInv, Now, ActorsApart, Has, Active
<1>3. \A k \in Slots : SlotInv(k)'
  BY <1>1, SlotFrame DEF ProviderInv
<1> QED
  BY <1>2, <1>3 DEF ProviderInv

\* Over Postgres, in every reachable state: the journal loads and a snapshot is what the entries it
\* covers lead to; no two processes have an actor in common; the routers of the process whose
\* transaction holds the lock have the parts of the store that the whole journal leads to, but for
\* the one operation executed; a read reaches no actor; and what a caller was told of is stored.
THEOREM ProvidersHold == Journaled => (Spec => []ProviderInv)
<1> SUFFICES ASSUME Journaled PROVE Spec => []ProviderInv
  OBVIOUS
<1>1. Init => ProviderInv
  BY InitInv
<1>2. ProviderInv /\ [Next]_vars => ProviderInv'
  <2> SUFFICES ASSUME ProviderInv, [Next]_vars PROVE ProviderInv'
    OBVIOUS
  <2>1. CASE UNCHANGED vars
    BY <2>1, StutterInv
  <2>2. CASE \E p \in Processes : Crash(p)
    BY <2>2, CrashInv
  <2>3. CASE Next /\ ~ \E p \in Processes : Crash(p)
    BY <2>3, CallNext DEF Next
  <2> QED BY <2>1, <2>2, <2>3
<1> QED
  BY <1>1, <1>2, PTL DEF Spec

\* Over Postgres no journal that a process may find is one that does not load, and every run that
\* was created and every checkpoint that was accepted for a caller is in the store it loads as,
\* whatever processes crash between their steps.
THEOREM ToldIsStoredHolds == Journaled => (Spec => []ToldIsStored)
<1> SUFFICES ASSUME Journaled PROVE Spec => []ToldIsStored
  OBVIOUS
<1>1. ProviderInv => ToldIsStored
  <2> SUFFICES ASSUME ProviderInv PROVE ToldIsStored
    OBVIOUS
  <2>1. Latest = [store |-> Now, ok |-> TRUE]
    BY LatestIsNow DEF ProviderInv
  <2> QED BY <2>1 DEF ToldIsStored, ProviderInv, ToldInv
<1> QED
  BY <1>1, ProvidersHold, PTL

\* With one partition a read over Postgres answers with its run as the journal had it at some
\* instant between the call and the answer, whichever process wrote it and however many entries
\* other processes recorded while it loaded.
THEOREM ReadsAreLatestHolds == Journaled /\ Partitions = 1 => (Spec => []ReadsAreLatest)
<1> SUFFICES ASSUME Journaled, Partitions = 1 PROVE Spec => []ReadsAreLatest
  OBVIOUS
<1>1. ProviderInv => ReadsAreLatest
  <2> SUFFICES ASSUME ProviderInv, NEW k \in Slots, At(k, "answered"), calls[k].op.kind = "load"
               PROVE  /\ calls[k].outcome = "ok"
                      /\ \E n \in calls[k].since..Len(journal) : calls[k].seq = Stored(n).seq[calls[k].op.run]
    BY DEF ReadsAreLatest
  <2>1. TypeOK /\ Sequential(journal) /\ SlotInv(k) /\ Active(k)
    BY DEF ProviderInv, LogInv, At, Active
  <2>2. Reads(k) /\ calls[k].since \in Nat /\ Len(journal) \in Nat
    BY <2>1, CallFields, NumbersOfLog DEF SlotInv, Call
  <2>3. PICK n \in calls[k].since..Len(journal) : calls[k].seq = History(journal)[n].seq[calls[k].op.run]
    BY <2>2 DEF Reads, At
  <2>4. n \in 0..Len(journal)
    BY <2>2
  <2>5. Stored(n) = History(journal)[n]
    BY <2>1, <2>4, StoredIsHistory
  <2> QED BY <2>2, <2>3, <2>5 DEF Reads, At
<1> QED
  BY <1>1, ProvidersHold, PTL

===============================================================================
