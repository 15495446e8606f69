----------------------------- MODULE ShardJournal -----------------------------
(***************************************************************************)
(* The engine behind the SQLite provider (crates/durable/src/sqlite.rs):   *)
(* every write reloads the store from the last snapshot and the journal    *)
(* after it, applies one operation to it, and, if the operation changed    *)
(* something, appends it to the journal and now and then writes a          *)
(* snapshot, all in one transaction and under one lock.                    *)
(*                                                                         *)
(* A journal entry is not the change but the operation, which is applied   *)
(* again by every later load, with a store and checks that are not quite   *)
(* those of the first time.  The transaction makes a call one step; what   *)
(* is at stake is whether the calls' answers and the replay agree.         *)
(***************************************************************************)
EXTENDS ShardEngine

CONSTANT MaxBatch       \* how many prepared commits run_worker sends at once, at most

ASSUME BatchAssumption == MaxBatch \in Nat \ {0}

VARIABLES
    kept,       \* the store that a load computes: the last snapshot and the entries after it
    loads,      \* whether the entries after the last snapshot can be replayed
    answered    \* the checkpoints whose workers were told that they were accepted

journalVars == <<vars, kept, loads, answered>>

\* The router splits the store it is given by shard; the marks of claimed sequences get lost.
Reloaded(d) == [d EXCEPT !.claimed = {}]

JournalInit ==
    /\ Init
    /\ kept = EmptyTables
    /\ loads = TRUE
    /\ answered = {}

\* Mutant: the snapshot is taken before the operation.
WrittenTooEarly(live, replayed, agrees) ==
    /\ \/ kept' = db /\ loads' = loads
       \/ kept' = replayed /\ loads' = (loads /\ agrees)
    /\ db' = Reloaded(kept')

\* append_journal_operation: the entry is written, and every snapshot_interval entries the live
\* store with it; the next operation starts from what a load makes of that.
Written(live, replayed, agrees) ==
    /\ \/ kept' = live /\ loads' = loads
       \/ kept' = replayed /\ loads' = (loads /\ agrees)
    /\ db' = Reloaded(kept')

\* Without an entry the next operation starts from where this one did, whatever it did.
Unwritten == UNCHANGED <<db, kept, loads>>

-------------------------------------------------------------------------------
(* Clients. *)

CreatedIn(d, in, now) == CreateInstance(d, in.ref, in.version, Materialize(InitialWaits[in.ref[1]], now, now), now)
JournaledStart(in, now) ==
    /\ db.inst[in.ref].status = "absent"
    /\ \A r \in Latest(db, in.ref[1]) : ShouldCreate(in.reuse, db.inst[r].status)
    /\ Written(CreatedIn(db, in, now), CreatedIn(kept, in, now), TRUE)
    /\ UNCHANGED <<leases, sessions, held, attempts, alive, clock, answered>>

JournaledSignal(in, now) ==
    /\ db.signalCounter < MaxSignals
    /\ Running(db, in.ref)
    /\ SignalsWithKey(db, in.ref, in.type, in.key) = {}
    /\ Written(AppendSignal(db, in.ref, in.type, in.key, now), AppendSignal(kept, in.ref, in.type, in.key, now), TRUE)
    /\ UNCHANGED <<leases, sessions, held, attempts, alive, clock, answered>>

-------------------------------------------------------------------------------
(* Claims. *)

\* The leases are split with the store and lose nothing.
JournaledLease(w, s, now) == ClaimShard(w, s, now) /\ UNCHANGED <<kept, loads, answered>>

\* Only a call that hands out an activation is recorded.  The replay claims again, among the
\* marks of the claims before it.
JournaledClaims(w, s, now) ==
    LET epoch == leases[s].epoch
        d1    == Prepared(db, w, s, now)
        k1    == Prepared(kept, w, s, now)
    IN  /\ sessions[w][s] # 0 /\ Slots(w) > 0
        /\ Owns(w, s, now) /\ sessions[w][s] = epoch
        /\ \E batch \in Batches(d1, s, now, VersionOf[w], epoch, Slots(w)) :
               /\ Live(d1, batch) # {}
               /\ held' = held \cup {NewClaim(d1, t, w, epoch) : t \in Live(d1, batch)}
               /\ \E again \in Batches(k1, s, now, VersionOf[w], epoch, Slots(w)) :
                      Written(HandOut(d1, batch, w, s, now, epoch), HandOut(k1, again, w, s, now, epoch), TRUE)
        /\ UNCHANGED <<leases, sessions, attempts, alive, clock, answered>>

\* release_activation is recorded if the worker has the claim.
JournaledRelease(c) ==
    LET mine(d)  == {t \in TasksOfActivation(d, c.act) : t.owner = c.worker}
        freed(d) == Freed(d, mine(d), [t \in mine(d) |-> t.blocked])
    IN  /\ c.state = "refused"
        /\ IF mine(db) = {} THEN Unwritten ELSE Written(freed(db), freed(kept), TRUE)
        /\ held' = held \ {c}
        /\ UNCHANGED <<leases, sessions, attempts, alive, clock, answered>>

-------------------------------------------------------------------------------
(* Commits. *)

\* The commits that wait to be sent: activations of one worker, each with what its handler
\* returned and when.
Prepares(w) == [claim : {c \in held : c.worker = w /\ c.state = "running"}, now : Instants, next : Outcomes \cup {"running"}]
Claims(batch) == {batch[i].claim : i \in DOMAIN batch}

\* commit_prepared_activations sends them in groups of one shard and one lease epoch.
Group(claims) == \A c, d \in claims : c.epoch = d.epoch /\ ShardOfRef(c.act.ref) = ShardOfRef(d.act.ref)
Sent(w) == {batch \in UNION {[1..n -> Prepares(w)] : n \in 1..MaxBatch} :
               /\ \A i, k \in DOMAIN batch : i # k => batch[i].claim # batch[k].claim
               /\ Group(Claims(batch))}

CheckpointOf(d, x, waits) == Checkpoint(d, x.claim, x.next, waits, <<>>, x.now)
WaitsOf(x) == IF x.next = "running" THEN {Materialize(T, x.claim.at, x.now) : T \in NextWaits[x.claim.act.ref[1]]} ELSE {{}}

\* CommitActivations on the actor: one after the other, each from where the one before left
\* the store.
Applied(d, batch, waits) ==
    LET ran[n \in 0..Len(batch)] ==
            IF n = 0 THEN [store |-> d, accepted |-> {}]
            ELSE LET x == batch[n]
                 IN  IF Refusal(ran[n - 1].store, x.claim, x.now) = "none"
                     THEN [store |-> CheckpointOf(ran[n - 1].store, x, waits[n]),
                           accepted |-> ran[n - 1].accepted \cup {x.claim}]
                     ELSE ran[n - 1]
    IN  ran[Len(batch)]

\* apply_journal_operation: without a session there is no claim to assert, and a conflict makes
\* the load fail.
Replayed(d, batch, waits) ==
    LET ran[n \in 0..Len(batch)] ==
            IF n = 0 THEN [store |-> d, agrees |-> TRUE]
            ELSE LET x == batch[n]
                 IN  IF Conflict(ran[n - 1].store, x.claim) = "none"
                     THEN [ran[n - 1] EXCEPT !.store = CheckpointOf(ran[n - 1].store, x, waits[n])]
                     ELSE [ran[n - 1] EXCEPT !.agrees = FALSE]
    IN  ran[Len(batch)]

\* Mutant: commits are recorded whatever becomes of them.
RecordedAlways(batch, accepted) == TRUE

\* Whether a batch is recorded.
Recorded(batch, accepted) == accepted = Claims(batch)

\* commit_activations: the worker learns the result of each commit of the batch.
JournaledCommits(w, batch) ==
    LET claims == Claims(batch)
    IN  \E waits \in [DOMAIN batch -> UNION {WaitsOf(batch[i]) : i \in DOMAIN batch}] :
          /\ \A i \in DOMAIN batch : waits[i] \in WaitsOf(batch[i]) /\ Allowed(batch[i].claim, [next |-> batch[i].next])
          /\ LET live  == Applied(db, batch, waits)
                 again == Replayed(kept, batch, waits)
             IN  /\ IF Recorded(batch, live.accepted) THEN Written(live.store, again.store, again.agrees) ELSE Unwritten
                 /\ answered' = answered \cup {[act |-> c.act, owner |-> c.worker] : c \in live.accepted}
                 /\ held' = (held \ claims) \cup {[c EXCEPT !.state = "refused"] : c \in claims \ live.accepted}
          /\ attempts' = attempts \ UNION {AttemptsOf(c) : c \in claims}
          /\ UNCHANGED <<leases, sessions, alive, clock>>

-------------------------------------------------------------------------------
(* Activities. *)

\* A reservation is recorded as the record it made; the timeouts it expired on the way are
\* found again by the next operation.
Put(d, e) == [d EXCEPT !.effects = {x \in @ : ~ (x.act = e.act /\ x.key = e.key)} \cup {e}]
JournaledReserve(c, key, now) ==
    LET d1   == ExpireTimeouts(db, Expirable(db, c.worker, now), now)
        open == \A e \in EffectFor(d1, c.act, key) : e.status = "pending" /\ e.next <= now
    IN  /\ Executing(c) /\ db.inst[c.act.ref].status # "absent"
        /\ \A x \in AttemptsOf(c) : x.key # key
        /\ open
        /\ \E n \in FreshIds :
               LET token == [n |-> n, worker |-> c.worker]
                   live  == Reserve(d1, c.act, key, token, now)
               IN  /\ Written(live, Put(kept, CHOOSE e \in EffectFor(live, c.act, key) : TRUE), TRUE)
                   /\ attempts' = attempts \cup {[act |-> c.act, key |-> key, token |-> token]}
        /\ UNCHANGED <<leases, sessions, held, alive, clock, answered>>

\* An attempt that ends: a call that is refused is rolled back.
Ended(d, x, now, how) ==
    LET d1 == ExpireTimeouts(d, Expirable(d, x.token.worker, now), now)
        E  == PendingAttempt(d1, x.act, x.key, x.token)
        e  == CHOOSE f \in E : TRUE
    IN  IF E = {} THEN d1
        ELSE CASE how = "completed" -> Complete(d1, e)
               [] how = "failed"    -> Fail(d1, e, now, TRUE)
StillPending(d, x, now) == PendingAttempt(ExpireTimeouts(d, Expirable(d, x.token.worker, now), now), x.act, x.key, x.token) # {}
JournaledEnd(x, how, now) ==
    /\ IF StillPending(db, x, now)
       THEN Written(Ended(db, x, now, how), Ended(kept, x, now, how), StillPending(kept, x, now))
       ELSE Unwritten
    /\ attempts' = attempts \ {x}
    /\ UNCHANGED <<leases, sessions, held, alive, clock, answered>>

-------------------------------------------------------------------------------

\* A worker that crashed is one that does nothing any more.
JournalNext ==
    \/ \E now \in Instants : \/ \E in \in ClientStarts : JournaledStart(in, now)
                             \/ \E in \in Appends : JournaledSignal(in, now)
    \/ \E w \in alive, s \in Shards, now \in Instants : JournaledLease(w, s, now) \/ JournaledClaims(w, s, now)
    \/ \E w \in alive : \E batch \in Sent(w) : JournaledCommits(w, batch)
    \/ \E c \in held : JournaledRelease(c)
    \/ \E c \in held, key \in EagerKeys, now \in Instants : JournaledReserve(c, key, now)
    \/ \E x \in attempts, how \in {"completed", "failed"}, now \in Instants : JournaledEnd(x, how, now)
    \/ Tick /\ UNCHANGED <<kept, loads, answered>>

JournalSpec == JournalInit /\ [][JournalNext]_journalVars

\* An answer is final: a checkpoint whose worker was told it was accepted is in the store that
\* any later load computes, and a conflict for one activation discards only that activation's
\* completion while allowing siblings in the same batch to commit (SPEC.md, Sharding).
AnsweredIsKept == answered \subseteq kept.completed

\* The journal can always be read back: no entry meets, when it is applied again, a conflict
\* that it did not meet the first time, which would make every later call fail.
LoadSucceeds == loads
===============================================================================
