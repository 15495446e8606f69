----------------------------- MODULE ShardLiveness ----------------------------
(***************************************************************************)
(* What eventually happens, under the fairness of a worker loop: workers   *)
(* that are alive keep claiming shards and activations, and a handler does *)
(* not fail for ever.                                                      *)
(***************************************************************************)
EXTENDS ShardProperties

\* The environment of a run that is left alone: no handler returns an error, no worker is
\* stopped (run_worker gives its shards back only when it returns, or when it releases a
\* claim), and a worker that crashes does so early enough for its lease to end before MaxTime,
\* where the model's clock stops.
LiveNext ==
    /\ Next
    /\ \A c \in held' : c.state # "forgotten"
    /\ \A w \in alive, s \in Shards : sessions[w][s] # 0 /\ w \in alive' => sessions'[w][s] # 0
    /\ alive' # alive => /\ \A s \in Shards : leases[s].owner \in alive' \/ leases[s].until <= MaxTime
                         /\ \A t \in db.tasks : t.owner \in alive' \cup {NoWorker} \/ t.until <= MaxTime

\* run_worker: claims shards and activations in a loop; a claim ends in a commit or, when it
\* was refused, is released.
ClaimsShards(w)     == \E s \in Shards, now \in Instants : w \in alive /\ ClaimShard(w, s, now)
ClaimsActivation(w) == \E s \in Shards, now \in Instants : w \in alive /\ ClaimTasks(w, s, now) /\ held' # held
Finishes(w) == \E c \in held, now \in Instants : c.worker = w /\ \E res \in Results(c) : Commit(c, res, now)
IsRefused(w) == \E c \in held, now \in Instants : c.worker = w /\ CommitRefused(c, now)
GivesUp(w)  == \E c \in held : c.worker = w /\ ReleaseClaim(c)

Fairness ==
    /\ WF_vars(Tick)
    /\ \A w \in Workers :
         /\ SF_vars(ClaimsShards(w)) /\ SF_vars(ClaimsActivation(w))
         /\ SF_vars(Finishes(w)) /\ WF_vars(IsRefused(w)) /\ WF_vars(GivesUp(w))

LiveSpec == Init /\ [][LiveNext]_vars /\ Fairness

\* Every wake-up is served: once a run has an activation that is due, its sequence advances
\* or it closes, whoever crashes, loses its shard or has its commit refused meanwhile.
Due(r, n) == \E t \in db.tasks : t.act.ref = r /\ t.act.seq = n /\ t.at <= clock
EveryWakeUpIsServed ==
    \A r \in Refs, n \in 0..MaxSequence : Due(r, n) ~> ~ (Running(db, r) /\ db.inst[r].seq = n)

\* Every signal a run can take is consumed, or the run closes.
EverySignalIsServed ==
    \A r \in Refs, n \in 1..MaxSignals :
        (\E s \in db.signals : s.id = n /\ s.ref = r /\ s.consumed = 0
            /\ \E w \in db.inst[r].waits : w.kind = "signal" /\ w.type = s.type /\ ~ w.future)
        ~> (~ Running(db, r) \/ \E s \in db.signals : s.id = n /\ s.consumed # 0)
===============================================================================
