------------------------------ MODULE ShardEffects ----------------------------
(***************************************************************************)
(* The ledger of eager activities (effects): reservation of attempts,      *)
(* heartbeats, timeouts, completion and retry, and the claims of the       *)
(* activations they belong to.  Operators from tables to tables, as in     *)
(* ShardTables.                                                            *)
(***************************************************************************)
EXTENDS ShardTables

EffectsOf(d, a) == {e \in d.effects : e.act = a}
EffectFor(d, a, key) == {e \in EffectsOf(d, a) : e.key = key}

\* Mutant: the sequence of a freed task stays marked as claimed.
FreedStillMarked(d, T, blocked) ==
    [d EXCEPT !.tasks = {IF t \in T THEN [Unclaimed(t) EXCEPT !.blocked = blocked[t]] ELSE t : t \in @}]

\* release_tasks_for_activation, release_activation_sync: the claims on tasks are given up
\* and their sequences are free again.
Freed(d, T, blocked) ==
    [d EXCEPT !.tasks = {IF t \in T THEN [Unclaimed(t) EXCEPT !.blocked = blocked[t]] ELSE t : t \in @},
              !.claimed = UnmarkedFor(@, T)]

-------------------------------------------------------------------------------
(* One attempt. *)

Detached(e) == [e EXCEPT !.token = NoToken, !.begun = 0, !.start = 0, !.hb = 0]

\* The effect after its attempt failed: retried later, or failed for good.
AfterFailure(e, now, retryable) ==
    IF RetryGranted(e, now, retryable)
    THEN [Detached(e) EXCEPT !.attempt = @ + 1, !.next = RetryAt(e, now)]
    ELSE [Detached(e) EXCEPT !.status = "failed"]
\* blocked_until after that failure.
BlockedAfter(e, now, retryable) == IF RetryGranted(e, now, retryable) THEN RetryAt(e, now) ELSE 0

Late(e, now) == /\ e.status = "pending" /\ e.token # NoToken
                /\ \/ e.start # 0 /\ e.start <= now
                   \/ e.hb # 0 /\ e.hb <= now

\* expire_activity_timeouts over the activations A.  An activation with a late attempt is
\* released, and the last late effect decides how long it is blocked.
ExpireTimeouts(d, A, now) ==
    LET late == {e \in d.effects : e.act \in A /\ Late(e, now)}
        last(a) == {e \in late : e.act = a /\ \A o \in late : o.act = a => o.key <= e.key}
        freed == {t \in d.tasks : \E e \in late : e.act = t.act}
        blocked == [t \in freed |-> IF last(t.act) = {} THEN 0
                                    ELSE BlockedAfter(CHOOSE e \in last(t.act) : TRUE, now, TRUE)]
    IN  [Freed(d, freed, blocked) EXCEPT
            !.effects = {IF e \in late THEN AfterFailure(e, now, TRUE) ELSE e : e \in @}]

\* Mutant: every reservation counts as another attempt.
ReserveCounting(d, a, key, token, now) ==
    LET old == EffectFor(d, a, key)
        attempt == IF old = {} THEN 1 ELSE (CHOOSE e \in old : TRUE).attempt + 1
        e == [act |-> a, key |-> key, status |-> "pending", attempt |-> attempt, token |-> token,
              begun |-> now, start |-> Deadline(now, Effect[key].start),
              hb |-> Deadline(now, Effect[key].hb), first |-> now, next |-> 0]
    IN  [d EXCEPT !.effects = (@ \ old) \cup {e}]

\* get_or_reserve_effect, when the effect is open: whatever attempt the effect had is
\* forgotten, under the same attempt number.
Reserve(d, a, key, token, now) ==
    LET old == EffectFor(d, a, key)
        attempt == IF old = {} THEN 1 ELSE (CHOOSE e \in old : TRUE).attempt
        first   == IF old = {} THEN now ELSE (CHOOSE e \in old : TRUE).first
        e == [act |-> a, key |-> key, status |-> "pending", attempt |-> attempt, token |-> token,
              begun |-> now, start |-> Deadline(now, Effect[key].start),
              hb |-> Deadline(now, Effect[key].hb), first |-> first, next |-> 0]
    IN  [d EXCEPT !.effects = (@ \ old) \cup {e}]

\* Mutant: the attempt ids are not compared.
PendingOfAnyAttempt(d, a, key, token) == {e \in EffectFor(d, a, key) : e.token # NoToken /\ e.status = "pending"}

\* assert_mutable_effect: the effect this very attempt may still change.
PendingAttempt(d, a, key, token) ==
    {e \in EffectFor(d, a, key) : e.token = token /\ e.status = "pending"}

\* heartbeat_effect
Beat(d, e, now) ==
    [d EXCEPT !.effects = (@ \ {e}) \cup {[e EXCEPT !.hb = Deadline(now, Effect[e.key].hb)]}]
\* complete_effect
Complete(d, e) ==
    [d EXCEPT !.effects = (@ \ {e}) \cup {[Detached(e) EXCEPT !.status = "completed", !.next = 0]}]

\* Mutant: the retry is not scheduled.
FailUnscheduled(d, e, now, retryable) ==
    LET d1 == [d EXCEPT !.effects = (@ \ {e}) \cup {[AfterFailure(e, now, retryable) EXCEPT !.next = 0]}]
        T  == TasksOfActivation(d1, e.act)
    IN  Freed(d1, T, [t \in T |-> BlockedAfter(e, now, retryable)])

\* fail_effect: the activation is released, also when the effect failed for good.
Fail(d, e, now, retryable) ==
    LET d1 == [d EXCEPT !.effects = (@ \ {e}) \cup {AfterFailure(e, now, retryable)}]
        T  == TasksOfActivation(d1, e.act)
    IN  Freed(d1, T, [t \in T |-> BlockedAfter(e, now, retryable)])

-------------------------------------------------------------------------------
(* Checkpoint activities keep no attempt in the engine; only their failures reach it. *)

\* CheckpointEffectMutation::to_record.  Nothing reads the instant of a failure.
FailureRecord(a, key) ==
    [act |-> a, key |-> key, status |-> "failed", attempt |-> 1, token |-> NoToken, begun |-> 0,
     start |-> 0, hb |-> 0, first |-> 0, next |-> 0]
FailureRecords(a, keys) == {FailureRecord(a, k) : k \in keys}

\* Mutant: the failures take the place of all the effects of the activation.
RecordFailuresAfresh(d, a, keys, release) ==
    LET d1 == [d EXCEPT !.effects = {e \in @ : e.act # a} \cup FailureRecords(a, keys)]
        T  == TasksOfActivation(d1, a)
    IN  IF release THEN Freed(d1, T, [t \in T |-> 0]) ELSE d1

\* record_activation_failures, for one activation.
RecordFailures(d, a, keys, release) ==
    LET d1 == [d EXCEPT !.effects = {e \in @ : ~ (e.act = a /\ e.key \in keys)}
                                        \cup FailureRecords(a, keys)]
        T  == TasksOfActivation(d1, a)
    IN  IF release THEN Freed(d1, T, [t \in T |-> 0]) ELSE d1
===============================================================================
