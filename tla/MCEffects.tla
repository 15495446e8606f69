------------------------------- MODULE MCEffects ------------------------------
(***************************************************************************)
(* One signal activation whose handler runs an eager activity (key 1),     *)
(* with a start-to-close and a heartbeat timeout, and a checkpoint activity*)
(* (key 2), each with a retry policy of two attempts: attempts that time   *)
(* out, fail, are retried after a backoff or outlive their claim, under    *)
(* two workers, while another signal may have its task rebuilt.            *)
(***************************************************************************)
EXTENDS MCWorkflows, TLC

CONSTANTS wf, approve, shard, w1, w2
\* The workers differ in nothing.
EitherWorker   == Permutations(Workers)
EffectsShardOf == [id \in Ids |-> shard]
EffectsInitial == [id \in Ids |-> {Mailbox(1, approve)}]
EffectsNext    == [id \in Ids |-> {}]
EffectsAppends == {SignalOf(<<wf, 1>>, approve, NoKey)}
EffectsStarts  == {ClientStart(<<wf, 1>>)}
Policy(start, hb) == [start |-> start, hb |-> hb, delays |-> <<Backoff(1, 2, 2, 1)>>, elapsed |-> 0]
EagerAndLocal  == [k \in EffectKeys |-> IF k = 1 THEN Policy(2, 1) ELSE Policy(0, 0)]
===============================================================================
