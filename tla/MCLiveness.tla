------------------------------ MODULE MCLiveness ------------------------------
(***************************************************************************)
(* One run that waits for a timer and a signal, and two workers of which   *)
(* one may crash, small enough for the liveness of the whole to be         *)
(* checked.                                                                *)
(***************************************************************************)
EXTENDS MCWorkflows

CONSTANTS wf, approve, shard, w1, w2
LivenessShardOf == [id \in Ids |-> shard]
LivenessInitial == [id \in Ids |-> {Mailbox(1, approve), Timer(2, 1)}]
LivenessNext    == [id \in Ids |-> {{Mailbox(1, approve)}}]
LivenessStarts  == {ClientStart(<<wf, 1>>)}
LivenessAppends == {SignalOf(<<wf, 1>>, approve, NoKey)}
===============================================================================
