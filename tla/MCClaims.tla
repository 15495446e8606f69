------------------------------- MODULE MCClaims -------------------------------
(***************************************************************************)
(* One workflow run that runs, then waits for a timer and a signal,        *)
(* executed by two workers that compete for its shard: one of version 1,   *)
(* which may crash, and one of version 2, whose handlers may fail.         *)
(* Leases, claims, takeover, late commits and migrations.                  *)
(***************************************************************************)
EXTENDS MCWorkflows

CONSTANTS wf, approve, shard, w1, w2
ClaimsShardOf == [id \in Ids |-> shard]
OldAndNew     == [w \in Workers |-> IF w = w1 THEN 1 ELSE 2]
ClaimsInitial == [id \in Ids |-> {Run(1)}]
ClaimsNext    == [id \in Ids |-> {{Timer(1, 1), Mailbox(2, approve)}}]
ClaimsStarts  == {ClientStart(<<wf, 1>>)}
ClaimsAppends == {SignalOf(<<wf, 1>>, approve, NoKey)}

\* Workers that run one loop each give a shard back with no claim of it in hand.
KeepsShards ==
    \A w \in alive, s \in Shards : sessions[w][s] # 0 /\ sessions'[w][s] = 0 =>
        ~ \E c \in held : c.worker = w /\ ShardOfRef(c.act.ref) = s
OneLoopSpec == Init /\ [][Next /\ KeepsShards]_vars
===============================================================================
