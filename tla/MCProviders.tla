----------------------------- MODULE MCProviders ------------------------------
(***************************************************************************)
(* One or two runs and shards: two processes that share one journal, or one*)
(* process with two calls at a time.                                       *)
(***************************************************************************)
EXTENDS ShardProviders, TLC

CONSTANTS r1, r2, s1, s2, p1, p2
EachItsShard   == [r \in Runs |-> IF r = r1 THEN s1 ELSE s2]
OnePartition   == [s \in Shards |-> 0]
TwoPartitions  == [s \in Shards |-> IF s = s1 THEN 0 ELSE 1]
AnyOperation   == [p \in Processes |-> Operations]
WriterAndReader == [p \in Processes |-> IF p = p1 THEN Creates \cup Appends \cup {op \in Commits : op.run = r2 /\ op.id = 2}
                                        ELSE {op \in Loads : op.run = r2}]
EitherProcess  == Permutations(Processes)
===============================================================================
