------------------------------ MODULE MCJournal -------------------------------
(***************************************************************************)
(* One or two runs of one shard behind a journal, whose handlers run eager  *)
(* activities with a timeout, under two workers.                           *)
(***************************************************************************)
EXTENDS ShardJournal, TLC

CONSTANTS wf1, wf2, approve, shard, w1, w2
\* The workers differ in nothing.
EitherWorker   == Permutations(Workers)
JournalShardOf == [id \in Ids |-> shard]
JournalInitial == [id \in Ids |-> {[kind |-> "run", name |-> 1, at |-> 0]}]
JournalNextWaits == [id \in Ids |-> {{[kind |-> "signal", name |-> 2, type |-> approve, future |-> FALSE, cursor |-> 0]}}]
JournalStarts  == {[ref |-> <<id, 1>>, version |-> 1, reuse |-> "not_running", conflict |-> "fail"] : id \in Ids}
JournalAppends == {[ref |-> <<wf1, 1>>, type |-> approve, key |-> NoKey]}
JournalEffects == [k \in EffectKeys |-> [start |-> 1, hb |-> 0, delays |-> <<1>>, elapsed |-> 0]]
NoJournalEffects == [k \in {} |-> 0]
OneVersion     == [w \in Workers |-> 1]
===============================================================================
