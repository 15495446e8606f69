------------------------------- MODULE MCMailbox ------------------------------
(***************************************************************************)
(* The inbox of one workflow id that has three runs: signals with and      *)
(* without idempotency keys, sent to a run or through startSendSignal,     *)
(* before, while and after the run waits for them, and waits for future    *)
(* signals that are armed again by later checkpoints.                      *)
(***************************************************************************)
EXTENDS MCWorkflows

CONSTANTS wf, approve, revise, k1, k2, shard, w1
MailboxShardOf == [id \in Ids |-> shard]
MailboxInitial == [id \in Ids |-> {Run(1), Future(2, approve)}]
MailboxNext    == [id \in Ids |-> {{Future(2, approve), Mailbox(3, revise)}, {Mailbox(2, approve)}}]
MailboxStarts  == {[ClientStart(<<wf, 1>>) EXCEPT !.conflict = "terminate_existing"]}
MailboxAppends == {SignalOf(<<wf, 1>>, approve, k1), SignalOf(<<wf, 1>>, revise, NoKey)}
SendStart(r, targeted, type, key) ==
    [ref |-> r, version |-> 1, targeted |-> targeted, reuse |-> "not_running", type |-> type, key |-> key]
MailboxSends   == {SendStart(<<wf, 1>>, TRUE, approve, k1)}
                  \cup {SendStart(<<wf, n>>, FALSE, approve, k2) : n \in {2, 3}}

\* No two runs of the id begin in one instant.
InOrderSpec    == Init /\ [][Next /\ RunsBeginInOrder]_vars
===============================================================================
