------------------------------ MODULE DurableRuns -----------------------------
(***************************************************************************)
(* What the shard engine promises its users, without shards, leases, tasks *)
(* or workers: runs that advance one checkpoint at a time, and an inbox of *)
(* signals from which a checkpoint takes at most one, for good.            *)
(***************************************************************************)
EXTENDS Naturals

CONSTANTS Runs, SignalNumbers

VARIABLES
    status,     \* of each run
    sequence,   \* how many checkpoints each run has made
    unread,     \* the signals accepted and not consumed: <<number, run>>
    read        \* the signals consumed: <<number, run, the checkpoint that took it>>

promise == <<status, sequence, unread, read>>

Ended == {"completed", "failed", "canceled"}
Accepted == {s[1] : s \in unread} \cup {s[1] : s \in read}

Init ==
    /\ status = [r \in Runs |-> "absent"]
    /\ sequence = [r \in Runs |-> 0]
    /\ unread = {}
    /\ read = {}

\* A run comes into being, with its first signal or without.
Begin(r) ==
    /\ status[r] = "absent"
    /\ status' = [status EXCEPT ![r] = "running"]
    /\ \/ unread' = unread
       \/ \E n \in SignalNumbers \ Accepted : unread' = unread \cup {<<n, r>>}
    /\ UNCHANGED <<sequence, read>>

\* A run is replaced by a new one of the same name, which inherits its inbox.
Replace(r) ==
    /\ status[r] # "absent"
    /\ status' = [status EXCEPT ![r] = "running"]
    /\ sequence' = [sequence EXCEPT ![r] = 0]
    /\ UNCHANGED <<unread, read>>

\* A signal is accepted: its number is new, and nothing else changes.
Accept(r, n) ==
    /\ n \in SignalNumbers \ Accepted
    /\ unread' = unread \cup {<<n, r>>}
    /\ UNCHANGED <<status, sequence, read>>

\* A checkpoint of a run that is going: it may take one signal of the run, which is then
\* known by that checkpoint; it may end the run; and other runs may start with it, be
\* canceled with it, or both, but do nothing else.
Checkpoint(r) ==
    /\ status[r] = "running"
    /\ status' \in [Runs -> {"absent", "running"} \cup Ended]
    /\ status'[r] # "absent"
    /\ \A q \in Runs \ {r} : \/ status'[q] = status[q]
                             \/ status[q] = "absent" /\ status'[q] = "running"
                             \/ status[q] \in {"absent", "running"} /\ status'[q] = "canceled"
    /\ sequence' = [sequence EXCEPT ![r] = @ + 1]
    /\ \/ UNCHANGED <<unread, read>>
       \/ \E s \in {x \in unread : x[2] = r} :
              /\ unread' = unread \ {s}
              /\ read' = read \cup {<<s[1], r, sequence[r] + 1>>}

\* A parent cancels a child.
Cancel(r) ==
    /\ status[r] = "running"
    /\ status' = [status EXCEPT ![r] = "canceled"]
    /\ UNCHANGED <<sequence, unread, read>>

Next == \E r \in Runs :
    \/ Begin(r)
    \/ Replace(r)
    \/ \E n \in SignalNumbers : Accept(r, n)
    \/ Checkpoint(r)
    \/ Cancel(r)

Spec == Init /\ [][Next]_promise
===============================================================================
