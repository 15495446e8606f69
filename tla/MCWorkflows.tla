------------------------------ MODULE MCWorkflows -----------------------------
(***************************************************************************)
(* What the model-checking modules share: the waits a workflow definition  *)
(* declares, and the values of the parameters a model does not use.        *)
(***************************************************************************)
EXTENDS ShardLiveness

Run(name)              == [kind |-> "run", name |-> name, at |-> 0]
Timer(name, delay)     == [kind |-> "timer", name |-> name, at |-> delay]
Mailbox(name, type)    == [kind |-> "signal", name |-> name, type |-> type, future |-> FALSE, cursor |-> 0]
Future(name, type)     == [kind |-> "signal", name |-> name, type |-> type, future |-> TRUE, cursor |-> 0]
AwaitChild(name, r)    == [kind |-> "child", name |-> name, child |-> r]

\* DurableRuntime::start: reuse defaults to not_running and the conflict policy is fail.
ClientStart(r)   == [ref |-> r, version |-> 1, reuse |-> "not_running", conflict |-> "fail"]
SignalOf(r, type, key) == [ref |-> r, type |-> type, key |-> key]

NoEffects  == [k \in {} |-> 0]
VersionOne == [w \in Workers |-> 1]
===============================================================================
