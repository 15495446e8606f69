------------------------------ MODULE MCChildren ------------------------------
(***************************************************************************)
(* A parent that starts one child with its checkpoint and sends another    *)
(* at once from its handler, which may fail and be executed again; a child *)
(* that has a child of its own.  Any run may complete or be canceled, and  *)
(* handlers may cancel their children.                                     *)
(***************************************************************************)
EXTENDS MCWorkflows

CONSTANTS parent, child, helper, grandchild, mainStart, helpStart, shard, w1

\* DurableContext::child_start always sends ConflictPolicy::Fail.
Starting(key, id, policy) ==
    [key |-> key, ref |-> <<id, 1>>, policy |-> policy, reuse |-> "not_running", conflict |-> "fail", at |-> 0]
StartsChild  == Starting(mainStart, child, "cancel")
StartsHelper == Starting(helpStart, helper, "abandon")
StartsGrand  == Starting(mainStart, grandchild, "cancel")

ChildrenShardOf == [id \in Ids |-> shard]
ChildrenInitial == [id \in Ids |-> {Run(1)}]
ChildrenNext    ==
    [id \in Ids |-> CASE id = parent -> {{AwaitChild(2, <<child, 1>>), AwaitChild(3, <<helper, 1>>)}}
                      [] id = child  -> {{AwaitChild(2, <<grandchild, 1>>)}}
                      [] OTHER       -> {}]
ChildrenClients == {ClientStart(<<parent, 1>>)}
TwoClients      == {ClientStart(<<parent, 1>>), ClientStart(<<helper, 1>>)}
ChildrenBuffered == {[id |-> parent, seq |-> 0, start |-> StartsChild],
                     [id |-> child, seq |-> 0, start |-> StartsGrand]}
ChildrenEager    == {[id |-> parent, seq |-> 0, start |-> StartsHelper]}
===============================================================================
