-------------------------- MODULE MCInstanceGuards --------------------------
(* Two calls on the two instances of one object: of the instance actions of *)
(* a provisioned object; of the actions of an object not provisioned yet,   *)
(* beside those that raise its instances; of shutdowns among freezes.       *)
EXTENDS InstanceGuards, TLC

CONSTANTS a, b, c1, c2

MCNodes == {a, b}
MCCalls == {c1, c2}
Symmetry == Permutations(MCNodes) \cup Permutations(MCCalls)

MCScenarios ==
    { [actions |-> {"start", "restart", "stop", "unprovision", "mark", "clear"},
       frozen |-> {}, provisioned |-> MCNodes],
      [actions |-> {"start", "startstandby", "mark"} \cup OnObject,
       frozen |-> {}, provisioned |-> {}],
      [actions |-> {"start", "shutdown", "freeze", "unfreeze", "delete"},
       frozen |-> MCNodes, provisioned |-> MCNodes] }
=============================================================================
