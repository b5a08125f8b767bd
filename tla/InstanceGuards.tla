--------------------------- MODULE InstanceGuards ---------------------------
(***************************************************************************)
(* The guards of the actions on one object, a service orchestrated ha or   *)
(* not, and on its instances.  The daemon runs any action it is asked:     *)
(* RunInstanceAction, ClearInstance and SubmitObjectAction read the        *)
(* instances first and refuse what would run a failover service on two     *)
(* nodes, destroy the data of a running instance, set a monitor idle under *)
(* an action, shut down what the daemon starts again at once, or delete    *)
(* the configuration of resources that stay behind.  Nothing holds the     *)
(* cluster between that read and the end of the action: other calls and    *)
(* the daemon itself act meanwhile.                                        *)
(*                                                                         *)
(* How the caller learns the end of the action is ActionFollow's matter:   *)
(* here a call lasts until its action ended on the node, answered or not.  *)
(***************************************************************************)
EXTENDS Naturals

CONSTANTS
    Calls,      \* the tool calls, of any callers of any MCP server
    Nodes,      \* the nodes that have an instance of the object
    Page,       \* the nodes in the one page of instances the guards read
    Scenarios   \* a bound: the actions the calls of one behaviour are drawn
                \* from, with the instances frozen and provisioned at first

VARIABLES
    topology,   \* the topology of the object
    object,     \* whether the object still has its configuration
    avail,      \* avail[n]: the availability of the instance on n
    provisioned, \* the nodes whose instance holds provisioned resources
    frozen,     \* the nodes whose instance is frozen, alone or with its node
    monitor,    \* monitor[n]: the state of its monitor
    op,         \* op[c]: the action of a call
    node,       \* node[c]: the node it is for
    pc,         \* pc[c]: how far the call and its action are
    crossed,    \* history: whose changes the check of c could not see
    asked       \* the actions the calls of this behaviour are drawn from

resources == <<object, provisioned, frozen>>
vars == <<topology, resources, avail, monitor, op, node, pc, crossed, asked>>

\* The actions of an instance.  A "mark" is an unprovision that only records
\* the state; a "shutdown" is that of an object orchestrated ha, that of
\* another being a "stop"; a freeze is that of the instance or of its node.
\* "standby" is an availability of stdby up: no more than standby resources up.
Starts == {"start", "restart"}
Frosts == {"freeze", "unfreeze"}
OnInstance == Starts \cup Frosts \cup
              {"startstandby", "stop", "shutdown", "unprovision", "mark", "clear"}

\* The actions of the object, which its daemons orchestrate.  Those that only
\* start or stop it have no guard: they are steps of the daemon here.
OnObject == {"provision", "unprovision_object", "purge", "delete"}
Actions == OnInstance \cup OnObject

ASSUME PageAssumption == Page \subseteq Nodes
ASSUME ScenariosAssumption ==
    Scenarios \subseteq [actions : SUBSET Actions, frozen : SUBSET Nodes,
                         provisioned : SUBSET Nodes]

TypeOK ==
    /\ topology \in {"failover", "flex"}
    /\ object \in {"defined", "deleted"}
    /\ provisioned \subseteq Nodes
    /\ frozen \subseteq Nodes
    /\ asked \subseteq Actions
    /\ avail \in [Nodes -> {"up", "warn", "standby", "down"}]
    /\ monitor \in [Nodes -> {"idle", "busy", "failed"}]
    /\ op \in [Calls -> Actions \cup {"none"}]
    /\ node \in [Calls -> Nodes]
    /\ pc \in [Calls -> {"idle", "refused", "checked", "posted", "running", "ended"}]
    /\ crossed \in [Calls -> SUBSET (Calls \cup {"daemon"})]

Running(n) == avail[n] \in {"up", "warn"}

\* What a deletion would leave behind, held by no object.
Holding(n) == avail[n] # "down" \/ n \in provisioned

AloneAtMost == \A m, n \in Nodes : Running(m) /\ Running(n) => m = n

Init ==
    /\ topology \in {"failover", "flex"}
    /\ avail \in [Nodes -> {"up", "warn", "down"}]
    /\ topology = "failover" => AloneAtMost
    /\ monitor \in [Nodes -> {"idle", "failed"}]
    /\ op = [c \in Calls |-> "none"]
    /\ node \in [Calls -> Nodes]
    /\ pc = [c \in Calls |-> "idle"]
    /\ crossed = [c \in Calls |-> {}]
    /\ object = "defined"
    /\ \E scenario \in Scenarios :
          /\ asked = scenario.actions
          /\ frozen = scenario.frozen
          /\ provisioned = scenario.provisioned

\* The calls between their check and the end of their action.
Open == {c \in Calls : pc[c] \in {"checked", "posted", "running"}}

\* What a check made now cannot see of the calls under way: a clear reads the
\* monitor, busy under an action that runs; the others read the availability,
\* which an action changes when it ends.
Unseen(action) ==
    IF action = "clear" THEN {d \in Open : pc[d] # "running"} ELSE Open

-----------------------------------------------------------------------------
(* Bugs of the guards, each put in place of its guard by a mutation run.    *)

\* A start is refused beside an instance up, not beside one in warn.
MayStartBesideWarn(n) ==
    topology = "failover" => \A m \in Page \ {n} : avail[m] # "up"

\* An unprovision is refused on an instance up only.
MayUnprovisionWarn(n) == avail[n] # "up"

\* A clear is refused only when there is nothing to clear.
MayClearBusy(n) == monitor[n] # "idle"

\* An unprovision or a purge of the object looks at one instance up at most.
MaySpareWarn == \A m \in Page : avail[m] # "up"

\* A delete is refused for what runs, not for what is provisioned.
MayDeleteProvisioned == \A m \in Page : avail[m] = "down"

\* A shutdown is allowed once an instance of the object, any, is frozen.
MayShutdownFrozenElsewhere(n) == frozen # {}

-----------------------------------------------------------------------------
(* The check: the page of instances, evaluated as the daemon answered it.   *)

MayStart(n) ==
    topology = "failover" => \A m \in Page \ {n} : ~Running(m)

MayUnprovision(n) == ~Running(n)

MayClear(n) == monitor[n] = "failed"

\* The frozen state is that of the instance in the page, or of the object or
\* the node read after it: the read that finds it frozen ends the check.
MayShutdown(n) == n \in frozen

MayUnprovisionObject == \A m \in Page : ~Running(m)

MayDelete == \A m \in Page : ~Holding(m)

\* The guards of one action.
Allowed(action, n) ==
    /\ n \in Page \/ action \in OnObject \cup {"clear"}
    /\ action \in Starts => MayStart(n)
    /\ action = "unprovision" => MayUnprovision(n)
    /\ action = "shutdown" => MayShutdown(n)
    /\ action = "clear" => MayClear(n)
    /\ action \in {"unprovision_object", "purge"} => MayUnprovisionObject
    /\ action = "delete" => MayDelete

\* The guard is looked at in one step, on what is.  The code makes several requests,
\* which views may serve late: a change that no view shows yet is left out, and the
\* properties are about views up to date.
CheckPasses(c) ==
    /\ pc[c] = "idle"
    /\ object = "defined"
    /\ \E action \in asked :
          /\ Allowed(action, node[c])
          /\ op' = [op EXCEPT ![c] = action]
          /\ crossed' = [d \in Calls |->
                            IF d = c THEN Unseen(action)
                            ELSE IF d \in Open THEN crossed[d] \cup {c}
                            ELSE crossed[d]]
    /\ pc' = [pc EXCEPT ![c] = "checked"]
    /\ UNCHANGED <<topology, resources, avail, monitor, node, asked>>

\* Refused by the form of the call, by its guard, by a read that fails, or by an
\* instance that is not on that node.
CheckRefuses(c) ==
    /\ pc[c] = "idle"
    /\ pc' = [pc EXCEPT ![c] = "refused"]
    /\ UNCHANGED <<topology, resources, avail, monitor, op, node, crossed, asked>>

Post(c) ==
    /\ pc[c] = "checked"
    /\ pc' = [pc EXCEPT ![c] = "posted"]
    /\ UNCHANGED <<topology, resources, avail, monitor, op, node, crossed, asked>>

\* The daemon refuses the action, or never gets it.
PostFails(c) ==
    /\ pc[c] = "posted"
    /\ pc' = [pc EXCEPT ![c] = "refused"]
    /\ UNCHANGED <<topology, resources, avail, monitor, op, node, crossed, asked>>

-----------------------------------------------------------------------------
(* The daemon.                                                             *)

\* The node forks the action, which takes the lock of the instance.
Begins(c) ==
    /\ pc[c] = "posted"
    /\ object = "defined"
    /\ op[c] \in OnInstance \ {"clear"}
    /\ \A d \in Calls : pc[d] = "running" => node[d] # node[c]
    /\ pc' = [pc EXCEPT ![c] = "running"]
    /\ monitor' = [monitor EXCEPT ![node[c]] = "busy"]
    /\ UNCHANGED <<topology, resources, avail, op, node, crossed, asked>>

\* The availability and the monitor state an action may leave.  A start that
\* fails is rolled back or leaves what it started; the standby resources of an
\* instance that runs are up already; a record or a freeze touches nothing.
Results(action, n) ==
    CASE action \in Starts -> {<<"up", "idle">>, <<"warn", "failed">>, <<"down", "failed">>}
      [] action = "startstandby" ->
            {<<IF Running(n) THEN avail[n] ELSE "standby", "idle">>, <<avail[n], "failed">>}
      [] action \in Frosts \cup {"mark"} -> {<<avail[n], "idle">>}
      [] OTHER             -> {<<"down", "idle">>,
                               <<IF Running(n) THEN "warn" ELSE "down", "failed">>}

Ends(c) ==
    /\ pc[c] = "running"
    /\ \E result \in Results(op[c], node[c]) :
          /\ avail' = [avail EXCEPT ![node[c]] = result[1]]
          /\ monitor' = [monitor EXCEPT ![node[c]] = result[2]]
          /\ provisioned' = IF op[c] \in {"unprovision", "mark"} /\ result[2] = "idle"
                            THEN provisioned \ {node[c]} ELSE provisioned
    /\ frozen' = CASE op[c] = "freeze"   -> frozen \cup {node[c]}
                   [] op[c] = "unfreeze" -> frozen \ {node[c]}
                   [] OTHER              -> frozen
    /\ pc' = [pc EXCEPT ![c] = "ended"]
    /\ UNCHANGED <<topology, object, op, node, crossed, asked>>

\* The daemon sets the monitor idle whatever its state.
Clears(c) ==
    /\ pc[c] = "posted"
    /\ object = "defined"
    /\ op[c] = "clear"
    /\ monitor' = [monitor EXCEPT ![node[c]] = "idle"]
    /\ pc' = [pc EXCEPT ![c] = "ended"]
    /\ UNCHANGED <<topology, resources, avail, op, node, crossed, asked>>

\* The daemons run the action of an object on its instances, whose locks they
\* take: never beside an action of one.
Orchestrated(c, actions) ==
    /\ pc[c] = "posted"
    /\ object = "defined"
    /\ op[c] \in actions
    /\ \A d \in Calls : pc[d] # "running"
    /\ pc' = [pc EXCEPT ![c] = "ended"]
    /\ UNCHANGED <<topology, frozen, op, node, crossed, asked>>

\* Every instance is provisioned; its start is a step of the daemon.
Provisions(c) ==
    /\ Orchestrated(c, {"provision"})
    /\ provisioned' = Nodes
    /\ UNCHANGED <<object, avail, monitor>>

\* Each instance is stopped, then its data destroyed, which fails on some; the
\* purge done everywhere deletes the configuration.
Unprovisions(c) ==
    /\ Orchestrated(c, {"unprovision_object", "purge"})
    /\ \E done \in SUBSET Nodes :
          /\ avail' = [n \in Nodes |-> IF n \in done THEN "down"
                                      ELSE IF Running(n) THEN "warn" ELSE avail[n]]
          /\ monitor' = [n \in Nodes |-> IF n \in done THEN "idle" ELSE "failed"]
          /\ provisioned' = provisioned \ done
          /\ object' = IF op[c] = "purge" /\ done = Nodes THEN "deleted" ELSE object

\* The configuration is deleted, whatever its instances hold.
Deletes(c) ==
    /\ Orchestrated(c, {"delete"})
    /\ object' = "deleted"
    /\ UNCHANGED <<avail, monitor, provisioned>>

\* The daemon starts an instance on its own, as it orchestrates the object: a
\* failover service only when no instance runs, never beside an action, and
\* never an instance frozen.
DaemonStarts(n) ==
    /\ object = "defined"
    /\ n \notin frozen
    /\ avail[n] \in {"standby", "down"}
    /\ topology = "failover" => \A m \in Nodes : ~Running(m)
    /\ \A m \in Nodes : monitor[m] # "busy"
    /\ avail' = [avail EXCEPT ![n] = "up"]
    /\ crossed' = [d \in Calls |-> IF d \in Open THEN crossed[d] \cup {"daemon"}
                                   ELSE crossed[d]]
    /\ UNCHANGED <<topology, resources, monitor, op, node, pc, asked>>

\* An instance that runs degrades, recovers or goes down.
Drifts(n) ==
    /\ Running(n)
    /\ \E now \in {"up", "warn", "down"} \ {avail[n]} :
          avail' = [avail EXCEPT ![n] = now]
    /\ UNCHANGED <<topology, resources, monitor, op, node, pc, crossed, asked>>

\* The daemon lifts a failure itself, when the object is up elsewhere.
DaemonLifts(n) ==
    /\ monitor[n] = "failed"
    /\ \E m \in Nodes \ {n} : avail[m] = "up"
    /\ monitor' = [monitor EXCEPT ![n] = "idle"]
    /\ UNCHANGED <<topology, resources, avail, op, node, pc, crossed, asked>>

CallStep(c) == CheckPasses(c) \/ CheckRefuses(c) \/ Post(c) \/ PostFails(c)

Next ==
    \/ \E c \in Calls : CallStep(c) \/ Begins(c) \/ Ends(c) \/ Clears(c)
    \/ \E c \in Calls : Provisions(c) \/ Unprovisions(c) \/ Deletes(c)
    \/ \E n \in Nodes : DaemonStarts(n) \/ Drifts(n) \/ DaemonLifts(n)

Spec == Init /\ [][Next]_vars
-----------------------------------------------------------------------------
(* Properties.                                                             *)

Starters == {c \in Calls : op[c] \in Starts}

\* A start whose check could not see another start, of a call or of the daemon.
StartsCrossed ==
    \E c \in Starters : crossed[c] \cap (Starters \cup {"daemon"}) # {}

\* A failover service runs on two nodes only after two starts crossed: no
\* stop, unprovision, clear or drift that crosses a start can do it, and a
\* start alone never does (refuseInstanceAction).
OneRunsUnlessCrossed ==
    Page = Nodes /\ topology = "failover" /\ ~StartsCrossed => AloneAtMost

\* The instances whose data an action destroys.
Destroyed(c) ==
    CASE op[c] = "unprovision"                    -> {node[c]}
      [] op[c] \in {"unprovision_object", "purge"} -> Page
      [] OTHER                                    -> {}

\* An unprovision or a purge about to run on an instance that runs, whose data
\* it destroys, was crossed by a start of that instance or by the daemon
\* (refuseInstanceAction, refuseUnprovisionUp).
UnprovisionSpares ==
    \A c \in Calls : pc[c] \in {"checked", "posted"} =>
        \A n \in Destroyed(c) : Running(n) =>
            \/ "daemon" \in crossed[c]
            \/ \E d \in crossed[c] \cap Starters : node[d] = n

\* A delete about to leave an instance behind, one that is not down or is still
\* provisioned, was crossed by what raised or provisioned it
\* (refuseLeakingDelete).
DeleteLeavesNothing ==
    \A c \in Calls : op[c] = "delete" /\ pc[c] \in {"checked", "posted"} =>
        \A n \in Page : Holding(n) =>
            \/ "daemon" \in crossed[c]
            \/ \E d \in crossed[c] :
                  \/ d \in Calls /\ op[d] = "provision"
                  \/ d \in Calls /\ node[d] = n /\ op[d] \in Starts \cup {"startstandby"}

\* A shutdown on an instance that is not frozen, one the daemon starts again at
\* once, was crossed by an unfreeze of that instance (refuseShutdownUnflagged).
ShutdownIsHeld ==
    \A c \in Calls :
        op[c] = "shutdown" /\ pc[c] \in {"checked", "posted", "running"} /\ node[c] \notin frozen =>
            \E d \in crossed[c] \cap Calls : op[d] = "unfreeze" /\ node[d] = node[c]

\* A clear about to set a monitor idle under an action was posted before the
\* action ran (ClearInstance).
ClearSeesAction ==
    \A c, d \in Calls :
        /\ op[c] = "clear" /\ pc[c] \in {"checked", "posted"}
        /\ pc[d] = "running" /\ node[d] = node[c]
        => d \in crossed[c]
=============================================================================
