------------------------ MODULE InstanceGuardsProofs ------------------------
(***************************************************************************)
(* The guards of the instance actions, for any number of calls and nodes.  *)
(* The argument: two open calls always know of each other (Acquainted); as *)
(* long as no two starts crossed, the node of an open start is the only    *)
(* one an instance may run on (StartersAlone), because its check saw the   *)
(* others down and only another start could have changed that.             *)
(***************************************************************************)
EXTENDS InstanceGuards, TLAPS

\* Of two open calls, each notes the other, except a clear an action that ran
\* already when it was checked.
Acquainted ==
    \A c, d \in Open :
        c # d /\ (op[c] # "clear" \/ pc[d] # "running") => d \in crossed[c]

StartersAlone ==
    Page = Nodes /\ topology = "failover" /\ ~StartsCrossed =>
        \A c \in Open \cap Starters : \A m \in Nodes \ {node[c]} : ~Running(m)

\* A call has an action from its check on; a clear is not an execution.
OpsKnown ==
    \A c \in Calls :
        /\ pc[c] = "idle" => op[c] = "none"
        /\ c \in Open => op[c] # "none"
        /\ pc[c] = "running" => op[c] # "clear"

\* The node runs one action at a time on its instance; meanwhile its monitor
\* is busy, or idle when a clear was set under it, and never failed.
OneAction ==
    \A c \in Calls : pc[c] = "running" =>
        /\ monitor[node[c]] # "failed"
        /\ \A d \in Calls : pc[d] = "running" /\ node[d] = node[c] => c = d

GuardInv ==
    /\ TypeOK
    /\ OpsKnown
    /\ OneAction
    /\ Acquainted
    /\ StartersAlone
    /\ OneRunsUnlessCrossed
    /\ UnprovisionSpares
    /\ ClearSeesAction
    /\ DeleteLeavesNothing
    /\ ShutdownIsHeld
-----------------------------------------------------------------------------
(* Each part of GuardInv is preserved by a step.                           *)

\* The kinds of steps of a call and of the daemon, one by one.
LEMMA StepCases ==
    ASSUME [Next]_vars, NEW P,
           \A c \in Calls : CheckPasses(c) => P,
           \A c \in Calls : CheckRefuses(c) => P,
           \A c \in Calls : Post(c) => P,
           \A c \in Calls : PostFails(c) => P,
           \A c \in Calls : Begins(c) => P,
           \A c \in Calls : Ends(c) => P,
           \A c \in Calls : Clears(c) => P,
           \A c \in Calls : Provisions(c) => P,
           \A c \in Calls : Unprovisions(c) => P,
           \A c \in Calls : Deletes(c) => P,
           \A n \in Nodes : DaemonStarts(n) => P,
           \A n \in Nodes : Drifts(n) => P,
           \A n \in Nodes : DaemonLifts(n) => P,
           UNCHANGED vars => P
    PROVE  P
  BY DEF Next, CallStep

\* What the end of an action leaves on its node (RunInstanceAction).
LEMMA ResultsType ==
    ASSUME TypeOK, NEW action, NEW n \in Nodes, NEW r \in Results(action, n)
    PROVE  /\ r[1] \in {"up", "warn", "standby", "down"}
           /\ r[2] \in {"idle", "busy", "failed"}
           /\ ~Running(n) /\ action \notin Starts => r[1] \in {"standby", "down"}
           /\ avail[n] = "down" /\ action \notin Starts \cup {"startstandby"} => r[1] = "down"
  <1>1. CASE action \in Starts
    <2>1. r \in {<<"up", "idle">>, <<"warn", "failed">>, <<"down", "failed">>}
      BY <1>1 DEF Results, Starts, Frosts
    <2> QED BY <1>1, <2>1
  <1>2. CASE action \in Frosts \cup {"mark"}
    BY <1>2 DEF Results, TypeOK, Running, Starts, Frosts
  <1>3. CASE action = "startstandby"
    BY <1>3 DEF Results, TypeOK, Running, Starts, Frosts
  <1>4. CASE action \notin Starts \cup Frosts \cup {"mark", "startstandby"}
    BY <1>4 DEF Results, Running
  <1> QED BY <1>1, <1>2, <1>3, <1>4

LEMMA TypeStep ==
    ASSUME TypeOK, [Next]_vars
    PROVE  TypeOK'
<1>1. ASSUME NEW c \in Calls, CheckPasses(c)
      PROVE  TypeOK'
  <2>1. crossed' \in [Calls -> SUBSET (Calls \cup {"daemon"})]
    BY <1>1 DEF CheckPasses, TypeOK, Unseen, Open
  <2> QED BY <1>1, <2>1 DEF CheckPasses, TypeOK, resources
<1>2. ASSUME NEW c \in Calls,
             CheckRefuses(c) \/ Post(c) \/ PostFails(c) \/ Begins(c) \/ Clears(c)
      PROVE  TypeOK'
  BY <1>2 DEF CheckRefuses, Post, PostFails, Begins, Clears, TypeOK, resources
<1>3. ASSUME NEW c \in Calls, Ends(c)
      PROVE  TypeOK'
  <2>1. node[c] \in Nodes
    BY DEF TypeOK
  <2>2. PICK r \in Results(op[c], node[c]) :
            /\ avail' = [avail EXCEPT ![node[c]] = r[1]]
            /\ monitor' = [monitor EXCEPT ![node[c]] = r[2]]
    BY <1>3 DEF Ends
  <2>3. r[1] \in {"up", "warn", "standby", "down"} /\ r[2] \in {"idle", "busy", "failed"}
    BY <2>1, ResultsType
  <2>4. provisioned' \subseteq Nodes /\ frozen' \subseteq Nodes
    BY <1>3, <2>1 DEF Ends, TypeOK
  <2> QED BY <1>3, <2>2, <2>3, <2>4 DEF Ends, TypeOK
<1>4. ASSUME NEW n \in Nodes, DaemonStarts(n) \/ Drifts(n) \/ DaemonLifts(n)
      PROVE  TypeOK'
  BY <1>4 DEF DaemonStarts, Drifts, DaemonLifts, TypeOK, resources
<1>6. ASSUME NEW c \in Calls, Provisions(c) \/ Deletes(c)
      PROVE  TypeOK'
  BY <1>6 DEF Provisions, Deletes, Orchestrated, TypeOK
<1>7. ASSUME NEW c \in Calls, Unprovisions(c)
      PROVE  TypeOK'
  <2>1. PICK done \in SUBSET Nodes :
            /\ avail' = [n \in Nodes |-> IF n \in done THEN "down"
                                        ELSE IF Running(n) THEN "warn" ELSE avail[n]]
            /\ monitor' = [n \in Nodes |-> IF n \in done THEN "idle" ELSE "failed"]
            /\ provisioned' = provisioned \ done
            /\ object' = IF op[c] = "purge" /\ done = Nodes THEN "deleted" ELSE object
    BY <1>7 DEF Unprovisions
  <2>2. avail' \in [Nodes -> {"up", "warn", "standby", "down"}]
    BY <2>1 DEF TypeOK
  <2>3. monitor' \in [Nodes -> {"idle", "busy", "failed"}]
    BY <2>1
  <2> QED BY <1>7, <2>1, <2>2, <2>3 DEF Unprovisions, Orchestrated, TypeOK
<1>5. CASE UNCHANGED vars
  BY <1>5 DEF vars, resources, TypeOK
<1> QED BY <1>1, <1>2, <1>3, <1>4, <1>5, <1>6, <1>7, StepCases

LEMMA OpsStep ==
    ASSUME TypeOK, OpsKnown, [Next]_vars
    PROVE  OpsKnown'
<1>1. ASSUME NEW c \in Calls, CheckPasses(c)
      PROVE  OpsKnown'
  BY <1>1 DEF CheckPasses, TypeOK, OpsKnown, Open, Actions, OnInstance, OnObject, Frosts, Starts
<1>2. ASSUME NEW c \in Calls,
             \/ CheckRefuses(c) \/ Post(c) \/ PostFails(c)
             \/ Begins(c) \/ Ends(c) \/ Clears(c)
      PROVE  OpsKnown'
  BY <1>2 DEF CheckRefuses, Post, PostFails, Begins, Ends, Clears, TypeOK, OpsKnown, Open
<1>3. ASSUME NEW n \in Nodes, DaemonStarts(n) \/ Drifts(n) \/ DaemonLifts(n)
      PROVE  OpsKnown'
  BY <1>3 DEF DaemonStarts, Drifts, DaemonLifts, OpsKnown, Open
<1>9. ASSUME NEW c \in Calls, Provisions(c) \/ Unprovisions(c) \/ Deletes(c)
      PROVE  OpsKnown'
  BY <1>9 DEF Provisions, Unprovisions, Deletes, Orchestrated, TypeOK, OpsKnown, Open
<1>4. CASE UNCHANGED vars
  BY <1>4 DEF vars, resources, OpsKnown, Open
<1> QED BY <1>1, <1>2, <1>3, <1>4, <1>9, StepCases

LEMMA OneActionStep ==
    ASSUME TypeOK, OneAction, [Next]_vars
    PROVE  OneAction'
<1>1. ASSUME NEW c \in Calls, CheckPasses(c) \/ CheckRefuses(c) \/ Post(c) \/ PostFails(c)
      PROVE  OneAction'
  BY <1>1 DEF CheckPasses, CheckRefuses, Post, PostFails, TypeOK, OneAction
<1>2. ASSUME NEW c \in Calls, Begins(c) \/ Clears(c)
      PROVE  OneAction'
  BY <1>2 DEF Begins, Clears, TypeOK, OneAction
<1>3. ASSUME NEW c \in Calls, Ends(c)
      PROVE  OneAction'
  <2>1. \A d \in Calls : pc'[d] = "running" =>
            pc[d] = "running" /\ node'[d] = node[d] /\ node[d] # node[c]
    BY <1>3 DEF Ends, TypeOK, OneAction
  <2>2. \A d \in Calls : node[d] # node[c] => monitor'[node[d]] = monitor[node[d]]
    BY <1>3 DEF Ends, TypeOK
  <2> QED BY <1>3, <2>1, <2>2 DEF Ends, OneAction
<1>4. ASSUME NEW n \in Nodes, DaemonStarts(n) \/ Drifts(n) \/ DaemonLifts(n)
      PROVE  OneAction'
  BY <1>4 DEF DaemonStarts, Drifts, DaemonLifts, TypeOK, OneAction
<1>9. ASSUME NEW c \in Calls, Provisions(c) \/ Unprovisions(c) \/ Deletes(c)
      PROVE  OneAction'
  BY <1>9 DEF Provisions, Unprovisions, Deletes, Orchestrated, TypeOK, OneAction
<1>5. CASE UNCHANGED vars
  BY <1>5 DEF vars, resources, OneAction
<1> QED BY <1>1, <1>2, <1>3, <1>4, <1>5, <1>9, StepCases

\* What a step may do to the ghost and to the open calls.
LEMMA CrossedGrows ==
    ASSUME TypeOK, OpsKnown, [Next]_vars
    PROVE  /\ \A c \in Open : c \in Open' => crossed[c] \subseteq crossed'[c]
           /\ \A c \in Calls : pc[c] # "idle" => op'[c] = op[c] /\ crossed[c] \subseteq crossed'[c]
           /\ Starters \subseteq Starters'
           /\ topology' = topology /\ node' = node
<1>1. ASSUME NEW c \in Calls, CheckPasses(c)
      PROVE  /\ \A d \in Calls : pc[d] # "idle" => op'[d] = op[d] /\ crossed[d] \subseteq crossed'[d]
             /\ Starters \subseteq Starters'
             /\ topology' = topology /\ node' = node
  BY <1>1 DEF CheckPasses, TypeOK, OpsKnown, Starters, Starts, Open
<1>2. ASSUME NEW n \in Nodes, DaemonStarts(n)
      PROVE  /\ \A d \in Calls : pc[d] # "idle" => op'[d] = op[d] /\ crossed[d] \subseteq crossed'[d]
             /\ Starters \subseteq Starters'
             /\ topology' = topology /\ node' = node
  BY <1>2 DEF DaemonStarts, TypeOK, Starters
<1>3. UNCHANGED <<op, crossed, topology, node>> =>
             /\ \A d \in Calls : pc[d] # "idle" => op'[d] = op[d] /\ crossed[d] \subseteq crossed'[d]
             /\ Starters \subseteq Starters'
             /\ topology' = topology /\ node' = node
  BY DEF Starters
<1>4. /\ \A d \in Calls : pc[d] # "idle" => op'[d] = op[d] /\ crossed[d] \subseteq crossed'[d]
      /\ Starters \subseteq Starters'
      /\ topology' = topology /\ node' = node
  BY <1>1, <1>2, <1>3, StepCases DEF CheckRefuses, Post, PostFails, Begins, Ends, Clears,
     Provisions, Unprovisions, Deletes, Orchestrated, Drifts, DaemonLifts, vars
<1> QED BY <1>4 DEF Open

\* Starts that crossed have crossed for ever.
LEMMA CrossedForEver ==
    ASSUME TypeOK, OpsKnown, [Next]_vars, StartsCrossed
    PROVE  StartsCrossed'
<1>1. PICK c \in Starters : crossed[c] \cap (Starters \cup {"daemon"}) # {}
  BY DEF StartsCrossed
<1>2. pc[c] # "idle"
  BY <1>1 DEF Starters, Starts, OpsKnown
<1>3. c \in Starters' /\ crossed[c] \subseteq crossed'[c] /\ Starters \subseteq Starters'
  BY <1>1, <1>2, CrossedGrows DEF Starters
<1> QED BY <1>1, <1>3 DEF StartsCrossed

LEMMA AcquaintedStep ==
    ASSUME TypeOK, OpsKnown, Acquainted, [Next]_vars
    PROVE  Acquainted'
<1>1. ASSUME NEW c \in Calls, CheckPasses(c)
      PROVE  Acquainted'
  <2>1. PICK action \in Actions :
            /\ op' = [op EXCEPT ![c] = action]
            /\ crossed' = [d \in Calls |->
                              IF d = c THEN Unseen(action)
                              ELSE IF d \in Open THEN crossed[d] \cup {c}
                              ELSE crossed[d]]
    BY <1>1 DEF CheckPasses, TypeOK
  <2>2. Open' = Open \cup {c} /\ c \notin Open /\ pc' = [pc EXCEPT ![c] = "checked"]
    BY <1>1 DEF CheckPasses, Open, TypeOK
  <2>3. \A d \in Open : op'[d] = op[d] /\ pc'[d] = pc[d] /\ crossed'[d] = crossed[d] \cup {c}
    BY <2>1, <2>2 DEF TypeOK, Open
  <2>4. op'[c] = action /\ crossed'[c] = Unseen(action)
    BY <2>1 DEF TypeOK
  <2>5. \A d \in Open : action # "clear" \/ pc[d] # "running" => d \in Unseen(action)
    BY DEF Unseen
  <2> QED BY <2>2, <2>3, <2>4, <2>5 DEF Acquainted
<1>2. ASSUME NEW c \in Calls,
             \/ CheckRefuses(c) \/ Post(c) \/ PostFails(c) \/ Ends(c) \/ Clears(c)
      PROVE  Acquainted'
  BY <1>2 DEF CheckRefuses, Post, PostFails, Ends, Clears, TypeOK, Acquainted, Open
<1>3. ASSUME NEW c \in Calls, Begins(c)
      PROVE  Acquainted'
  BY <1>3 DEF Begins, TypeOK, Acquainted, Open
<1>4. ASSUME NEW n \in Nodes, DaemonStarts(n) \/ Drifts(n) \/ DaemonLifts(n)
      PROVE  Acquainted'
  BY <1>4 DEF DaemonStarts, Drifts, DaemonLifts, TypeOK, Acquainted, Open
<1>9. ASSUME NEW c \in Calls, Provisions(c) \/ Unprovisions(c) \/ Deletes(c)
      PROVE  Acquainted'
  BY <1>9 DEF Provisions, Unprovisions, Deletes, Orchestrated, TypeOK, Acquainted, Open
<1>5. CASE UNCHANGED vars
  BY <1>5 DEF vars, resources, Acquainted, Open
<1> QED BY <1>1, <1>2, <1>3, <1>4, <1>5, <1>9, StepCases

LEMMA ClearSeesStep ==
    ASSUME TypeOK, OpsKnown, OneAction, Acquainted, ClearSeesAction, [Next]_vars
    PROVE  ClearSeesAction'
<1>1. ASSUME NEW c \in Calls, CheckPasses(c)
      PROVE  ClearSeesAction'
  <2>1. PICK action \in Actions :
            /\ Allowed(action, node[c])
            /\ op' = [op EXCEPT ![c] = action]
    BY <1>1 DEF CheckPasses, TypeOK
  <2>2. action = "clear" => \A d \in Calls : pc[d] = "running" => node[d] # node[c]
    BY <2>1 DEF Allowed, MayClear, OneAction
  <2>3. pc' = [pc EXCEPT ![c] = "checked"] /\ node' = node /\ pc[c] = "idle"
    BY <1>1 DEF CheckPasses
  <2>4. \A d \in Calls : d # c => op'[d] = op[d] /\ pc'[d] = pc[d] /\ crossed[d] \subseteq crossed'[d]
    BY <1>1, <2>3 DEF CheckPasses, TypeOK
  <2>5. op'[c] = action /\ pc'[c] = "checked"
    BY <2>1, <2>3 DEF TypeOK
  <2> QED BY <2>2, <2>3, <2>4, <2>5 DEF ClearSeesAction
<1>2. ASSUME NEW c \in Calls,
             \/ CheckRefuses(c) \/ Post(c) \/ PostFails(c) \/ Ends(c) \/ Clears(c)
      PROVE  ClearSeesAction'
  BY <1>2 DEF CheckRefuses, Post, PostFails, Ends, Clears, TypeOK, ClearSeesAction
<1>3. ASSUME NEW d \in Calls, Begins(d)
      PROVE  ClearSeesAction'
  <2>1. \A c \in Calls : op[c] = "clear" /\ pc'[c] \in {"checked", "posted"} =>
            c # d /\ c \in Open /\ d \in Open /\ pc[d] # "running" /\ pc'[c] = pc[c]
    BY <1>3 DEF Begins, TypeOK, Open
  <2>2. \A c \in Calls : op[c] = "clear" /\ pc'[c] \in {"checked", "posted"} => d \in crossed[c]
    BY <2>1 DEF Acquainted
  <2>3. \A e \in Calls : pc'[e] = "running" => e = d \/ pc[e] = "running"
    BY <1>3 DEF Begins, TypeOK
  <2>4. UNCHANGED <<op, node, crossed>>
    BY <1>3 DEF Begins
  <2> QED BY <2>1, <2>2, <2>3, <2>4 DEF ClearSeesAction
<1>4. ASSUME NEW n \in Nodes, DaemonStarts(n) \/ Drifts(n) \/ DaemonLifts(n)
      PROVE  ClearSeesAction'
  BY <1>4 DEF DaemonStarts, Drifts, DaemonLifts, TypeOK, ClearSeesAction
<1>9. ASSUME NEW c \in Calls, Provisions(c) \/ Unprovisions(c) \/ Deletes(c)
      PROVE  ClearSeesAction'
  BY <1>9 DEF Provisions, Unprovisions, Deletes, Orchestrated, TypeOK, ClearSeesAction
<1>5. CASE UNCHANGED vars
  BY <1>5 DEF vars, resources, ClearSeesAction
<1> QED BY <1>1, <1>2, <1>3, <1>4, <1>5, <1>9, StepCases

\* Two starts under way at once have crossed.
LEMMA TwoStartsCross ==
    ASSUME Acquainted, NEW c \in Open \cap Starters, NEW d \in Open \cap Starters, c # d
    PROVE  StartsCrossed
<1>1. op[c] # "clear" /\ c \in Calls
  BY DEF Starters, Starts
<1>2. d \in crossed[c]
  BY <1>1 DEF Acquainted
<1> QED BY <1>2 DEF StartsCrossed

\* An instance starts to run at the end of a start on its node, or of the
\* daemon's own start.
LEMMA WhoStarts ==
    ASSUME TypeOK, OpsKnown, [Next]_vars, NEW n \in Nodes, ~Running(n), Running(n)'
    PROVE  \/ \E c \in Open \cap Starters : Ends(c) /\ node[c] = n
           \/ DaemonStarts(n)
<1> DEFINE Cause == \/ \E c \in Open \cap Starters : Ends(c) /\ node[c] = n
                    \/ DaemonStarts(n)
<1>1. ASSUME NEW c \in Calls, Ends(c)
      PROVE  Cause
  <2>1. PICK r \in Results(op[c], node[c]) : avail' = [avail EXCEPT ![node[c]] = r[1]]
    BY <1>1 DEF Ends
  <2>2. node[c] = n /\ r[1] \in {"up", "warn"}
    BY <2>1 DEF TypeOK, Running
  <2>3. op[c] \in Starts
    BY <2>1, <2>2, ResultsType
  <2> QED BY <1>1, <2>2, <2>3 DEF Ends, Open, Starters
<1>2. ASSUME NEW m \in Nodes, DaemonStarts(m)
      PROVE  Cause
  <2>1. m = n
    BY <1>2 DEF DaemonStarts, TypeOK, Running
  <2> QED BY <1>2, <2>1
<1>3. ASSUME NEW m \in Nodes, Drifts(m)
      PROVE  Cause
  BY <1>3 DEF Drifts, TypeOK, Running
<1>4. avail' = avail => Cause
  BY DEF Running
<1>6. \A c \in Calls : ~Unprovisions(c)
  <2>1. \A c \in Calls : Unprovisions(c) => avail'[n] = avail[n] \/ avail'[n] = "down"
    BY DEF Unprovisions
  <2> QED BY <2>1 DEF Running
<1> HIDE DEF Cause
<1>5. Cause
  BY <1>1, <1>2, <1>3, <1>4, <1>6, StepCases DEF CheckPasses, CheckRefuses, Post, PostFails,
     Begins, Clears, Provisions, Deletes, Orchestrated, DaemonLifts, vars
<1> QED BY <1>5 DEF Cause

LEMMA StartersStep ==
    ASSUME TypeOK, OpsKnown, Acquainted, StartersAlone, [Next]_vars
    PROVE  StartersAlone'
<1> SUFFICES ASSUME Page = Nodes, topology' = "failover", ~StartsCrossed',
                    NEW c \in Open' \cap Starters', NEW m \in Nodes \ {node'[c]}, Running(m)'
             PROVE  FALSE
  BY DEF StartersAlone
<1>1. topology = "failover" /\ node' = node /\ ~StartsCrossed /\ c \in Calls /\ m # node[c]
  BY CrossedGrows, CrossedForEver DEF Open
<1>2. CASE c \in Open
  <2>1. c \in Starters
    BY <1>2, CrossedGrows DEF Open, Starters
  <2>2. ~Running(m)
    BY <1>1, <1>2, <2>1 DEF StartersAlone
  <2>3. CASE DaemonStarts(m)
    <3>1. "daemon" \in crossed'[c]
      BY <1>1, <1>2, <2>3 DEF DaemonStarts
    <3>2. c \in Starters'
      OBVIOUS
    <3> QED BY <3>1, <3>2 DEF StartsCrossed
  <2>4. CASE \E d \in Open \cap Starters : Ends(d) /\ node[d] = m
    BY <1>1, <1>2, <2>1, <2>4, TwoStartsCross
  <2> QED BY <2>2, <2>3, <2>4, WhoStarts
<1>3. CASE c \notin Open
  <2>1. pc[c] = "idle"
    BY <1>1, <1>3, StepCases DEF CheckPasses, CheckRefuses, Post, PostFails, Begins, Ends,
       Clears, Provisions, Unprovisions, Deletes, Orchestrated, DaemonStarts, Drifts,
       DaemonLifts, vars, Open, TypeOK
  <2>2. CheckPasses(c)
    BY <1>1, <2>1, StepCases DEF CheckPasses, CheckRefuses, Post, PostFails, Begins, Ends,
       Clears, Provisions, Unprovisions, Deletes, Orchestrated, DaemonStarts, Drifts,
       DaemonLifts, vars, Open, TypeOK
  <2>3. op'[c] \in Starts /\ Allowed(op'[c], node[c])
    BY <2>2 DEF CheckPasses, TypeOK, Starters
  <2>4. ~Running(m)
    BY <1>1, <2>3 DEF Allowed, MayStart
  <2> QED BY <2>2, <2>4 DEF CheckPasses, Running
<1> QED BY <1>2, <1>3

LEMMA OneRunsStep ==
    ASSUME TypeOK, OpsKnown, StartersAlone, OneRunsUnlessCrossed, [Next]_vars
    PROVE  OneRunsUnlessCrossed'
<1> SUFFICES ASSUME Page = Nodes, topology' = "failover", ~StartsCrossed',
                    NEW m \in Nodes, NEW n \in Nodes, Running(m)', Running(n)', m # n
             PROVE  FALSE
  BY DEF OneRunsUnlessCrossed, AloneAtMost
<1>1. topology = "failover" /\ ~StartsCrossed
  BY CrossedGrows, CrossedForEver
<1>2. \A i, j \in Nodes : Running(i) /\ Running(j) => i = j
  BY <1>1 DEF OneRunsUnlessCrossed, AloneAtMost
<1>3. ASSUME NEW i \in Nodes, NEW j \in Nodes, i # j, ~Running(i), Running(i)', Running(j)'
      PROVE  FALSE
  <2>1. CASE DaemonStarts(i)
    <3>1. ~Running(j)
      BY <1>1, <2>1 DEF DaemonStarts
    <3> QED BY <1>3, <2>1, <3>1 DEF DaemonStarts, TypeOK, Running
  <2>2. ASSUME NEW c \in Open \cap Starters, Ends(c), node[c] = i
        PROVE  FALSE
    <3>1. ~Running(j)
      BY <1>1, <1>3, <2>2 DEF StartersAlone
    <3>2. avail'[j] = avail[j]
      BY <1>3, <2>2 DEF Ends, TypeOK
    <3> QED BY <1>3, <3>1, <3>2 DEF Running
  <2> QED BY <1>3, <2>1, <2>2, WhoStarts
<1> QED BY <1>2, <1>3

LEMMA HowChecked ==
    ASSUME TypeOK, [Next]_vars, NEW c \in Calls, pc'[c] \in {"checked", "posted"}
    PROVE  CheckPasses(c) \/ pc[c] \in {"checked", "posted"}
<1> DEFINE Cause == CheckPasses(c) \/ pc[c] \in {"checked", "posted"}
<1>1. ASSUME NEW d \in Calls, CheckPasses(d)
      PROVE  Cause
  <2>1. d # c => pc'[c] = pc[c]
    BY <1>1 DEF CheckPasses, TypeOK
  <2> QED BY <1>1, <2>1
<1>2. \A d \in Calls : CheckRefuses(d) \/ Post(d) \/ PostFails(d) => Cause
  BY DEF CheckRefuses, Post, PostFails, TypeOK
<1>3. \A d \in Calls : Begins(d) \/ Ends(d) \/ Clears(d) => Cause
  BY DEF Begins, Ends, Clears, TypeOK
<1>4. pc' = pc => Cause
  OBVIOUS
<1>6. \A d \in Calls : Provisions(d) \/ Unprovisions(d) \/ Deletes(d) => Cause
  BY DEF Provisions, Unprovisions, Deletes, Orchestrated, TypeOK
<1> HIDE DEF Cause
<1>5. Cause
  BY <1>1, <1>2, <1>3, <1>4, <1>6, StepCases DEF DaemonStarts, Drifts, DaemonLifts, vars
<1> QED BY <1>5 DEF Cause

LEMMA SparesStep ==
    ASSUME TypeOK, OpsKnown, Acquainted, UnprovisionSpares, [Next]_vars
    PROVE  UnprovisionSpares'
<1> SUFFICES ASSUME NEW c \in Calls, pc'[c] \in {"checked", "posted"},
                    NEW n \in Destroyed(c)', Running(n)'
             PROVE  \/ "daemon" \in crossed'[c]
                    \/ \E d \in crossed'[c] \cap Starters' : node'[d] = n
  BY DEF UnprovisionSpares
<1>1. node' = node /\ node[c] \in Nodes
  BY CrossedGrows DEF TypeOK
<1>2. n \in Nodes /\ op'[c] \in {"unprovision", "unprovision_object", "purge"}
  BY <1>1, PageAssumption DEF Destroyed
<1>3. CASE pc[c] = "idle"
  <2>1. CheckPasses(c)
    BY <1>3, HowChecked
  <2>2. Allowed(op'[c], node[c])
    BY <2>1 DEF CheckPasses, TypeOK
  <2>3. op'[c] = "unprovision" => n = node[c]
    BY <1>1 DEF Destroyed
  <2>4. op'[c] # "unprovision" => n \in Page
    BY <1>2 DEF Destroyed
  <2>5. ~Running(n)
    BY <1>2, <2>2, <2>3, <2>4 DEF Allowed, MayUnprovision, MayUnprovisionObject
  <2> QED BY <2>1, <2>5 DEF CheckPasses, Running
<1>4. CASE pc[c] # "idle"
  <2>1. op'[c] = op[c] /\ crossed[c] \subseteq crossed'[c] /\ Starters \subseteq Starters'
    BY <1>4, CrossedGrows
  <2>2. pc[c] \in {"checked", "posted"} /\ c \in Open
    BY <1>4, HowChecked DEF CheckPasses, Open
  <2>6. n \in Destroyed(c)
    BY <1>1, <2>1 DEF Destroyed
  <2>3. CASE Running(n)
    <3>1. \/ "daemon" \in crossed[c]
          \/ \E d \in crossed[c] \cap Starters : node[d] = n
      BY <2>2, <2>3, <2>6 DEF UnprovisionSpares
    <3> QED BY <1>1, <2>1, <3>1
  <2>4. CASE DaemonStarts(n)
    BY <2>2, <2>4 DEF DaemonStarts
  <2>5. ASSUME NEW d \in Open \cap Starters, Ends(d), node[d] = n
        PROVE  \E e \in crossed'[c] \cap Starters' : node'[e] = n
    <3>1. d # c /\ op[c] # "clear"
      BY <1>2, <2>1, <2>5 DEF Starters, Starts
    <3>2. d \in crossed[c]
      BY <2>2, <3>1 DEF Acquainted
    <3> QED BY <1>1, <2>1, <2>5, <3>2
  <2> QED BY <1>2, <2>3, <2>4, <2>5, WhoStarts
<1> QED BY <1>3, <1>4

\* An instance holds something again after the end of a start, after the daemon
\* started it, or after the object was provisioned.
LEMMA WhoRaises ==
    ASSUME TypeOK, OpsKnown, [Next]_vars, NEW n \in Nodes, ~Holding(n), Holding(n)'
    PROVE  \/ \E c \in Open : /\ Ends(c) /\ node[c] = n
                            /\ op[c] \in Starts \cup {"startstandby"}
           \/ \E c \in Open : op[c] = "provision"
           \/ DaemonStarts(n)
<1> DEFINE Cause == \/ \E c \in Open : /\ Ends(c) /\ node[c] = n
                                     /\ op[c] \in Starts \cup {"startstandby"}
                    \/ \E c \in Open : op[c] = "provision"
                    \/ DaemonStarts(n)
<1>1. ASSUME NEW c \in Calls, Ends(c)
      PROVE  Cause
  <2>1. PICK r \in Results(op[c], node[c]) : avail' = [avail EXCEPT ![node[c]] = r[1]]
    BY <1>1 DEF Ends
  <2>2. n \notin provisioned'
    BY <1>1 DEF Ends, Holding
  <2>3. node[c] = n /\ avail[n] = "down" /\ r[1] # "down"
    BY <2>1, <2>2 DEF TypeOK, Holding
  <2>4. op[c] \in Starts \cup {"startstandby"}
    BY <2>1, <2>3, ResultsType
  <2> QED BY <1>1, <2>3, <2>4 DEF Ends, Open
<1>2. ASSUME NEW c \in Calls, Provisions(c)
      PROVE  Cause
  BY <1>2 DEF Provisions, Orchestrated, Open
<1>3. ASSUME NEW m \in Nodes, DaemonStarts(m)
      PROVE  Cause
  <2>1. m = n
    BY <1>3 DEF DaemonStarts, TypeOK, Holding, resources
  <2> QED BY <1>3, <2>1
<1>4. ASSUME NEW m \in Nodes, Drifts(m)
      PROVE  Cause
  BY <1>4 DEF Drifts, TypeOK, Running, Holding, resources
<1>5. ASSUME NEW c \in Calls, Unprovisions(c)
      PROVE  Cause
  BY <1>5 DEF Unprovisions, Running, Holding
<1>6. avail' = avail /\ provisioned' = provisioned => Cause
  BY DEF Holding
<1> HIDE DEF Cause
<1>7. Cause
  BY <1>1, <1>2, <1>3, <1>4, <1>5, <1>6, StepCases DEF CheckPasses, CheckRefuses, Post,
     PostFails, Begins, Clears, Deletes, DaemonLifts, vars, resources
<1> QED BY <1>7 DEF Cause

LEMMA DeleteStep ==
    ASSUME TypeOK, OpsKnown, Acquainted, DeleteLeavesNothing, [Next]_vars
    PROVE  DeleteLeavesNothing'
<1> DEFINE Raised(d, n) == op[d] = "provision" \/ (node[d] = n /\ op[d] \in Starts \cup {"startstandby"})
<1> SUFFICES ASSUME NEW c \in Calls, op'[c] = "delete", pc'[c] \in {"checked", "posted"},
                    NEW n \in Page, Holding(n)'
             PROVE  "daemon" \in crossed'[c] \/ \E d \in crossed'[c] \cap Calls : Raised(d, n)'
  BY DEF DeleteLeavesNothing
<1>1. node' = node /\ n \in Nodes
  BY CrossedGrows, PageAssumption
<1>2. CASE pc[c] = "idle"
  <2>1. CheckPasses(c)
    BY <1>2, HowChecked
  <2>2. Allowed("delete", node[c])
    BY <2>1 DEF CheckPasses, TypeOK
  <2>3. ~Holding(n)
    BY <2>2 DEF Allowed, MayDelete
  <2> QED BY <2>1, <2>3 DEF CheckPasses, Holding, resources
<1>3. CASE pc[c] # "idle"
  <2>1. op[c] = "delete" /\ crossed[c] \subseteq crossed'[c]
    BY <1>3, CrossedGrows
  <2>2. pc[c] \in {"checked", "posted"} /\ c \in Open
    BY <1>3, HowChecked DEF CheckPasses, Open
  <2>3. \A d \in Calls : Raised(d, n) => Raised(d, n)'
    <3>1. ASSUME NEW d \in Calls, op[d] # "none"
          PROVE  op'[d] = op[d]
      BY <3>1, CrossedGrows DEF OpsKnown
    <3> QED BY <1>1, <3>1 DEF Starts
  <2>4. CASE Holding(n)
    <3>1. "daemon" \in crossed[c] \/ \E d \in crossed[c] \cap Calls : Raised(d, n)
      BY <2>1, <2>2, <2>4 DEF DeleteLeavesNothing
    <3> QED BY <2>1, <2>3, <3>1
  <2>5. CASE DaemonStarts(n)
    BY <2>2, <2>5 DEF DaemonStarts
  <2>6. ASSUME NEW d \in Open, Raised(d, n)
        PROVE  \E e \in crossed'[c] \cap Calls : Raised(e, n)'
    <3>1. d # c /\ d \in Calls
      BY <2>1, <2>6 DEF Starts, Open
    <3>2. d \in crossed[c]
      BY <2>1, <2>2, <3>1 DEF Acquainted
    <3> QED BY <2>1, <2>3, <2>6, <3>1, <3>2
  <2>7. \/ Holding(n)
        \/ DaemonStarts(n)
        \/ \E d \in Open : Raised(d, n)
    BY <1>1, WhoRaises
  <2> QED BY <2>4, <2>5, <2>6, <2>7
<1> QED BY <1>2, <1>3

LEMMA ShutdownStep ==
    ASSUME TypeOK, OpsKnown, Acquainted, ShutdownIsHeld, [Next]_vars
    PROVE  ShutdownIsHeld'
<1> DEFINE Under(c) == pc[c] \in {"checked", "posted", "running"}
<1> SUFFICES ASSUME NEW c \in Calls, op'[c] = "shutdown", Under(c)', node'[c] \notin frozen'
             PROVE  \E d \in crossed'[c] \cap Calls : op'[d] = "unfreeze" /\ node'[d] = node'[c]
  BY DEF ShutdownIsHeld
<1>1. node' = node
  BY CrossedGrows
<1>2. \/ CheckPasses(c)
      \/ Under(c)
  <2>1. ASSUME NEW d \in Calls, CheckPasses(d)
        PROVE  CheckPasses(c) \/ Under(c)
    <3>1. d # c => pc'[c] = pc[c]
      BY <2>1 DEF CheckPasses, TypeOK
    <3> QED BY <2>1, <3>1
  <2>2. \A d \in Calls : CheckRefuses(d) \/ Post(d) \/ PostFails(d) \/ Begins(d) \/ Ends(d) \/ Clears(d)
            => Under(c)
    BY DEF CheckRefuses, Post, PostFails, Begins, Ends, Clears, TypeOK
  <2>3. \A d \in Calls : Provisions(d) \/ Unprovisions(d) \/ Deletes(d) => Under(c)
    BY DEF Provisions, Unprovisions, Deletes, Orchestrated, TypeOK
  <2>4. pc' = pc => Under(c)
    OBVIOUS
  <2> HIDE DEF Under
  <2> QED BY <2>1, <2>2, <2>3, <2>4, StepCases DEF DaemonStarts, Drifts, DaemonLifts, vars
<1>3. CASE CheckPasses(c)
  <2>1. Allowed("shutdown", node[c])
    BY <1>3 DEF CheckPasses, TypeOK
  <2> QED BY <1>3, <1>1, <2>1 DEF Allowed, MayShutdown, CheckPasses, resources
<1>4. CASE Under(c)
  <2>1. op[c] = "shutdown" /\ crossed[c] \subseteq crossed'[c] /\ c \in Open
    BY <1>4, CrossedGrows DEF Open
  <2>2. \A d \in Calls : op[d] = "unfreeze" => op'[d] = "unfreeze"
    BY CrossedGrows DEF OpsKnown
  <2>3. CASE node[c] \notin frozen
    BY <1>1, <1>4, <2>1, <2>2, <2>3 DEF ShutdownIsHeld
  <2>4. CASE node[c] \in frozen
    <3>1. \E d \in Calls : Ends(d) /\ op[d] = "unfreeze" /\ node[d] = node[c]
      <4>1. \A d \in Calls : Ends(d) => op[d] = "unfreeze" /\ node[d] = node[c]
        BY <1>1, <2>4 DEF Ends
      <4>2. frozen' # frozen
        BY <1>1, <2>4
      <4> QED BY <4>1, <4>2, StepCases DEF CheckPasses, CheckRefuses, Post, PostFails, Begins,
             Clears, Provisions, Unprovisions, Deletes, Orchestrated, DaemonStarts, Drifts,
             DaemonLifts, vars, resources
    <3>2. PICK d \in Calls : Ends(d) /\ op[d] = "unfreeze" /\ node[d] = node[c]
      BY <3>1
    <3>3. d # c /\ d \in Open
      BY <2>1, <3>2 DEF Ends, Open
    <3>4. d \in crossed[c]
      BY <2>1, <3>3 DEF Acquainted
    <3> QED BY <1>1, <2>1, <2>2, <3>2, <3>4
  <2> QED BY <2>3, <2>4
<1> QED BY <1>2, <1>3, <1>4

-----------------------------------------------------------------------------
LEMMA GuardInit == Init => GuardInv
<1> SUFFICES ASSUME Init PROVE GuardInv
  OBVIOUS
<1>1. TypeOK
  BY ScenariosAssumption DEF Init, TypeOK
<1>2. Open = {} /\ Starters = {}
  BY DEF Init, Open, Starters, Starts
<1>3. OpsKnown /\ OneAction /\ Acquainted /\ StartersAlone
  BY <1>2 DEF Init, OpsKnown, OneAction, Acquainted, StartersAlone
<1>4. OneRunsUnlessCrossed
  BY DEF Init, OneRunsUnlessCrossed
<1>5. UnprovisionSpares /\ ClearSeesAction
  BY DEF Init, UnprovisionSpares, ClearSeesAction
<1>6. DeleteLeavesNothing /\ ShutdownIsHeld
  BY DEF Init, DeleteLeavesNothing, ShutdownIsHeld
<1> QED BY <1>1, <1>3, <1>4, <1>5, <1>6 DEF GuardInv

LEMMA GuardStep == GuardInv /\ [Next]_vars => GuardInv'
  BY TypeStep, OpsStep, OneActionStep, AcquaintedStep, StartersStep, OneRunsStep,
     SparesStep, ClearSeesStep, DeleteStep, ShutdownStep DEF GuardInv

\* A failover service runs on two nodes only after two starts crossed, when the
\* guards see every instance: whatever the number of callers, of nodes, and
\* whatever else is run on the instances.
THEOREM FailoverRunsOnce == Spec => [](TypeOK /\ OneRunsUnlessCrossed)
<1>1. GuardInv => TypeOK /\ OneRunsUnlessCrossed
  BY DEF GuardInv
<1> QED BY <1>1, GuardInit, GuardStep, PTL DEF Spec

\* An unprovision reaches a running instance only when a start of it crossed.
THEOREM UnprovisionSparesRunning == Spec => []UnprovisionSpares
<1>1. GuardInv => UnprovisionSpares
  BY DEF GuardInv
<1> QED BY <1>1, GuardInit, GuardStep, PTL DEF Spec

\* A clear is set under an action only when it was posted before the action ran.
THEOREM ClearSparesActions == Spec => []ClearSeesAction
<1>1. GuardInv => ClearSeesAction
  BY DEF GuardInv
<1> QED BY <1>1, GuardInit, GuardStep, PTL DEF Spec
\* A delete leaves an instance behind only when its start, the daemon's or the
\* provision of the object crossed.
THEOREM DeletesLeaveNothing == Spec => []DeleteLeavesNothing
<1>1. GuardInv => DeleteLeavesNothing
  BY DEF GuardInv
<1> QED BY <1>1, GuardInit, GuardStep, PTL DEF Spec

\* An instance is shut down unfrozen only when its unfreeze crossed.
THEOREM ShutdownsAreHeld == Spec => []ShutdownIsHeld
<1>1. GuardInv => ShutdownIsHeld
  BY DEF GuardInv
<1> QED BY <1>1, GuardInit, GuardStep, PTL DEF Spec
=============================================================================
