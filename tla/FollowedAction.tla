--------------------------- MODULE FollowedAction ---------------------------
(***************************************************************************)
(* What a tool that has a daemon run an action promises its caller.  The   *)
(* daemon runs the action of a call at most once; the caller is told one   *)
(* thing, once:                                                            *)
(*   - "refused": the action did not run and never will;                   *)
(*   - "unknown": an error, which says nothing of the action;              *)
(*   - "accepted": the action runs or ran, its end is not known;           *)
(*   - an ending: the action ended, that way.                              *)
(* ActionFollow implements it.                                             *)
(***************************************************************************)
CONSTANTS
    Calls,      \* the tool calls, one action each
    Endings     \* how an action ends

VARIABLES
    ran,        \* ran[c]: what became of the action of c on the node
    told        \* told[c]: what the caller of c was told

vars == <<ran, told>>

Init ==
    /\ ran = [c \in Calls |-> "no"]
    /\ told = [c \in Calls |-> "nothing"]

\* The node runs the action; never after the caller was told it refused it.
Run(c) ==
    /\ ran[c] = "no"
    /\ told[c] \in {"nothing", "unknown"}
    /\ ran' = [ran EXCEPT ![c] = "running"]
    /\ UNCHANGED told

Finish(c) ==
    /\ ran[c] = "running"
    /\ \E end \in Endings : ran' = [ran EXCEPT ![c] = end]
    /\ UNCHANGED told

\* What the caller may be told in the present state of its action.
Tellable(c) ==
    {"unknown"} \cup (CASE ran[c] = "no"      -> {"refused"}
                        [] ran[c] = "running" -> {"accepted"}
                        [] OTHER              -> {"accepted", ran[c]})

Tell(c) ==
    /\ told[c] = "nothing"
    /\ \E answer \in Tellable(c) : told' = [told EXCEPT ![c] = answer]
    /\ UNCHANGED ran

Next == \E c \in Calls : Run(c) \/ Finish(c) \/ Tell(c)

SafeSpec == Init /\ [][Next]_vars

Spec == SafeSpec /\ \A c \in Calls : WF_vars(Tell(c))
=============================================================================
