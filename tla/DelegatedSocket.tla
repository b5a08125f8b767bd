-------------------------- MODULE DelegatedSocket --------------------------
(***************************************************************************)
(* The Unix socket of the delegated listener, across the processes of the  *)
(* server that start, stop and crash on one host (listenDelegated, main).  *)
(* A process looks at the path, asks whether anyone listens there, removes *)
(* a stale socket, binds its own and restricts it.  The system calls are   *)
(* separate steps: nothing locks the path between them.                    *)
(***************************************************************************)
EXTENDS Naturals

CONSTANT Processes  \* the processes of the server, each run once

ASSUME ProcessesAssumption == Processes \cap {"absent", "file"} = {}

VARIABLES
    path,       \* what is at the path: nothing, a file, the socket of a process
    listening,  \* listening[p]: whether p accepts connections on its socket
    pc,         \* pc[p]: where process p is
    doubt       \* history: the path changed under a process that was starting

vars == <<path, listening, pc, doubt>>

StartingPlaces == {"inspect", "dial", "remove", "bind", "listen", "restrict"}

TypeOK ==
    /\ path \in {"absent", "file"} \cup Processes
    /\ listening \in [Processes -> BOOLEAN]
    /\ pc \in [Processes -> StartingPlaces \cup
                            {"off", "serving", "stopping", "draining", "refused", "exited"}]
    /\ doubt \in BOOLEAN

Init ==
    /\ path \in {"absent", "file"}
    /\ listening = [p \in Processes |-> FALSE]
    /\ pc = [p \in Processes |-> "off"]
    /\ doubt = FALSE

Goto(p, place) == pc' = [pc EXCEPT ![p] = place]

Starting == {p \in Processes : pc[p] \in StartingPlaces}

\* Somebody listens at the path.
Answers == path \in Processes /\ listening[path]

-----------------------------------------------------------------------------
(* Bugs the actions below could have, for mutation runs.                    *)

\* A socket is taken for stale without asking.
DialSkipped(p) ==
    /\ pc[p] = "dial"
    /\ Goto(p, "remove")
    /\ UNCHANGED <<path, listening, doubt>>

\* The process waits for the one that listens to leave.
DialWaits(p) ==
    /\ pc[p] = "dial"
    /\ ~Answers
    /\ Goto(p, "remove")
    /\ UNCHANGED <<path, listening, doubt>>

\* Any file at the path is taken for a socket.
InspectAnyFile(p) ==
    /\ pc[p] = "inspect"
    /\ Goto(p, IF path = "absent" THEN "bind" ELSE "dial")
    /\ UNCHANGED <<path, listening, doubt>>

\* A stale socket is refused as any other file is.
InspectRefusesStale(p) ==
    /\ pc[p] = "inspect"
    /\ Goto(p, IF path = "absent" THEN "bind" ELSE "refused")
    /\ UNCHANGED <<path, listening, doubt>>

-----------------------------------------------------------------------------
(* The start.                                                              *)

Start(p) ==
    /\ pc[p] = "off"
    /\ Goto(p, "inspect")
    /\ doubt' = (doubt \/ Starting # {})
    /\ UNCHANGED <<path, listening>>

Inspect(p) ==
    /\ pc[p] = "inspect"
    /\ Goto(p, CASE path = "absent" -> "bind"
                 [] path = "file"   -> "refused"
                 [] OTHER           -> "dial")
    /\ UNCHANGED <<path, listening, doubt>>

\* Whoever answers is left alone.  A listener whose queue is full, or that is
\* stuck, does not answer.
Dial(p) ==
    /\ pc[p] = "dial"
    /\ \/ /\ Answers
          /\ Goto(p, "refused")
          /\ UNCHANGED doubt
       \/ /\ Goto(p, "remove")
          /\ doubt' = (doubt \/ Answers)
    /\ UNCHANGED <<path, listening>>

\* Whatever is at the path now is removed.
Remove(p) ==
    /\ pc[p] = "remove"
    /\ Goto(p, IF path = "absent" THEN "refused" ELSE "bind")
    /\ path' = "absent"
    /\ UNCHANGED <<listening, doubt>>

Bind(p) ==
    /\ pc[p] = "bind"
    /\ Goto(p, IF path = "absent" THEN "listen" ELSE "refused")
    /\ path' = IF path = "absent" THEN p ELSE path
    /\ UNCHANGED <<listening, doubt>>

Listen(p) ==
    /\ pc[p] = "listen"
    /\ listening' = [listening EXCEPT ![p] = TRUE]
    /\ Goto(p, "restrict")
    /\ UNCHANGED <<path, doubt>>

\* The mode is set by name; without anything at the path the listener is
\* closed and the start refused.
RestrictMode(p) ==
    /\ pc[p] = "restrict"
    /\ Goto(p, IF path = "absent" THEN "refused" ELSE "serving")
    /\ listening' = [listening EXCEPT ![p] = path # "absent"]
    /\ UNCHANGED <<path, doubt>>

-----------------------------------------------------------------------------
(* The end.                                                                *)

\* The servers are shut down one after the other: while the HTTPS one, when
\* there is one, drains, the socket goes on answering.
Signal(p) ==
    /\ pc[p] = "serving"
    /\ Goto(p, "stopping")
    /\ UNCHANGED <<path, listening, doubt>>

\* The shutdown closes the listener, which removes the path by its name, then
\* waits for the requests under way, 30 seconds at most.  Unlink and close are one
\* step: between them the socket has no name left, so no start can reach it.
Close(p) ==
    /\ pc[p] = "stopping"
    /\ listening' = [listening EXCEPT ![p] = FALSE]
    /\ path' = "absent"
    /\ Goto(p, "draining")
    /\ doubt' = (doubt \/ Starting # {})

Drained(p) ==
    /\ pc[p] = "draining"
    /\ Goto(p, "exited")
    /\ UNCHANGED <<path, listening, doubt>>

\* A crash, a kill, a second signal, or the end of the HTTPS server, which is fatal: the socket
\* stays at the path and nobody listens.
Crash(p) ==
    /\ pc[p] \in StartingPlaces \cup {"serving", "stopping", "draining"}
    /\ listening' = [listening EXCEPT ![p] = FALSE]
    /\ Goto(p, "exited")
    /\ UNCHANGED <<path, doubt>>

\* Somebody puts a file of another kind at the path.
FilePut ==
    /\ path = "absent"
    /\ path' = "file"
    /\ UNCHANGED <<listening, pc, doubt>>

StartStep(p) ==
    Inspect(p) \/ Dial(p) \/ Remove(p) \/ Bind(p) \/ Listen(p) \/ RestrictMode(p)

Next ==
    \/ \E p \in Processes : Start(p) \/ StartStep(p) \/ Signal(p) \/ Close(p) \/ Drained(p) \/ Crash(p)
    \/ FilePut

\* The system calls of a start return, the dial after a second at most, and the
\* drain of each server has a deadline.
Spec ==
    /\ Init /\ [][Next]_vars
    /\ \A p \in Processes : WF_vars(StartStep(p)) /\ WF_vars(Close(p)) /\ WF_vars(Drained(p))
-----------------------------------------------------------------------------
(* Properties.                                                             *)

\* A process that serves is reached at the path, so it is the only one, unless
\* another was starting while the path changed, or did not get its answer
\* (listenDelegated: a live socket at the path is refused).
LiveSocketIsReached ==
    ~doubt => \A p \in Processes : listening[p] => path = p

\* No start and no stop removes a file that is not a socket of the server.
OtherFilesAreKept ==
    [][path = "file" /\ ~doubt => path' = "file"]_vars

\* A start is refused for somebody who listens or for a file, never for the
\* socket a process left.
RefusedForCause ==
    [][\A p \in Processes :
          pc[p] # "refused" /\ pc'[p] = "refused" /\ ~doubt' =>
              Answers \/ path = "file"]_vars

\* A start comes to its end, and so does a stop, the two servers of a process
\* being shut down one after the other (shutdownHTTPServer).
StartsAndStopsEnd ==
    \A p \in Processes :
        /\ pc[p] = "inspect" ~> pc[p] \in {"serving", "refused", "draining", "exited"}
        /\ pc[p] = "stopping" ~> pc[p] = "exited"
=============================================================================
