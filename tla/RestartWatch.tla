---------------------------- MODULE RestartWatch ----------------------------
(***************************************************************************)
(* The tools that restart a component of the daemon of one node and watch  *)
(* for the restart in the node status: RestartDaemon, the listener         *)
(* (RestartDaemonListener) and the two streams of a heartbeat, restarted   *)
(* or started (RunHeartbeatAction).  The daemon gives no id to follow such *)
(* an action by: the tool reads the node before it, and takes for its      *)
(* restart the first running component that is not the one it had read.    *)
(* The node status is the view of the daemon the tool talks to, which      *)
(* receives it late.  Other actors restart the same components meanwhile.  *)
(***************************************************************************)
EXTENDS Naturals, FiniteSets

CONSTANTS
    Calls,      \* the tool calls
    MaxEvents   \* bound: the restarts and changes of components in a behaviour

ASSUME MaxEventsAssumption == MaxEvents \in Nat \ {0}

VARIABLES
    clock,      \* the number of the last event on a component of the node
    status,     \* status[k]: component k of the node, as it is
    view,       \* view[k]: component k, as the daemon the tools talk to has it
    kind,       \* kind[c]: the tool called
    pc,         \* pc[c]: where the call is; its last value is its answer
    request,    \* request[c]: whether the context of the caller is alive
    waitOver,   \* waitOver[c]: whether the deadline of the wait passed
    action,     \* action[c]: what became of the action on the node
    postError,  \* postError[c]: whether the post returned an error
    before,     \* before[c]: the components read before the action
    poll,       \* poll[c]: what pollNodeStatus keeps: last read, last error
    asked,      \* history: the last event when the tool c was called
    doubt       \* history: something else than its action may be what c sees

vars == <<clock, status, view, kind, pc, request, waitOver, action, postError,
          before, poll, asked, doubt>>

Streams == {"rx", "tx"}
Components == {"daemon", "listener"} \cup Streams

\* The components a tool acts on and reads again.
Addressed(c) ==
    CASE kind[c] = "daemon"   -> {"daemon"}
      [] kind[c] = "listener" -> {"listener"}
      [] OTHER                -> Streams

\* A component absent has no times; 0 stands for the empty time.
Times == 0 .. MaxEvents
States == [state : {"running", "failed", "absent"}, created : Times, updated : Times]
Absent == [state |-> "absent", created |-> 0, updated |-> 0]

NothingRead == [error |-> FALSE, completed |-> FALSE, last |-> [k \in Components |-> Absent]]

TypeOK ==
    /\ clock \in 1 .. MaxEvents
    /\ status \in [Components -> States]
    /\ view \in [Components -> States]
    /\ kind \in [Calls -> {"daemon", "listener", "restart", "start"}]
    /\ pc \in [Calls -> {"start", "posting", "waiting", "reading", "error", "done"}]
    /\ request \in [Calls -> {"live", "over"}]
    /\ waitOver \in [Calls -> BOOLEAN]
    /\ action \in [Calls -> {"none", "queued", "ran"}]
    /\ postError \in [Calls -> BOOLEAN]
    /\ before \in [Calls -> [Components -> States]]
    /\ poll \in [Calls -> [error : BOOLEAN, completed : BOOLEAN,
                           last : [Components -> States]]]
    /\ asked \in [Calls -> 0 .. MaxEvents]
    /\ doubt \in [Calls -> BOOLEAN]

\* The node runs its components, but one stream may be stopped or failed.
Fresh == [state |-> "running", created |-> 1, updated |-> 1]

Init ==
    /\ clock = 1
    /\ \E rx \in {Fresh, Absent, [Fresh EXCEPT !.state = "failed"]} :
          status = [k \in Components |-> IF k = "rx" THEN rx ELSE Fresh]
    /\ view = status
    /\ kind \in [Calls -> {"daemon", "listener", "restart", "start"}]
    /\ pc = [c \in Calls |-> "start"]
    /\ request = [c \in Calls |-> "live"]
    /\ waitOver = [c \in Calls |-> FALSE]
    /\ action = [c \in Calls |-> "none"]
    /\ postError = [c \in Calls |-> FALSE]
    /\ before = [c \in Calls |-> [k \in Components |-> Absent]]
    /\ poll = [c \in Calls |-> NothingRead]
    /\ asked = [c \in Calls |-> 0]
    /\ doubt = [c \in Calls |-> FALSE]

Goto(c, place) == pc' = [pc EXCEPT ![c] = place]

-----------------------------------------------------------------------------
(* Bugs the operators and actions below could have, for mutation runs.      *)

\* A stream changed by a peer is taken for a stream restarted.
RenewedByUpdate(c, k, read) == read[k].updated # before[c][k].updated

\* A restart that was not seen is an error, its request accepted or not.
AnswerWhenSeen(c, completed) == IF completed THEN "done" ELSE "error"

\* The end of the wait is an answer of its own.
AnswerTimeout(c, completed) == IF completed THEN "done" ELSE "timeout"

\* The end of the wait is only seen through the context of the caller.
WaitEndsWithCaller(c) ==
    /\ pc[c] = "waiting"
    /\ request[c] = "over"
    /\ Goto(c, "done")
    /\ UNCHANGED <<clock, status, view, kind, request, waitOver, action, postError,
                   before, poll, asked, doubt>>

-----------------------------------------------------------------------------
(* The node.                                                               *)

\* The components ks registered again, by the present event: a restart runs
\* or fails to start again.  The listener keeps its creation time when it is
\* restarted alone.
Restamped(ks, ends) ==
    [k \in Components |->
        IF k \notin ks THEN status[k]
        ELSE [state   |-> ends[k],
              created |-> IF ks = {"listener"} THEN status[k].created ELSE clock',
              updated |-> clock']]

\* The time a restart always moves.
StartOf(k, component) == IF k = "listener" THEN component.updated ELSE component.created

\* What an action registers again: a restart of the daemon all it runs, a
\* start of a heartbeat the streams that do not run.
Renews(c) ==
    CASE kind[c] = "daemon" -> Components
      [] kind[c] = "start"  -> {k \in Streams : status[k].state # "running"}
      [] OTHER              -> Addressed(c)

\* The calls that may take the components ks renewed for their own doing.
Doubted(ks, calls) ==
    [c \in Calls |-> \/ doubt[c]
                     \/ /\ c \in calls
                        /\ pc[c] # "start"
                        /\ Addressed(c) \cap ks # {}]

\* The daemon, or its janitor, runs an action it queued.
Runs(c) ==
    /\ action[c] = "queued"
    /\ clock < MaxEvents
    /\ clock' = clock + 1
    /\ \E ends \in [Components -> {"running", "failed"}] :
          /\ ends["daemon"] = "running"
          /\ status' = Restamped(Renews(c), ends)
    /\ action' = [action EXCEPT ![c] = "ran"]
    /\ doubt' = Doubted(Renews(c), Calls \ {c})
    /\ UNCHANGED <<view, kind, pc, request, waitOver, postError, before, poll, asked>>

\* Another actor restarts the daemon, the listener or a stream: an operator,
\* another call, a crash.
OtherRestarts ==
    /\ clock < MaxEvents
    /\ clock' = clock + 1
    /\ \E ks \in {Components} \cup {{k} : k \in Components \ {"daemon"}} :
          /\ status' = Restamped(ks, [k \in Components |-> "running"])
          /\ doubt' = Doubted(ks, Calls)
    /\ UNCHANGED <<view, kind, pc, request, waitOver, action, postError, before,
                   poll, asked>>

\* A peer of a stream changes, which moves its update time.
PeerChanges ==
    /\ clock < MaxEvents
    /\ clock' = clock + 1
    /\ \E k \in Streams :
          /\ status[k].state = "running"
          /\ status' = [status EXCEPT ![k].updated = clock']
    /\ UNCHANGED <<view, kind, pc, request, waitOver, action, postError, before,
                   poll, asked, doubt>>

\* The status of the node reaches the daemon the tools talk to.
ViewArrives ==
    /\ view # status
    /\ view' = status
    /\ UNCHANGED <<clock, status, kind, pc, request, waitOver, action, postError,
                   before, poll, asked, doubt>>

\* The post reaches the daemon, which queues the action, a post the tool gave
\* up on too.
Queues(c) ==
    /\ pc[c] = "posting" \/ postError[c]
    /\ action[c] = "none"
    /\ action' = [action EXCEPT ![c] = "queued"]
    /\ UNCHANGED <<clock, status, view, kind, pc, request, waitOver, postError,
                   before, poll, asked, doubt>>

-----------------------------------------------------------------------------
(* The tools.                                                              *)

\* What a read of the node gives the tool: the components it acts on.
Read(c) == [k \in Components |-> IF k \in Addressed(c) THEN view[k] ELSE Absent]

\* Invalid arguments, or a node that cannot be read, or is not published.
Refuse(c) ==
    /\ pc[c] = "start"
    /\ Goto(c, "error")
    /\ UNCHANGED <<clock, status, view, kind, request, waitOver, action, postError,
                   before, poll, asked, doubt>>

ReadBefore(c) ==
    /\ pc[c] = "start"
    /\ before' = [before EXCEPT ![c] = Read(c)]
    /\ asked' = [asked EXCEPT ![c] = clock]
    /\ doubt' = [doubt EXCEPT ![c] =
                    \E k \in Addressed(c) : StartOf(k, view[k]) # StartOf(k, status[k])]
    /\ Goto(c, "posting")
    /\ UNCHANGED <<clock, status, view, kind, request, waitOver, action, postError, poll>>

Posted(c) ==
    /\ pc[c] = "posting"
    /\ action[c] # "none"
    /\ Goto(c, "waiting")
    /\ UNCHANGED <<clock, status, view, kind, request, waitOver, action, postError,
                   before, poll, asked, doubt>>

\* The post has no answer, or a refusal.  The listener may have closed the
\* connection while it restarted: it is read again all the same.
PostFails(c) ==
    /\ pc[c] = "posting"
    /\ postError' = [postError EXCEPT ![c] = TRUE]
    /\ Goto(c, IF kind[c] = "listener" THEN "waiting" ELSE "error")
    /\ UNCHANGED <<clock, status, view, kind, request, waitOver, action, before,
                   poll, asked, doubt>>

\* The answer of the call once the polls ended: a post that failed is an
\* error unless the component was seen restarted.
Answer(c, completed) == IF postError[c] /\ ~completed THEN "error" ELSE "done"

\* A component other than the one read before the action.  A stream is
\* compared by its creation, which a change of a peer leaves alone, the
\* listener by both times.  (A daemon that gives a stream no creation time, for
\* which the code takes its update, is left out.)
Renewed(c, k, read) ==
    \/ read[k].created # before[c][k].created
    \/ k = "listener" /\ read[k].updated # before[c][k].updated

Seen(c, read) ==
    \A k \in Addressed(c) :
        /\ read[k].state = "running"
        /\ kind[c] # "start" => Renewed(c, k, read)

Poll(c) ==
    /\ pc[c] = "waiting"
    /\ request[c] = "live"
    /\ ~waitOver[c]
    /\ Goto(c, "reading")
    /\ UNCHANGED <<clock, status, view, kind, request, waitOver, action, postError,
                   before, poll, asked, doubt>>

\* The context of the wait is done.  A read whose timer fired at the same time
\* failed before.
WaitEnds(c) ==
    /\ pc[c] = "waiting"
    /\ request[c] = "over" \/ waitOver[c]
    /\ poll' \in {poll, [poll EXCEPT ![c].error = TRUE]}
    /\ Goto(c, Answer(c, FALSE))
    /\ UNCHANGED <<clock, status, view, kind, request, waitOver, action, postError,
                   before, asked, doubt>>

ReadAnswers(c) ==
    /\ pc[c] = "reading"
    /\ poll' = [poll EXCEPT ![c] = [error |-> FALSE, completed |-> Seen(c, Read(c)),
                                    last |-> Read(c)]]
    /\ Goto(c, IF Seen(c, Read(c)) THEN "done" ELSE "waiting")
    /\ UNCHANGED <<clock, status, view, kind, request, waitOver, action, postError,
                   before, asked, doubt>>

\* A read that fails does not end the wait, as the API of the node restarts,
\* unless the caller left.
ReadFails(c) ==
    /\ pc[c] = "reading"
    /\ poll' = [poll EXCEPT ![c].error = TRUE]
    /\ Goto(c, IF request[c] = "over" THEN Answer(c, FALSE) ELSE "waiting")
    /\ UNCHANGED <<clock, status, view, kind, request, waitOver, action, postError,
                   before, asked, doubt>>

\* The caller leaves, or its connection breaks.
RequestEnds(c) ==
    /\ pc[c] \notin {"error", "done"}
    /\ request[c] = "live"
    /\ request' = [request EXCEPT ![c] = "over"]
    /\ UNCHANGED <<clock, status, view, kind, pc, waitOver, action, postError,
                   before, poll, asked, doubt>>

WaitExpires(c) ==
    /\ pc[c] \in {"waiting", "reading"}
    /\ ~waitOver[c]
    /\ waitOver' = [waitOver EXCEPT ![c] = TRUE]
    /\ UNCHANGED <<clock, status, view, kind, pc, request, action, postError,
                   before, poll, asked, doubt>>

-----------------------------------------------------------------------------
CallStep(c) ==
    \/ Refuse(c) \/ ReadBefore(c) \/ Posted(c) \/ PostFails(c)
    \/ Poll(c) \/ WaitEnds(c) \/ ReadAnswers(c) \/ ReadFails(c)

Next ==
    \/ \E c \in Calls : CallStep(c) \/ Runs(c) \/ Queues(c)
                        \/ RequestEnds(c) \/ WaitExpires(c)
    \/ OtherRestarts \/ PeerChanges \/ ViewArrives

SafeSpec == Init /\ [][Next]_vars

\* The steps of a call are returns, timers, and requests the client bounds; the
\* node may never run an action, nor its status arrive.
Spec == SafeSpec /\ \A c \in Calls : WF_vars(CallStep(c)) /\ WF_vars(WaitExpires(c))
-----------------------------------------------------------------------------
(* Properties.                                                             *)

Completed(c) == pc[c] = "done" /\ poll[c].completed

\* A restart told completed is the one asked, of every component addressed,
\* each registered later than read before, unless another restarted one of them
\* since that read or the view was late at that read (pollNodeStatus and the
\* conditions RestartDaemon, RestartDaemonListener, RunHeartbeatAction give it).
CompletedIsOwnRestart ==
    \A c \in Calls :
        Completed(c) /\ kind[c] # "start" /\ ~doubt[c] =>
            /\ action[c] = "ran"
            /\ \A k \in Addressed(c) :
                  StartOf(k, poll[c].last[k]) > StartOf(k, before[c][k])

\* An action the daemon accepted is never answered by an error, seen done or
\* not; one whose post failed is a result only when the listener was seen
\* restarted, and a restart not seen has its reason, the wait or the caller.
ErrorsAreOfThePost ==
    \A c \in Calls :
        /\ pc[c] = "error" /\ action[c] # "none" => postError[c]
        /\ pc[c] = "done" /\ postError[c] => kind[c] = "listener" /\ poll[c].completed
        /\ pc[c] = "done" /\ ~poll[c].completed => waitOver[c] \/ request[c] = "over"

\* Every call is answered, whatever the node does: reads that fail while the
\* daemon restarts do not end the wait, its deadline does (pollNodeStatus).
EveryCallAnswered ==
    \A c \in Calls : pc[c] = "start" ~> pc[c] \in {"error", "done"}

\* DaemonRestart.Restarted: "whether a daemon started after the request was
\* seen within the wait".
RestartedAfterRequest ==
    \A c \in Calls :
        Completed(c) /\ kind[c] = "daemon" => poll[c].last["daemon"].created > asked[c]
=============================================================================
