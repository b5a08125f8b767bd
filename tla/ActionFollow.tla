---------------------------- MODULE ActionFollow ----------------------------
(***************************************************************************)
(* The tools that have a daemon run an action and follow it a bounded      *)
(* time: they check the target with a read, post the action, then poll     *)
(* what the daemon made of it.                                             *)
(*   - Executions: the calls whose action the node forks as an execution,  *)
(*     runNodeExec and RunInstanceAction, followed by waitExecution.       *)
(*   - Orchestrations: the calls the node monitor orchestrates, AbortNode, *)
(*     DrainNode and RunClusterAction, followed by waitNodeOrchestration;  *)
(*     the last two, both of kind "drain", read their target again then.   *)
(* Each read is split in the request (Poll), the daemon building its       *)
(* answer (DaemonAnswers) and its use, so that the answer may be old when  *)
(* it is used.  Time is not counted: the wait and the request may end at   *)
(* any moment, the delay between two polls is any delay.                   *)
(***************************************************************************)
EXTENDS Naturals

CONSTANTS
    Calls,      \* the tool calls, one action each
    Endings,    \* how an action ends, as the daemon reports it
    Successes   \* the endings that are not failures: an exit code of 0

\* An answer of the daemon to a read that tells nothing of the action.
NoNews == {"gone", "forbidden", "broken", "invalid"}

ASSUME EndingsAssumption ==
    /\ Successes \subseteq Endings
    /\ Endings \cap (NoNews \cup {"nothing", "refused", "unknown", "accepted",
                                  "no", "none", "running", "unread"}) = {}

VARIABLES
    kind,     \* kind[c]: the tool called, by the way it follows its action
    pc,       \* pc[c]: where the call is; its last value is its answer
    exec,     \* exec[c]: what became of the action on the node
    memory,   \* memory[c]: whether the daemon can be asked about the action
    request,  \* request[c]: whether the context of the caller is alive
    waitOver, \* waitOver[c]: whether the deadline of the wait passed
    reply,    \* reply[c]: the answer to the read in flight
    outcome   \* outcome[c]: what the call read of its action

vars == <<kind, pc, exec, memory, request, waitOver, reply, outcome>>

\* "refused" and "failed" are errors before or at the post, "lost" the error
\* of a context that ended during the wait, "done" a result.
Terminal == {"refused", "failed", "lost", "done"}

Executions == {c \in Calls : kind[c] = "execution"}
Rereads == {c \in Calls : kind[c] = "drain"}
Orchestrations == Rereads \cup {c \in Calls : kind[c] = "abort"}

\* What the call read of its action, why its last read failed, and whether it
\* made the read that follows the wait.
Outcomes == [seen : {"unread", "running"} \cup Endings,
             readError : {"none"} \cup NoNews,
             after : {"none", "read", "failed"}]

Unread == [seen |-> "unread", readError |-> "none", after |-> "none"]

TypeOK ==
    /\ kind \in [Calls -> {"execution", "abort", "drain"}]
    /\ pc \in [Calls -> {"start", "posting", "waiting", "reading", "closing"}
                        \cup Terminal]
    /\ exec \in [Calls -> {"none", "refused", "running"} \cup Endings]
    /\ memory \in [Calls -> {"notyet", "known", "dropped"}]
    /\ request \in [Calls -> {"live", "over"}]
    /\ waitOver \in [Calls -> BOOLEAN]
    /\ reply \in [Calls -> {"none", "running"} \cup NoNews \cup Endings]
    /\ outcome \in [Calls -> Outcomes]

Init ==
    /\ kind \in [Calls -> {"execution", "abort", "drain"}]
    /\ pc = [c \in Calls |-> "start"]
    /\ exec = [c \in Calls |-> "none"]
    /\ memory = [c \in Calls |-> "notyet"]
    /\ request = [c \in Calls |-> "live"]
    /\ waitOver = [c \in Calls |-> FALSE]
    /\ reply = [c \in Calls |-> "none"]
    /\ outcome = [c \in Calls |-> Unread]

Goto(c, place) == pc' = [pc EXCEPT ![c] = place]

Forked(c) == exec[c] \in {"running"} \cup Endings
Completed(c) == outcome[c].seen \in Endings

\* A result leaves the wait: the tools in Rereads read their target first.
AfterWait(c) == IF c \in Rereads THEN "closing" ELSE "done"

-----------------------------------------------------------------------------
(* Bugs the actions below could have, each put in place of its action by a  *)
(* mutation run that a property must then fail.                            *)

\* An error of the post is taken for a refusal.
PostFailsAsRefused(c) ==
    /\ pc[c] = "posting"
    /\ Goto(c, "refused")
    /\ UNCHANGED <<kind, exec, memory, request, waitOver, reply, outcome>>

\* The end of the wait is only seen through the context of the caller.
WaitEndsWithCaller(c) ==
    /\ pc[c] = "waiting"
    /\ request[c] = "over"
    /\ Goto(c, "lost")
    /\ UNCHANGED <<kind, exec, memory, request, waitOver, reply, outcome>>

\* Any failed read ends the wait, a 410 of a queued orchestration too.
ReadFailsAtOnce(c) ==
    /\ pc[c] = "reading"
    /\ reply[c] \in {"none", "gone", "forbidden", "broken"}
    /\ Goto(c, IF request[c] = "over" THEN "lost" ELSE AfterWait(c))
    /\ outcome' = [outcome EXCEPT ![c].readError =
                      IF reply[c] = "none" THEN "broken" ELSE reply[c]]
    /\ UNCHANGED <<kind, exec, memory, request, waitOver, reply>>

\* The reason of an earlier 410 outlives the read that succeeds.
ReadEndedKeepsError(c) ==
    /\ pc[c] = "reading"
    /\ reply[c] \in Endings
    /\ outcome' = [outcome EXCEPT ![c].seen = reply[c]]
    /\ Goto(c, IF c \in Executions /\ reply[c] \notin Successes
               THEN "closing" ELSE AfterWait(c))
    /\ UNCHANGED <<kind, exec, memory, request, waitOver, reply>>

-----------------------------------------------------------------------------
(* The check of the target and the post of the action.                     *)

\* The arguments are valid and the read of the target allows the action: the
\* action is posted.
CheckPasses(c) ==
    /\ pc[c] = "start"
    /\ Goto(c, "posting")
    /\ UNCHANGED <<kind, exec, memory, request, waitOver, reply, outcome>>

\* Invalid arguments, a client that does not post, a target that cannot be
\* read, or one the action is refused on.
CheckRefuses(c) ==
    /\ pc[c] = "start"
    /\ Goto(c, "refused")
    /\ UNCHANGED <<kind, exec, memory, request, waitOver, reply, outcome>>

\* The daemon accepted the action and its answer, with the ids to follow it
\* by, arrived.
PostAccepted(c) ==
    /\ pc[c] = "posting"
    /\ Forked(c)
    /\ Goto(c, "waiting")
    /\ UNCHANGED <<kind, exec, memory, request, waitOver, reply, outcome>>

\* The daemon refused the action, 400, 403, 404 or 409, and its answer
\* arrived.
PostRefused(c) ==
    /\ pc[c] = "posting"
    /\ exec[c] = "refused"
    /\ Goto(c, "refused")
    /\ UNCHANGED <<kind, exec, memory, request, waitOver, reply, outcome>>

\* The post has no usable answer: the connection broke, the client timed out,
\* the context ended, the ids or the node named are not valid.  The daemon
\* may have run the action, and may still run it.
PostFails(c) ==
    /\ pc[c] = "posting"
    /\ Goto(c, "failed")
    /\ UNCHANGED <<kind, exec, memory, request, waitOver, reply, outcome>>

-----------------------------------------------------------------------------
(* The wait.                                                               *)

\* The timer of the poll fires and the read of the action starts.  With the
\* context already over the read fails at once, which WaitEnds stands for.
Poll(c) ==
    /\ pc[c] = "waiting"
    /\ request[c] = "live"
    /\ ~waitOver[c]
    /\ Goto(c, "reading")
    /\ reply' = [reply EXCEPT ![c] = "none"]
    /\ UNCHANGED <<kind, exec, memory, request, waitOver, outcome>>

\* The context of the wait is done: the error of the context of the caller,
\* if it is the one that ended, or what was read so far.
WaitEnds(c) ==
    /\ pc[c] = "waiting"
    /\ request[c] = "over" \/ waitOver[c]
    /\ Goto(c, IF request[c] = "over" THEN "lost" ELSE AfterWait(c))
    /\ UNCHANGED <<kind, exec, memory, request, waitOver, reply, outcome>>

\* The read fails: no answer, an access refused, the action unknown to the
\* daemon.  The context of the caller is looked at first, the wait second.
\* An orchestration the daemon does not know, yet or no more, is read again;
\* any other failure ends the wait with its reason, and no error.
ReadFails(c) ==
    /\ pc[c] = "reading"
    /\ reply[c] \in {"none", "gone", "forbidden", "broken"}
    /\ LET why   == IF reply[c] = "none" THEN "broken" ELSE reply[c]
           again == why = "gone" /\ c \in Orchestrations
       IN \/ /\ request[c] = "over"
             /\ Goto(c, "lost")
             /\ UNCHANGED outcome
          \/ /\ request[c] = "live"
             /\ waitOver[c]
             /\ Goto(c, AfterWait(c))
             /\ UNCHANGED outcome
          \/ /\ request[c] = "live"
             /\ ~waitOver[c]
             /\ Goto(c, IF again THEN "waiting" ELSE AfterWait(c))
             /\ outcome' = [outcome EXCEPT ![c].readError = why]
    /\ UNCHANGED <<kind, exec, memory, request, waitOver, reply>>

\* The answer does not have the form the API declares: the wait ends with
\* that reason, whatever the contexts.
ReadInvalid(c) ==
    /\ pc[c] = "reading"
    /\ reply[c] = "invalid"
    /\ outcome' = [outcome EXCEPT ![c].readError = "invalid"]
    /\ Goto(c, AfterWait(c))
    /\ UNCHANGED <<kind, exec, memory, request, waitOver, reply>>

\* The action runs: its state is kept and a new poll is awaited.  A read that
\* succeeds lifts the reason an earlier one failed.
ReadRunning(c) ==
    /\ pc[c] = "reading"
    /\ reply[c] = "running"
    /\ outcome' = [outcome EXCEPT ![c].seen = "running", ![c].readError = "none"]
    /\ Goto(c, "waiting")
    /\ UNCHANGED <<kind, exec, memory, request, waitOver, reply>>

\* The action ended: the call is completed.  The journal of an execution that
\* failed is read before the call returns.
ReadEnded(c) ==
    /\ pc[c] = "reading"
    /\ reply[c] \in Endings
    /\ outcome' = [outcome EXCEPT ![c].seen = reply[c], ![c].readError = "none"]
    /\ Goto(c, IF c \in Executions /\ reply[c] \notin Successes
               THEN "closing" ELSE AfterWait(c))
    /\ UNCHANGED <<kind, exec, memory, request, waitOver, reply>>

\* The read after the wait, under the context of the caller: the journal of a
\* failed execution, the node of a drain, the cluster.  Its failure is
\* reported in the result and never takes it away.
Close(c) ==
    /\ pc[c] = "closing"
    /\ \E read \in {"read", "failed"} :
          outcome' = [outcome EXCEPT ![c].after = read]
    /\ Goto(c, "done")
    /\ UNCHANGED <<kind, exec, memory, request, waitOver, reply>>

-----------------------------------------------------------------------------
(* The daemon, the network and the clock.                                  *)

\* The post reaches the daemon, which runs the action.  A caller that gave up
\* on the post does not call it back.  An execution can be read as soon as it
\* is forked, an orchestration once the monitor took it.
DaemonRuns(c) ==
    /\ pc[c] \in {"posting", "failed"}
    /\ exec[c] = "none"
    /\ exec' = [exec EXCEPT ![c] = "running"]
    /\ memory' = [memory EXCEPT ![c] = IF c \in Executions THEN "known" ELSE @]
    /\ UNCHANGED <<kind, pc, request, waitOver, reply, outcome>>

DaemonRefuses(c) ==
    /\ pc[c] \in {"posting", "failed"}
    /\ exec[c] = "none"
    /\ exec' = [exec EXCEPT ![c] = "refused"]
    /\ UNCHANGED <<kind, pc, memory, request, waitOver, reply, outcome>>

\* The monitor takes the orchestration it was queued.
DaemonLearns(c) ==
    /\ Forked(c)
    /\ memory[c] = "notyet"
    /\ memory' = [memory EXCEPT ![c] = "known"]
    /\ UNCHANGED <<kind, pc, exec, request, waitOver, reply, outcome>>

ActionEnds(c) ==
    /\ exec[c] = "running"
    /\ \E end \in Endings : exec' = [exec EXCEPT ![c] = end]
    /\ UNCHANGED <<kind, pc, memory, request, waitOver, reply, outcome>>

\* The daemon drops an action that ended: it answers 410 from then on.
DaemonDrops(c) ==
    /\ exec[c] \in Endings
    /\ memory[c] = "known"
    /\ memory' = [memory EXCEPT ![c] = "dropped"]
    /\ UNCHANGED <<kind, pc, exec, request, waitOver, reply, outcome>>

\* The daemon answers the read in flight with the action as it is now, with a
\* refusal (the read requires root), or with something unusable.
DaemonAnswers(c) ==
    /\ pc[c] = "reading"
    /\ reply[c] = "none"
    /\ \E answer \in {IF memory[c] = "known" THEN exec[c] ELSE "gone"}
                     \cup {"forbidden", "broken", "invalid"} :
          reply' = [reply EXCEPT ![c] = answer]
    /\ UNCHANGED <<kind, pc, exec, memory, request, waitOver, outcome>>

\* The caller leaves, its token expires, or its connection breaks.
RequestEnds(c) ==
    /\ pc[c] \notin Terminal
    /\ request[c] = "live"
    /\ request' = [request EXCEPT ![c] = "over"]
    /\ UNCHANGED <<kind, pc, exec, memory, waitOver, reply, outcome>>

WaitExpires(c) ==
    /\ pc[c] \in {"waiting", "reading"}
    /\ ~waitOver[c]
    /\ waitOver' = [waitOver EXCEPT ![c] = TRUE]
    /\ UNCHANGED <<kind, pc, exec, memory, request, reply, outcome>>

-----------------------------------------------------------------------------
\* The steps of the call itself: each is a return, a timer or a request the
\* client bounds with its timeout, so none is put off for ever.
CallStep(c) ==
    \/ CheckPasses(c) \/ CheckRefuses(c)
    \/ PostAccepted(c) \/ PostRefused(c) \/ PostFails(c)
    \/ Poll(c) \/ WaitEnds(c)
    \/ ReadFails(c) \/ ReadInvalid(c) \/ ReadRunning(c) \/ ReadEnded(c)
    \/ Close(c)

DaemonStep(c) ==
    \/ DaemonRuns(c) \/ DaemonRefuses(c) \/ DaemonLearns(c)
    \/ ActionEnds(c) \/ DaemonDrops(c) \/ DaemonAnswers(c)

Next ==
    \E c \in Calls : CallStep(c) \/ DaemonStep(c) \/ RequestEnds(c) \/ WaitExpires(c)

SafeSpec == Init /\ [][Next]_vars

\* The daemon may never answer, the action may never end.
Fairness == \A c \in Calls : WF_vars(CallStep(c)) /\ WF_vars(WaitExpires(c))

Spec == SafeSpec /\ Fairness
-----------------------------------------------------------------------------
(* Properties.                                                             *)

\* What a call was answered agrees with what the node did: nothing was or will
\* be run for a call refused; an action ran for every result, and for every
\* call whose post was accepted; an ending read or reported is how the action
\* really ended (waitExecution, waitNodeOrchestration).
AnswerMatchesAction ==
    \A c \in Calls :
        /\ pc[c] = "start" => exec[c] = "none"
        /\ pc[c] = "refused" => exec[c] \in {"none", "refused"}
        /\ pc[c] \in {"waiting", "reading", "closing", "done", "lost"} => Forked(c)
        /\ reply[c] \in Endings => exec[c] = reply[c]
        /\ Completed(c) => /\ exec[c] = outcome[c].seen
                           /\ pc[c] \in {"closing", "done"}

\* An accepted action is reported as an error only to a caller whose context
\* ended, and as unfinished only when the wait expired or a read failed; an
\* orchestration the daemon answers 410 for is waited until the wait expires.
AnswerHasItsCause ==
    \A c \in Calls :
        /\ pc[c] = "lost" => request[c] = "over"
        /\ pc[c] = "done" /\ ~Completed(c) =>
              \/ waitOver[c]
              \/ /\ outcome[c].readError # "none"
                 /\ c \in Orchestrations => outcome[c].readError # "gone"

\* A completed answer is whole: it carries no read error, an earlier 410 being
\* lifted; an execution that failed comes with its journal or the reason it
\* could not be read, and no other execution reads one.
CompletedAnswerIsWhole ==
    \A c \in Calls :
        pc[c] = "done" /\ Completed(c) =>
            /\ outcome[c].readError = "none"
            /\ c \in Executions =>
                  (outcome[c].after = "none" <=> outcome[c].seen \in Successes)
            /\ c \in Rereads => outcome[c].after # "none"

\* What FollowedAction sees of a call: what its action became, what it was told.
Ran == [c \in Calls |-> IF Forked(c) THEN exec[c] ELSE "no"]
AnswerOf(c) ==
    CASE pc[c] = "refused"           -> "refused"
      [] pc[c] \in {"failed", "lost"} -> "unknown"
      [] pc[c] = "done"              -> IF Completed(c) THEN outcome[c].seen
                                        ELSE "accepted"
      [] OTHER                       -> "nothing"

Told == [c \in Calls |-> AnswerOf(c)]

Followed == INSTANCE FollowedAction WITH ran <- Ran, told <- Told

\* The calls do what FollowedAction promises, and every call is answered: the
\* wait and the timeouts of the client bound each of them.
Promise == Followed!Spec
=============================================================================
