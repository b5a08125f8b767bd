---------------------------- MODULE SecondReads ----------------------------
(***************************************************************************)
(* The tools that read again what their action changes, to tell what came  *)
(* of it: the last run of the tasks an instance run names                  *)
(* (RunInstanceAction with readTaskRuns), the entries of the cache a node  *)
(* refresh writes (RunNodeRefresh), the status of an instance asked to     *)
(* evaluate it (RefreshInstanceStatus), the monitor of an instance cleared *)
(* (ClearInstance).  Others write the same things, the daemon publishes    *)
(* some of them late, and the reads are bounded in time.                   *)
(*                                                                         *)
(* How the execution is followed is ActionFollow's matter: here the wait   *)
(* for it only ends, with its end read or not.                             *)
(***************************************************************************)
EXTENDS Naturals

CONSTANTS
    Asks,       \* the tools: "run", "refresh_node", "refresh_status", "clear"
    Subjects,   \* Subjects[a]: what a call is about: its tasks, a cache, an instance
    First,      \* First[a]: what is there at first
    Leaves,     \* Leaves[a]: what an action, of this call or of others, may leave
    Keywords,   \* a bound: the confirmation keywords of a task, that of its
                \* section and that scoped to the node
    MaxOthers   \* a bound: the writes of others

ASSUME AsksAssumption ==
    /\ Asks \subseteq {"run", "refresh_node", "refresh_status", "clear"}
    /\ Keywords \subseteq [section : {"unset", "no", "yes", "reference"},
                           scoped : {"unset", "no", "yes", "reference"}]
    /\ \A a \in Asks \cap {"refresh_status", "clear"} :
          \E instance \in Subjects[a] : Subjects[a] = {instance}
    /\ MaxOthers \in Nat

VARIABLES
    ask,        \* the tool called
    step,       \* how far the call is
    earlier,    \* earlier[s]: what was read before the action
    reported,   \* reported[s]: what the last read after it gave
    completed,  \* whether the end of the execution was read
    clock,      \* whether the deadline of the wait, or of the reads, is over
    caller,     \* whether the caller is there
    exec,       \* what the daemon does of the action asked
    actual,     \* actual[s]: what is there: who left it, its value and its date
    published,  \* published[s]: what the status of the instance says of it
    confirm,    \* confirm[s]: the confirmation keyword of a task, of the section
                \* and scoped to the node
    ours,       \* history: ours[s]: what this action left
    others,     \* the writes of others
    configured, \* history: the tasks whose confirmation changed since the check
    unconfirmed \* history: the tasks run that asked a human to confirm

call == <<ask, step, earlier, reported, completed, clock, caller>>
world == <<exec, actual, published, confirm, ours, others, configured, unconfirmed>>
rereadVars == <<call, world>>

\* Nothing read, or left, yet.
Unread == [by |-> "none", value |-> "unread", at |-> 0]

\* What may be there, or read, in a call of a tool.
Readings(a) == [by : {"none", "this", "other"}, at : Nat,
                value : {"unread", "idle", First[a]} \cup Leaves[a]]

RereadTypeOK ==
    /\ ask \in Asks
    /\ step \in {"start", "checked", "posted", "following", "reading", "done", "error"}
    /\ {earlier, reported, actual, published, ours} \subseteq [Subjects[ask] -> Readings(ask)]
    /\ completed \in {"yes", "no"}
    /\ clock \in {"running", "over"}
    /\ caller \in {"there", "left"}
    /\ exec \in {"none", "asked", "forked", "refused", "ended"}
    /\ confirm \in [Subjects[ask] -> [section : {"unset", "no", "yes", "reference"},
                                      scoped : {"unset", "no", "yes", "reference"}]]
    /\ others \in 0 .. MaxOthers
    /\ configured \subseteq Subjects[ask]
    /\ unconfirmed \subseteq Subjects[ask]

RereadInit ==
    /\ ask \in Asks
    /\ step = "start"
    /\ earlier = [s \in Subjects[ask] |-> Unread]
    /\ reported = [s \in Subjects[ask] |-> Unread]
    /\ completed = "no"
    /\ clock = "running"
    /\ caller = "there"
    /\ exec = "none"
    /\ actual = [s \in Subjects[ask] |-> [by |-> "none", value |-> First[ask], at |-> 1]]
    /\ published = actual
    /\ confirm \in [Subjects[ask] -> IF ask = "run" THEN Keywords
                                     ELSE {[section |-> "unset", scoped |-> "unset"]}]
    /\ ours = [s \in Subjects[ask] |-> Unread]
    /\ others = 0
    /\ configured = {}
    /\ unconfirmed = {}

\* What a read gives: a cache is read on the node, the rest in the status the
\* daemon publishes.
Seen == IF ask = "refresh_node" THEN actual ELSE published

-----------------------------------------------------------------------------
(* Bugs of the tools, each put in place of its definition by a mutation run. *)

\* The scope of a value is not looked at.
EffectiveUnscoped(c) == c.section

\* A run published since the action is taken for the one it asked.
IsOwnNewer(run, before) == run.by # "none"

\* The cache is counted again though the execution may still run.
ReadsAfterAlways == TRUE

-----------------------------------------------------------------------------
(* Before the action.                                                      *)

\* The value of a keyword on the node: scoped to it, it wins.
Effective(c) == IF c.scoped # "unset" THEN c.scoped ELSE c.section

\* A confirmation that is not read as false, a reference included, is asked.
AsksHuman(value) == value \notin {"unset", "no"}

\* The arguments, the target or a read before the action refuse it.
RefuseAsk ==
    /\ step = "start"
    /\ step' = "error"
    /\ UNCHANGED <<ask, earlier, reported, completed, clock, caller, world>>

\* A run reads the tasks and their confirmation, each keyword whole: the read of a
\* configuration cuts one to an empty text once the values before it have used up
\* its room, which would read as a keyword not set.
CheckRun ==
    /\ step = "start" /\ ask = "run"
    /\ step' = IF \E s \in Subjects[ask] : AsksHuman(Effective(confirm[s])) THEN "error" ELSE "checked"
    /\ UNCHANGED <<ask, earlier, reported, completed, clock, caller, world>>

\* The cache may not be read: it is not counted before.
CountBefore ==
    /\ step = "start" /\ ask = "refresh_node"
    /\ earlier' \in {earlier, Seen}
    /\ step' = "checked"
    /\ UNCHANGED <<ask, reported, completed, clock, caller, world>>

ReadBefore ==
    /\ step = "start" /\ ask \in {"refresh_status", "clear"}
    /\ earlier' = Seen
    /\ step' = IF ask = "clear" /\ \E s \in Subjects[ask] : Seen[s].value # "failed"
               THEN "error" ELSE "checked"
    /\ UNCHANGED <<ask, reported, completed, clock, caller, world>>

-----------------------------------------------------------------------------
(* The daemon, its node and the others.                                    *)

DaemonTakes ==
    /\ exec = "asked"
    /\ exec' \in {"forked", "refused"}
    /\ UNCHANGED <<call, actual, published, confirm, ours, others, configured, unconfirmed>>

Leave(s, who, value) ==
    actual' = [actual EXCEPT ![s] = [by |-> who, value |-> value, at |-> @.at + 1]]

\* A task whose runs om3 has a human confirm, for all a reference may stand for.
HumanOnly(s) ==
    \/ confirm[s].scoped \in {"yes", "reference"}
    \/ confirm[s].scoped = "unset" /\ confirm[s].section \in {"yes", "reference"}

\* The execution does what was asked of one subject, or not at all: a task may
\* be refused before it runs, a probe may fail.
Acts(s) ==
    /\ exec = "forked" /\ ours[s] = Unread
    /\ \E value \in IF ask = "clear" THEN {"idle"} ELSE Leaves[ask] : Leave(s, "this", value)
    /\ ours' = [ours EXCEPT ![s] = actual'[s]]
    /\ unconfirmed' = IF HumanOnly(s) THEN unconfirmed \cup {s} ELSE unconfirmed
    /\ UNCHANGED <<call, exec, published, confirm, others, configured>>

ExecutionEnds ==
    /\ exec = "forked"
    /\ exec' = "ended"
    /\ UNCHANGED <<call, actual, published, confirm, ours, others, configured, unconfirmed>>

Publishes(s) ==
    /\ published[s] # actual[s]
    /\ published' = [published EXCEPT ![s] = actual[s]]
    /\ UNCHANGED <<call, exec, actual, confirm, ours, others, configured, unconfirmed>>

\* Another session runs the task, evaluates the instance, probes the node.
OtherActs(s) ==
    /\ others < MaxOthers
    /\ \E value \in Leaves[ask] : Leave(s, "other", value)
    /\ others' = others + 1
    /\ UNCHANGED <<call, exec, published, confirm, ours, configured, unconfirmed>>

OtherConfigures(s) ==
    /\ ask = "run" /\ others < MaxOthers
    /\ \E c \in Keywords \ {confirm[s]} : confirm' = [confirm EXCEPT ![s] = c]
    /\ configured' = IF step = "start" THEN configured ELSE configured \cup {s}
    /\ others' = others + 1
    /\ UNCHANGED <<call, exec, actual, published, ours, unconfirmed>>

DeadlinePasses ==
    /\ step \in {"following", "reading"}
    /\ clock = "running" /\ clock' = "over"
    /\ UNCHANGED <<ask, step, earlier, reported, completed, caller, world>>

CallerLeaves ==
    /\ caller = "there" /\ caller' = "left"
    /\ UNCHANGED <<ask, step, earlier, reported, completed, clock, world>>

-----------------------------------------------------------------------------
(* The action.                                                             *)

PostAsk ==
    /\ step = "checked"
    /\ step' = "posted"
    /\ exec' = "asked"
    /\ UNCHANGED <<ask, earlier, reported, completed, clock, caller, actual, published, confirm,
                   ours, others, configured, unconfirmed>>

\* An answer that does not come, a refusal, or ids that are not ids.
AskFails ==
    /\ step = "posted"
    /\ step' = "error"
    /\ UNCHANGED <<ask, earlier, reported, completed, clock, caller, world>>

AskAccepted ==
    /\ step = "posted" /\ exec \in {"forked", "ended"}
    /\ reported' = earlier
    /\ step' = "following"
    /\ UNCHANGED <<ask, earlier, completed, clock, caller, world>>

-----------------------------------------------------------------------------
(* After the action.                                                       *)

\* Whether a cache is counted once the wait ended.
ReadsAfter == completed' = "yes"

\* The wait for the execution ends: its end is read, or not, as when the caller
\* leaves.  The reads that follow have a deadline of their own.
FollowEnds ==
    /\ step = "following" /\ ask \in {"run", "refresh_node"}
    /\ completed' \in IF exec = "ended" THEN {"yes", "no"} ELSE {"no"}
    /\ step' = IF caller = "left" /\ completed' = "no" THEN "error"
               ELSE IF ask = "run" \/ ReadsAfter THEN "reading" ELSE "done"
    /\ reported' = [s \in Subjects[ask] |-> Unread]
    /\ clock' = "running"
    /\ UNCHANGED <<ask, earlier, caller, world>>

\* Whether a run read is the one of this call: by its session.
IsOwn(run, before) == run.by = "this"

\* The runs read are told once they are all of this call, or at once when the
\* execution was not seen to end; else they are read again, to the deadline.
ReadRuns ==
    /\ step = "reading" /\ ask = "run"
    /\ reported' = Seen
    /\ step' = IF \/ completed = "no"
                  \/ \A s \in Subjects[ask] : IsOwn(Seen[s], earlier[s])
                  \/ clock = "over" \/ caller = "left"
               THEN "done" ELSE "reading"
    /\ UNCHANGED <<ask, earlier, completed, clock, caller, world>>

CountAfter ==
    /\ step = "reading" /\ ask = "refresh_node"
    /\ reported' = Seen
    /\ step' = "done"
    /\ UNCHANGED <<ask, earlier, completed, clock, caller, world>>

\* A read that fails is told beside the action (tasks_error, cache_error).
ReadAfterFails ==
    /\ step = "reading"
    /\ reported' = [s \in Subjects[ask] |-> Unread]
    /\ step' = "done"
    /\ UNCHANGED <<ask, earlier, completed, clock, caller, world>>

\* What shows that the action had an effect: the date of the status, the state
\* of the monitor.
Differs(s, read) ==
    IF ask = "clear" THEN read[s].value # earlier[s].value ELSE read[s].at # earlier[s].at

Poll ==
    /\ step = "following" /\ ask \in {"refresh_status", "clear"}
    /\ clock = "running" /\ caller = "there"
    /\ reported' = Seen
    /\ step' = IF \E s \in Subjects[ask] : Differs(s, Seen) THEN "done" ELSE "following"
    /\ UNCHANGED <<ask, earlier, completed, clock, caller, world>>

\* A read that fails ends the call, and hides that the action was accepted,
\* unless the deadline is what failed it.
PollFails ==
    /\ step = "following" /\ ask \in {"refresh_status", "clear"}
    /\ step' = IF clock = "over" /\ caller = "there" THEN "done" ELSE "error"
    /\ UNCHANGED <<ask, earlier, reported, completed, clock, caller, world>>

\* The deadline, or the caller, ends the polls between two reads.
PollsEnd ==
    /\ step = "following" /\ ask \in {"refresh_status", "clear"}
    /\ clock = "over" \/ caller = "left"
    /\ step' = IF caller = "left" THEN "error" ELSE "done"
    /\ UNCHANGED <<ask, earlier, reported, completed, clock, caller, world>>

RereadCall ==
    \/ RefuseAsk \/ CheckRun \/ CountBefore \/ ReadBefore
    \/ PostAsk \/ AskFails \/ AskAccepted
    \/ FollowEnds \/ ReadRuns \/ CountAfter \/ ReadAfterFails
    \/ Poll \/ PollFails \/ PollsEnd

RereadWorld ==
    \/ DaemonTakes \/ ExecutionEnds \/ DeadlinePasses \/ CallerLeaves
    \/ \E s \in Subjects[ask] : Acts(s) \/ Publishes(s) \/ OtherActs(s) \/ OtherConfigures(s)

RereadNext == RereadCall \/ RereadWorld

RereadSpec == RereadInit /\ [][RereadNext]_rereadVars
-----------------------------------------------------------------------------
(* Properties.                                                             *)

\* A run told to be of this call is: its exit code is the one its session
\* left, whatever other sessions ran since; and when the execution was seen to
\* end, a run is told not to be of this call only once the time to read it
\* again was over, or the caller had left (readTaskRuns).
RunsToldAreOwn ==
    ask = "run" /\ step = "done" =>
        \A s \in Subjects[ask] : reported[s] # Unread =>
            /\ IsOwn(reported[s], earlier[s]) => reported[s] = ours[s]
            /\ completed = "yes" /\ ~IsOwn(reported[s], earlier[s]) => clock = "over" \/ caller = "left"

\* A task whose author asks a human to confirm its runs does not run, unless
\* its author asked since the check (refuseTaskRun, "the MCP does not confirm
\* for them").
ConfirmedByHumans == unconfirmed \subseteq configured

\* What is told from the reads after an action is what it left, or newer: a
\* cache counted again is not older than the probe of this call, a refresh
\* told observed shows a status newer than the one before, and one told not
\* observed had its whole time (RunNodeRefresh, RefreshInstanceStatus,
\* ClearInstance).
SecondReadsAreNewer ==
    step = "done" =>
        \A s \in Subjects[ask] :
            /\ ask = "refresh_node" /\ reported[s] # Unread =>
                  exec = "ended" /\ reported[s].at >= ours[s].at
            /\ ask \in {"refresh_status", "clear"} =>
                  IF Differs(s, reported) THEN reported[s].at > earlier[s].at ELSE clock = "over"
=============================================================================
