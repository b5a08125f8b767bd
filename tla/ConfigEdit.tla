----------------------------- MODULE ConfigEdit -----------------------------
(***************************************************************************)
(* The tools that preview and that update a configuration, while others    *)
(* write it: PreviewObjectConfigUpdate, UpdateObjectConfig and those of a  *)
(* node.  All the calls of a behaviour ask the same operations: a preview  *)
(* and the update it is of, an update and its repetition.  A preview is    *)
(* one or two reads.  An update is one request, which the daemon commits   *)
(* and may hold until the configuration reached the nodes (wait_seconds),  *)
(* under the timeout of the client, then a read of the keys it names.      *)
(***************************************************************************)
EXTENDS ConfigOps

CONSTANTS
    Calls,       \* the tool calls
    Tool,        \* Tool[c]: the tool called, "preview" or "update"
    Initials,    \* the configurations others write, the first included
    Updates,     \* the operations a call may ask
    Waits,       \* the waits a caller may ask, in seconds; 0 for none
    Timeouts,    \* the request timeouts of a cluster, in seconds
    WaitMargin,  \* the seconds a wait leaves of the timeout
    MaxWrites    \* bound: the configurations written in a behaviour

ASSUME ToolAssumption == Tool \in [Calls -> {"preview", "update"}]

ASSUME InitialsAssumption == \A config \in Initials : IsConfig(config)

\* What parseConfigUpdate lets through.
ASSUME UpdatesAssumption ==
    \A update \in Updates : update.unsets \in Seq(Keys) /\ update.sets \in Seq(Operations)

ASSUME TimesAssumption ==
    /\ Waits \subseteq Nat
    /\ Timeouts \subseteq Nat \ {0}
    /\ WaitMargin \in Nat
    /\ MaxWrites \in Nat

VARIABLES
    config,     \* the configuration, as the daemon has it
    version,    \* the number of the configuration, as its time tells it
    update,     \* the operations asked
    wait,       \* the wait asked
    timeout,    \* the request timeout of the cluster
    pc,         \* pc[c]: where the call is
    preview,    \* preview[c]: what a preview tells
    daemon,     \* daemon[c]: what the daemon did of the request of an update
    told,       \* told[c]: what an update tells of its write
    time,       \* time[c]: the seconds a request was held for its wait, and others
    wrote,      \* history: wrote[c]: the configuration before and after the commit
    fate        \* history: fate[c]: what became of the answer to the request

asked == <<update, wait, timeout>>
vars == <<config, version, asked, pc, preview, daemon, told, time, wrote, fate>>

Nothing == [changes |-> <<>>, sections |-> {}, cut |-> FALSE, from |-> 0, at |-> 0,
            whole |-> [k \in {} |-> <<>>]]
Unwritten == [version |-> 0, before |-> [k \in {} |-> <<>>], after |-> [k \in {} |-> <<>>]]

Committed == {"written", "unchanged", "reached"}

TypeOK ==
    /\ IsConfig(config)
    /\ version \in 1 .. MaxWrites + 1
    /\ update \in Updates /\ wait \in Waits /\ timeout \in Timeouts
    /\ pc \in [Calls -> {"start", "whole", "sent", "again", "error", "done"}]
    /\ \A c \in Calls :
          /\ preview[c].from \in 0 .. version /\ preview[c].at \in preview[c].from .. version
          /\ IsConfig(preview[c].whole)
          /\ \A i \in DOMAIN preview[c].changes : preview[c].changes[i].key \in Keys
          /\ IsConfig(wrote[c].before) /\ IsConfig(wrote[c].after)
    /\ daemon \in [Calls -> {"none", "asked", "refused"} \cup Committed]
    /\ told \in [Calls -> {"nothing", "written", "unchanged", "pending"}]
    /\ time \in [Calls -> [held : 0 .. timeout, other : 0 .. timeout]]
    /\ fate \in [Calls -> {"none", "arrived", "unread", "lost", "late"}]

Init ==
    /\ config \in Initials
    /\ version = 1
    /\ update \in Updates /\ wait \in Waits /\ timeout \in Timeouts
    /\ pc = [c \in Calls |-> "start"]
    /\ preview = [c \in Calls |-> Nothing]
    /\ daemon = [c \in Calls |-> "none"]
    /\ told = [c \in Calls |-> "nothing"]
    /\ time = [c \in Calls |-> [held |-> 0, other |-> 0]]
    /\ wrote = [c \in Calls |-> Unwritten]
    /\ fate = [c \in Calls |-> "none"]

Goto(c, place) == pc' = [pc EXCEPT ![c] = place]

-----------------------------------------------------------------------------
(* The waits.                                                              *)

\* A wait as it was asked.
BoundWaitNot(seconds, limit) == seconds

\* The wait sent: under the timeout of the client, 0 when it leaves no second.
BoundWait(seconds, limit) ==
    IF limit <= WaitMargin THEN 0
    ELSE IF seconds + WaitMargin > limit THEN limit - WaitMargin ELSE seconds

\* The daemon holds the answer for the wait.
Holds(c) == daemon[c] = "written" /\ time[c].held < BoundWait(wait, timeout)

Elapsed(c) == time[c].held + time[c].other

-----------------------------------------------------------------------------
(* Bugs the actions below could have, for mutation runs.                    *)

\* A 408 is an error, whatever it says.
ExpiredIsError(c) ==
    /\ pc[c] = "sent"
    /\ daemon[c] = "written"
    /\ BoundWait(wait, timeout) > 0 /\ ~Holds(c)
    /\ Goto(c, "error")
    /\ fate' = [fate EXCEPT ![c] = "arrived"]
    /\ UNCHANGED <<config, version, asked, preview, daemon, told, time, wrote>>

\* A request has no timeout.
NeverGivesUp(c) == FALSE /\ UNCHANGED vars

-----------------------------------------------------------------------------
(* The previews.                                                           *)

\* Invalid arguments, or a read that fails.
Refuse(c) ==
    /\ pc[c] \in {"start", "whole"}
    /\ Goto(c, "error")
    /\ UNCHANGED <<config, version, asked, preview, daemon, told, time, wrote, fate>>

\* The keys named are read; there may be no other read.
ReadNamed(c) ==
    /\ Tool[c] = "preview" /\ pc[c] = "start"
    /\ Named(update) # {}
    /\ preview' = [preview EXCEPT ![c].changes = Changes(update, config),
                                  ![c].from = version, ![c].at = version]
    /\ Goto(c, IF update.deletes = {} THEN "done" ELSE "whole")
    /\ UNCHANGED <<config, version, asked, daemon, told, time, wrote, fate>>

\* The sections deleted are read with the whole configuration, which dates
\* the preview.
ReadWhole(c) ==
    /\ Tool[c] = "preview"
    /\ update.deletes # {}
    /\ pc[c] = "whole" \/ (pc[c] = "start" /\ Named(update) = {})
    /\ \E listed \in Listings(config) :
          preview' = [preview EXCEPT
              ![c].sections = Sections(update, config, listed),
              ![c].cut = listed # DOMAIN config \ Secrets,
              ![c].from = IF pc[c] = "start" THEN version ELSE @,
              ![c].changes = IF pc[c] = "start" THEN Changes(update, config) ELSE @,
              ![c].at = version,
              ![c].whole = config]
    /\ Goto(c, "done")
    /\ UNCHANGED <<config, version, asked, daemon, told, time, wrote, fate>>

\* Only secrets are set or unset: nothing is read.
ReadNothing(c) ==
    /\ Tool[c] = "preview" /\ pc[c] = "start"
    /\ Named(update) = {} /\ update.deletes = {}
    /\ preview' = [preview EXCEPT ![c].changes = Changes(update, config)]
    /\ Goto(c, "done")
    /\ UNCHANGED <<config, version, asked, daemon, told, time, wrote, fate>>

-----------------------------------------------------------------------------
(* The daemon.                                                             *)

\* The daemon writes what the operations make of the configuration, when that
\* is another one.  It may do so for a client that left.
Commit(c) ==
    /\ daemon[c] = "asked"
    /\ Acceptable(config, update)
    /\ LET after == Written(config, update)
       IN  /\ after # config => version <= MaxWrites
           /\ config' = after
           /\ version' = IF after # config THEN version + 1 ELSE version
           /\ daemon' = [daemon EXCEPT ![c] = IF after # config THEN "written" ELSE "unchanged"]
           /\ wrote' = [wrote EXCEPT ![c] =
                           [version |-> version, before |-> config, after |-> after]]
    /\ UNCHANGED <<asked, pc, preview, told, time, fate>>

\* A value not accepted, a resource up, a conflict, an index past the words.
DaemonRefuses(c) ==
    /\ daemon[c] = "asked"
    /\ daemon' = [daemon EXCEPT ![c] = "refused"]
    /\ UNCHANGED <<config, version, asked, pc, preview, told, time, wrote, fate>>

\* Every live node has the configuration written.
Propagates(c) ==
    /\ daemon[c] = "written"
    /\ daemon' = [daemon EXCEPT ![c] = "reached"]
    /\ UNCHANGED <<config, version, asked, pc, preview, told, time, wrote, fate>>

\* Another actor writes the configuration.
OtherWrites ==
    /\ version <= MaxWrites
    /\ config' \in Initials \ {config}
    /\ version' = version + 1
    /\ UNCHANGED <<asked, pc, preview, daemon, told, time, wrote, fate>>

-----------------------------------------------------------------------------
(* The updates.                                                            *)

Send(c) ==
    /\ Tool[c] = "update" /\ pc[c] = "start"
    /\ daemon' = [daemon EXCEPT ![c] = "asked"]
    /\ Goto(c, "sent")
    /\ UNCHANGED <<config, version, asked, preview, told, time, wrote, fate>>

\* A second of the request, its client having time left.
Tick(c) ==
    /\ pc[c] = "sent"
    /\ Elapsed(c) < timeout
    /\ \/ Holds(c) /\ time' = [time EXCEPT ![c].held = @ + 1]
       \/ ~Holds(c) /\ time' = [time EXCEPT ![c].other = @ + 1]
    /\ UNCHANGED <<config, version, asked, pc, preview, daemon, told, wrote, fate>>

\* The keys an update sets or unsets are read again, if there are any.
Tell(c, what) ==
    /\ told' = [told EXCEPT ![c] = what]
    /\ fate' = [fate EXCEPT ![c] = "arrived"]
    /\ Goto(c, IF update.sets = <<>> /\ update.unsets = <<>> THEN "done" ELSE "again")
    /\ UNCHANGED <<config, version, asked, preview, daemon, time, wrote>>

\* The answer of a commit, not held, or held until the nodes have it.
Answered(c) ==
    /\ pc[c] = "sent"
    /\ daemon[c] \in Committed
    /\ daemon[c] = "written" => BoundWait(wait, timeout) = 0
    /\ Tell(c, IF daemon[c] = "unchanged" THEN "unchanged" ELSE "written")

\* A 408 that says what is written and which nodes do not have it yet.
Expired(c) ==
    /\ pc[c] = "sent"
    /\ daemon[c] = "written"
    /\ BoundWait(wait, timeout) > 0 /\ ~Holds(c)
    /\ Tell(c, "pending")

Fails(c, why) ==
    /\ fate' = [fate EXCEPT ![c] = why]
    /\ Goto(c, "error")
    /\ UNCHANGED <<config, version, asked, preview, daemon, told, time, wrote>>

RefusalArrives(c) == pc[c] = "sent" /\ daemon[c] = "refused" /\ Fails(c, "arrived")

\* A 408 worded otherwise, or an answer that does not decode.
AnswerUnread(c) == pc[c] = "sent" /\ daemon[c] # "refused" /\ Fails(c, "unread")

\* The connection breaks, or the caller leaves.
AnswerLost(c) == pc[c] = "sent" /\ Fails(c, "lost")

\* The timeout of the client ends the request.
GivesUp(c) == pc[c] = "sent" /\ Elapsed(c) >= timeout /\ Fails(c, "late")

\* Read, or not: the error is told beside the write.
ReadAgain(c) ==
    /\ pc[c] = "again"
    /\ Goto(c, "done")
    /\ UNCHANGED <<config, version, asked, preview, daemon, told, time, wrote, fate>>

-----------------------------------------------------------------------------
CallStep(c) ==
    \/ Refuse(c) \/ ReadNamed(c) \/ ReadWhole(c) \/ ReadNothing(c)
    \/ Send(c) \/ Answered(c) \/ Expired(c) \/ RefusalArrives(c)
    \/ AnswerUnread(c) \/ AnswerLost(c) \/ GivesUp(c) \/ ReadAgain(c)

Next ==
    \/ \E c \in Calls : CallStep(c) \/ Tick(c) \/ Commit(c) \/ DaemonRefuses(c)
                        \/ Propagates(c)
    \/ OtherWrites

SafeSpec == Init /\ [][Next]_vars

\* A call does its steps, a read and a wait are bounded by the timeout of the
\* client, and time passes; the daemon may never commit, answer or propagate.
Spec ==
    /\ SafeSpec
    /\ \A c \in Calls :
          /\ WF_vars(Refuse(c) \/ ReadNamed(c) \/ ReadWhole(c) \/ ReadNothing(c) \/ Send(c))
          /\ WF_vars(GivesUp(c)) /\ WF_vars(ReadAgain(c)) /\ WF_vars(Tick(c))
-----------------------------------------------------------------------------
(* Properties.                                                             *)

\* The last change a preview tells of a key, when it tells one.
LastChange(p, i) ==
    \A j \in DOMAIN preview[p].changes :
        preview[p].changes[j].key = preview[p].changes[i].key => j <= i

\* When nobody wrote since the reads of a preview, an update does what was
\* told: each key ends as its last change says, and what a key loses or takes
\* besides is the deletion of its section, which the preview names, unless
\* it says it is cut, or it is a secret (configUpdate.preview, "each from the
\* value the previous ones leave").
PreviewTellsUpdate ==
    \A p, u \in Calls :
        /\ Tool[p] = "preview" /\ pc[p] = "done"
        /\ daemon[u] \in Committed
        /\ wrote[u].version = preview[p].from /\ preview[p].at = preview[p].from
        => /\ \A i \in DOMAIN preview[p].changes :
                 LET change == preview[p].changes[i]
                 IN  LastChange(p, i) /\ change.computed =>
                         Value(wrote[u].after, change.key) = change.after
           /\ \A k \in Keys \ Secrets :
                 Value(wrote[u].after, k) # Value(wrote[u].before, k) =>
                     \/ \E i \in DOMAIN preview[p].changes : preview[p].changes[i].key = k
                     \/ preview[p].cut
                     \/ \E s \in preview[p].sections : k \in s.keys

\* The value a key had is longer than a read gives of one, or is past what a
\* read gives of all, and no operation so far, the n-th set included, makes
\* another of it whatever it was.
TooLong(values, k, n) ==
    /\ Len(Value(values, k)) > MaxWords \/ Together(update, values)[Place(k)] > MaxRead
    /\ SectionOf[k] \notin update.deletes /\ ~Contains(update.unsets, k)
    /\ \A m \in 1 .. n : update.sets[m].key = k => update.sets[m].op # "="

\* Of an update the daemon takes, when nobody wrote since its reads, a preview
\* computes every change but those of secrets and of values that do not fit in
\* its read, alone or after those before them: neither an operation on what the
\* previous ones leave, however many, nor one of a section deleted is told
\* uncomputed, and the room a read has is used up to its last word
\* (applyConfigOperation, boundObjectConfigValue,
\* PreviewChange.AfterComputedByMCP).
UncomputedForCause ==
    \A p, u \in Calls :
        /\ Tool[p] = "preview" /\ pc[p] = "done"
        /\ daemon[u] \in Committed
        /\ wrote[u].version = preview[p].from /\ preview[p].at = preview[p].from
        => \A i \in DOMAIN preview[p].changes :
              LET change == preview[p].changes[i]
              IN  \/ change.computed \/ change.key \in Secrets
                  \/ TooLong(wrote[u].before, change.key, i - Len(update.unsets))

\* What an update tells of its write is what the daemon did, and an error told
\* for a write that is done is one whose answer did not arrive or was not one
\* the tool reads: a wait that expired is no failure of the write, nor is a
\* read of the keywords that fails after it (UpdateObjectConfig).
AnswersAreOfTheWrite ==
    \A c \in Calls :
        /\ told[c] \in {"written", "pending"} => daemon[c] \in {"written", "reached"}
        /\ told[c] = "unchanged" => wrote[c].after = wrote[c].before
        /\ told[c] = "pending" => wait > 0 /\ wrote[c].after # wrote[c].before
        /\ pc[c] = "error" /\ daemon[c] \in Committed => fate[c] \in {"unread", "lost", "late"}

\* A wait never has the client give up on a write done: when it gives up, the
\* margin went by outside the wait, or the timeout when there was none
\* (PatchJSON, "arrives before the client gives up on a done write").
WaitLeavesTimeToAnswer ==
    \A c \in Calls :
        fate[c] = "late" /\ daemon[c] \in Committed =>
            time[c].other >= WaitMargin \/ time[c].other >= timeout

\* Every call ends, the daemon answering or not.
EveryCallEnds == \A c \in Calls : pc[c] = "start" ~> pc[c] \in {"error", "done"}

\* PreviewDeletedSection.SecretsOmitted: "the number of secret keys the section
\* holds, left out of keys".
SecretsOfSectionsCounted ==
    \A p \in Calls : \A s \in preview[p].sections :
        s.secrets = Cardinality({k \in DOMAIN preview[p].whole \cap Secrets :
                                    SectionOf[k] = s.section})
=============================================================================
