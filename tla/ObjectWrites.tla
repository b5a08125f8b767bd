---------------------------- MODULE ObjectWrites ----------------------------
(***************************************************************************)
(* The writes of an object that are one request between reads: the keys of *)
(* a cfg, sec or usr (SetObjectDataKey, DeleteObjectDataKey), a new object *)
(* (CreateObject), the disable keyword of a service or of its resources    *)
(* (SetObjectEnabled), the certificate of a sec (CreateObjectCertificate). *)
(* What is read before tells what the write changed, or refuses it; what   *)
(* is read after tells what it made.  Others write the object meanwhile,   *)
(* and a read may give a copy that is late.                                *)
(*                                                                         *)
(* Of the object, only what the tool is about is kept: "on" when the key   *)
(* or the certificate is there, when the resource is disabled, or when the *)
(* object would be started by its daemons on their own; "off" when not;    *)
(* "none" when there is no such object, or no such resource.  A new object *)
(* is "beyond" when the line of its configuration that has it started is   *)
(* past what is read of a file, which is less than what may be written.    *)
(***************************************************************************)
EXTENDS Naturals, Sequences

CONSTANTS
    Tools,      \* the tools called
    MaxStates   \* a bound: the states of the object

Keyed == {"set_key", "delete_key"}
OfResources == {"enable", "disable"}
Creating == {"create", "create_at_once"}

ASSUME ToolsAssumption ==
    /\ Tools \subseteq Keyed \cup OfResources \cup
           Creating \cup {"disable_service", "certificate"}
    /\ MaxStates \in Nat \ {0}

VARIABLES
    write,      \* the tool called
    config,     \* what a new object is asked to be, "on", "beyond" or "off"
    place,      \* how far the call is
    states,     \* history: the states of the object, each with who made it
    copy,       \* the state the reads of the call give
    before,     \* the state read before the write; 0 for none
    daemon,     \* what the daemon did of the request
    base,       \* history: the state it was applied on
    made,       \* the state it made
    fate,       \* history: what became of its answer
    existed,    \* whether the key is told to have existed
    after,      \* the state read after the write; 0 for none, or an error told
    flagged,    \* whether a new object is told to be flagged stopped
    clipped     \* whether its file is told truncated

request == <<daemon, base, made, fate>>
answer == <<existed, after, flagged, clipped>>
writeVars == <<write, config, place, states, copy, before, request, answer>>

Committed == {"written", "unchanged", "ignored"}
Now == Len(states)
Current == states[Now].value
Copied == states[copy].value

Values == {"none", "off", "on", "beyond"}

\* The states of what the tool is about.
States == IF write \in Creating THEN Values ELSE Values \ {"beyond"}

WriteTypeOK ==
    /\ write \in Tools
    /\ config \in {"on", "beyond", "off"}
    /\ place \in {"start", "ready", "sent", "again", "done", "error"}
    /\ states \in Seq([value : Values, by : {"this", "other"}])
    /\ copy \in 1 .. Now
    /\ before \in 0 .. Now
    /\ daemon \in {"none", "asked", "refused"} \cup Committed
    /\ base \in 0 .. Now
    /\ made \in 0 .. Now
    /\ fate \in {"none", "arrived", "lost"}
    /\ existed \in {"unknown", "yes", "no"}
    /\ after \in 0 .. Now
    /\ flagged \in {"yes", "no"}
    /\ clipped \in BOOLEAN

WriteInit ==
    /\ write \in Tools
    /\ config \in IF write \in Creating THEN {"on", "beyond", "off"} ELSE {"off"}
    /\ place = "start"
    /\ \E value \in States : states = <<[value |-> value, by |-> "other"]>>
    /\ copy = 1
    /\ before = 0
    /\ daemon = "none"
    /\ base = 0
    /\ made = 0
    /\ fate = "none"
    /\ existed = "unknown"
    /\ after = 0
    /\ flagged = "no"
    /\ clipped = FALSE

-----------------------------------------------------------------------------
(* Bugs of the tools, each put in place of its definition by a mutation run. *)

\* The resources asked are not looked for in the service.
IsThereAssumed(value) == TRUE

\* The new object is read again before its daemon knows it.
KnownAlways == TRUE

-----------------------------------------------------------------------------
(* Before the write.                                                       *)

\* Invalid arguments, or a read before the write that fails.
RefuseWrite ==
    /\ place = "start"
    /\ place' = "error"
    /\ UNCHANGED <<write, config, states, copy, before, request, answer>>

\* An object that has keys, a service that has the resources.
IsThere(value) == value # "none"

ReadKeys ==
    /\ place = "start" /\ write \in Keyed
    /\ before' = copy
    /\ existed' = IF Copied = "on" THEN "yes" ELSE "no"
    /\ place' = IF IsThere(Copied) THEN "ready" ELSE "error"
    /\ UNCHANGED <<write, config, states, copy, request, after, flagged, clipped>>

CheckResources ==
    /\ place = "start" /\ write \in OfResources
    /\ before' = copy
    /\ place' = IF IsThere(Copied) THEN "ready" ELSE "error"
    /\ UNCHANGED <<write, config, states, copy, request, answer>>

\* The other tools read nothing before.
CheckArguments ==
    /\ place = "start" /\ write \notin Keyed \cup OfResources
    /\ place' = "ready"
    /\ UNCHANGED <<write, config, states, copy, before, request, answer>>

SendWrite ==
    /\ place = "ready"
    /\ place' = "sent"
    /\ daemon' = "asked"
    /\ UNCHANGED <<write, config, states, copy, before, base, made, fate, answer>>

-----------------------------------------------------------------------------
(* The daemon and the others.                                              *)

\* What the write makes of a state; a daemon answers 204 for a resource the
\* service has not, with nothing written.
Made(value) ==
    CASE write \in Creating -> IF value = "none" THEN config ELSE "refused"
      [] write \in OfResources /\ value = "none" -> "ignored"
      [] value = "none" -> "refused"
      [] write \in {"set_key", "disable", "disable_service", "certificate"} -> "on"
      [] write \in {"delete_key", "enable"} -> "off"

\* The daemon does the write, or refuses it, for a client that left as well.
DaemonWrites ==
    /\ daemon = "asked"
    /\ Now < MaxStates
    /\ base' = Now
    /\ LET value == Made(Current)
       IN  /\ daemon' = IF value \in {"refused", "ignored"} THEN value
                        ELSE IF value = Current THEN "unchanged" ELSE "written"
           /\ states' = IF daemon' = "written"
                        THEN Append(states, [value |-> value, by |-> "this"]) ELSE states
           /\ made' = IF daemon' \in Committed THEN Len(states') ELSE 0
    /\ UNCHANGED <<write, config, place, copy, before, fate, answer>>

\* A value not accepted, a daemon that cannot write.
DaemonDeclines ==
    /\ daemon = "asked"
    /\ daemon' = "refused"
    /\ UNCHANGED <<write, config, place, states, copy, before, base, made, fate, answer>>

OtherWritesObject ==
    /\ Now < MaxStates
    /\ \E value \in States \ {Current} :
          states' = Append(states, [value |-> value, by |-> "other"])
    /\ UNCHANGED <<write, config, place, copy, before, request, answer>>

\* The node read takes the configuration written elsewhere.
Reaches ==
    /\ copy < Now
    /\ copy' \in copy + 1 .. Now
    /\ UNCHANGED <<write, config, place, states, before, request, answer>>

-----------------------------------------------------------------------------
(* The answer.                                                             *)

\* With wait_local, a new object is answered once the daemon knows it.
Known == write = "create" => copy >= made

\* The answer of a write; those of keys may come with the nodes that do not
\* have it yet, the others read what they made.
WriteAnswered ==
    /\ place = "sent" /\ daemon \in Committed /\ Known
    /\ fate' = "arrived"
    /\ place' = IF write \in Keyed THEN "done" ELSE "again"
    /\ UNCHANGED <<write, config, states, copy, before, daemon, base, made, answer>>

WriteRefused ==
    /\ place = "sent" /\ daemon = "refused"
    /\ fate' = "arrived"
    /\ place' = "error"
    /\ UNCHANGED <<write, config, states, copy, before, daemon, base, made, answer>>

\* The connection breaks, the caller leaves, the answer is not one the tool
\* reads, or the client gives up: wait_local is not held under its timeout.
WriteLost ==
    /\ place = "sent"
    /\ fate' = "lost"
    /\ place' = "error"
    /\ UNCHANGED <<write, config, states, copy, before, daemon, base, made, answer>>

\* The configuration file, the keywords or the keys are read again; a new
\* object is told flagged when what is read of its file orchestrates it on its
\* own, and any file may be longer than that.
ReadBack ==
    /\ place = "again"
    /\ after' = IF IsThere(Copied) THEN copy ELSE 0
    /\ flagged' = IF write \in Creating /\ Copied = "on" THEN "yes" ELSE "no"
    /\ clipped' \in IF write \notin Creating \/ ~IsThere(Copied) THEN {FALSE}
                    ELSE IF Copied = "beyond" THEN {TRUE} ELSE BOOLEAN
    /\ place' = "done"
    /\ UNCHANGED <<write, config, states, copy, before, request, existed>>

\* The error is told beside the write (content_error, keywords_error,
\* keys_error).
ReadBackFails ==
    /\ place = "again"
    /\ place' = "done"
    /\ UNCHANGED <<write, config, states, copy, before, request, answer>>

WriteNext ==
    \/ RefuseWrite \/ ReadKeys \/ CheckResources \/ CheckArguments \/ SendWrite
    \/ DaemonWrites \/ DaemonDeclines \/ OtherWritesObject \/ Reaches
    \/ WriteAnswered \/ WriteRefused \/ WriteLost \/ ReadBack \/ ReadBackFails

WriteSpec == WriteInit /\ [][WriteNext]_writeVars
-----------------------------------------------------------------------------
(* Properties.                                                             *)

\* Somebody else wrote the object after one state, up to another.
Crossed(m, n) == \E i \in m + 1 .. n : states[i].by = "other"

\* A call told done is of a write that was done: the key told to have existed
\* did when it was written, and the resources asked are enabled or disabled,
\* unless somebody wrote the object between the read before and the write, or
\* the read was of a late copy (patchObjectData, refuseUnknownResources).
DoneIsWritten ==
    place = "done" =>
        /\ daemon \in Committed
        /\ write \in Keyed =>
              (existed = "yes" <=> states[base].value = "on") \/ Crossed(before, base)
        /\ write \in OfResources => daemon # "ignored" \/ Crossed(before, base)

\* What is told of a new object is what the write made, or what somebody wrote
\* over it: once its daemon knows it, the file read again is not older; and it
\* is told flagged when the configuration written, the part that is not read
\* included, orchestrates it on its own, unless the file is told truncated, of
\* which a "no" says nothing.  A write done is told an error only when its
\* answer was lost, whatever becomes of the read after it (CreateObject,
\* orchestratesOnItsOwn, SetObjectEnabled, CreateObjectCertificate).
ReadBackIsOfTheWrite ==
    /\ place = "done" /\ write = "create" /\ after # 0 => after >= made
    /\ place = "done" /\ write \in Creating /\ after # 0 /\ after >= made =>
          \/ flagged = "yes" <=> config \in {"on", "beyond"}
          \/ flagged = "no" /\ clipped
          \/ Crossed(made, after)
    /\ place = "error" /\ daemon \in Committed => fate = "lost"
=============================================================================
