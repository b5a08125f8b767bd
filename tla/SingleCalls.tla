---------------------------- MODULE SingleCalls ----------------------------
(***************************************************************************)
(* Tools whose calls share nothing in the server, which keeps nothing      *)
(* between two calls: a behaviour is one call of one of them, with the     *)
(* daemon and the others that write what it reads.  Each of the modules    *)
(* describes some of the tools; those of a tool not called stay as they    *)
(* were.                                                                   *)
(***************************************************************************)
EXTENDS BoundedReads, StatusProjection, SecondReads, ObjectWrites

VARIABLE tool   \* the tools the one called is of

\* The states in which a module waits for a call that does not come: a read of
\* nothing, a document without a block, the clearing of an instance, the
\* making of a certificate in a sec that is not there.
NoRead == kind = "file" /\ body = <<>>
NoStatus == source = [name \in Block |-> Null]
NoReread == ask = "clear"
NoWrite == write = "certificate" /\ states = <<[value |-> "none", by |-> "other"]>>

CallInit ==
    /\ tool \in {"body", "status", "reread", "write"}
    /\ (tool # "body" => NoRead)
    /\ (tool # "status" => NoStatus)
    /\ (tool # "reread" => NoReread)
    /\ (tool # "write" => NoWrite)
    /\ Init /\ StatusInit /\ RereadInit /\ WriteInit

CallNext ==
    /\ tool' = tool
    /\ \/ tool = "body" /\ Next /\ UNCHANGED <<statusVars, rereadVars, writeVars>>
       \/ tool = "status" /\ StatusNext /\ UNCHANGED <<vars, rereadVars, writeVars>>
       \/ tool = "reread" /\ RereadNext /\ UNCHANGED <<vars, statusVars, writeVars>>
       \/ tool = "write" /\ WriteNext /\ UNCHANGED <<vars, statusVars, rereadVars>>

callVars == <<vars, statusVars, rereadVars, writeVars, tool>>

CallSpec == CallInit /\ [][CallNext]_callVars
=============================================================================
