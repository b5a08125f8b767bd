---------------------------- MODULE BoundedReads ----------------------------
(***************************************************************************)
(* The reads of the daemon whose answers are bounded by the server.  The   *)
(* logs of a node or of an instance are a stream of events, oldest first,  *)
(* read to its end by GetSSE, then cut to the lines asked and to a budget  *)
(* of message runes, from the newest (GetNodeLogs, GetInstanceLogs).  The  *)
(* log of a container is a stream of bytes, kept from its start up to two  *)
(* bounds (GetContainerLogs).  A file is read whole or refused (GetFile,   *)
(* GetText), the value of a data key or a resource file cut and told       *)
(* incomplete (GetBlob).                                                   *)
(*                                                                         *)
(* Each bound is found by reading past it, an entry or a byte: nothing     *)
(* else tells a whole answer from one the bound cut, nor an end of stream  *)
(* from the end the bounded reader makes up.                               *)
(***************************************************************************)
EXTENDS Integers, Sequences

CONSTANTS
    Kinds,          \* the reads: "logs", "container", "file", "blob"
    Bodies,         \* a bound: what the daemon may have to send
    Fresh,          \* a bound: the entries a journal may gain
    Grown,          \* a bound: the entries it may grow to
    Lines,          \* the entries of a log asked for
    MaxMessage,     \* the runes of a message of a log
    MaxMessages,    \* the runes of all the messages of an answer
    MaxLine,        \* the bytes of a line of a stream of events
    MaxBody,        \* the bytes of a body
    MaxRaw,         \* the bytes of a container log kept
    MaxContent      \* the runes of a container log answered

VARIABLES
    kind,       \* the read
    body,       \* the parts the daemon has: the entries of a journal, oldest
                \* first, or the chunks of a content, each with its bytes and runes
    first,      \* the first part it sends
    last,       \* the last part it sends
    next,       \* the part it sends next
    left,       \* the bytes the bounded reader still reads
    event,      \* the entry whose data are read, its event not dispatched; or 0
    entries,    \* the entries consumed
    raw,        \* the bytes of the content kept
    runes,      \* the runes of that content
    from,       \* the position of the first of the entries asked for
    index,      \* the position of the entry the budget is applied to next
    room,       \* the runes left in the budget
    shown,      \* shown[k]: the runes answered of the message of entries[k]
    told,       \* whether the answer is told truncated, or incomplete
    pc          \* how far the read is

stream == <<first, last, next, left, event>>
bounded == <<from, index, room, shown>>
vars == <<kind, body, stream, entries, raw, runes, bounded, told, pc>>

Parts == [bytes : Nat \ {0}, runes : Nat]

ASSUME BoundsAssumption ==
    /\ Kinds \subseteq {"logs", "container", "file", "blob"}
    /\ Bodies \subseteq Seq(Parts)
    /\ Fresh \subseteq Parts
    /\ Grown \in Nat
    /\ Lines \in Nat \ {0}
    /\ MaxMessage \in Nat \ {0}
    /\ MaxMessages \in Nat \ {0}
    /\ MaxLine \in Nat
    /\ MaxBody \in Nat
    /\ MaxRaw \in 0 .. MaxBody - 1
    /\ MaxContent \in Nat

\* The answer of a log is made, or is being made.
Bounding == kind = "logs" /\ pc \in {"bounding", "answered"}

TypeOK ==
    /\ kind \in Kinds
    /\ body \in Seq(Parts)
    /\ first \in Nat \ {0}
    /\ last \in Nat
    /\ next \in Nat \ {0}
    /\ left \in Nat
    /\ event \in Nat
    /\ entries \in Seq(Nat \ {0})
    /\ raw \in Nat
    /\ runes \in Nat
    /\ from \in Nat \ {0}
    /\ index \in Nat
    /\ room \in Nat
    /\ shown \in IF Bounding THEN [index + 1 .. Len(entries) -> Nat] ELSE {<<>>}
    /\ told \in {"whole", "truncated"}
    /\ pc \in {"idle", "reading", "ended", "bounding", "answered", "error"}

Init ==
    /\ kind \in Kinds
    /\ body \in Bodies
    /\ first = 1
    /\ last = 0
    /\ next = 1
    /\ left = MaxBody + 1
    /\ event = 0
    /\ entries = <<>>
    /\ raw = 0
    /\ runes = 0
    /\ from = 1
    /\ index = 0
    /\ room = MaxMessages
    /\ shown = <<>>
    /\ told = "whole"
    /\ pc = "idle"

Least(m, n) == IF m < n THEN m ELSE n
-----------------------------------------------------------------------------
(* Bugs of the reads, each put in place of its definition by a mutation     *)
(* run.                                                                     *)

\* The budget that is used up exactly ends the answer as if it were whole.
TellsShortened(cut, stopped) == cut

\* A stream that breaks is taken for one that ends.
BreaksAsEnd ==
    /\ pc = "reading"
    /\ pc' = "ended"
    /\ UNCHANGED <<kind, body, stream, entries, raw, runes, bounded, told>>
-----------------------------------------------------------------------------
(* The stream.                                                             *)

\* One entry more than those of the answer, for it to be told truncated.
Asked == Lines + 1

\* A body that has more bytes than its bound.
Beyond(bytes, bound) == bytes > bound

\* The daemon answers: a log with the newest entries asked for, another body
\* from its start.
Open ==
    /\ pc = "idle"
    /\ first' = IF kind = "logs" /\ Len(body) > Asked THEN Len(body) - Asked + 1 ELSE 1
    /\ next' = first'
    /\ last' = Len(body)
    /\ pc' = "reading"
    /\ UNCHANGED <<kind, body, left, event, entries, raw, runes, bounded, told>>

\* The journal grows before or while it is read; what the daemon sends may
\* run to its end.
Grows ==
    /\ kind = "logs"
    /\ pc \in {"idle", "reading"}
    /\ Len(body) < Grown
    /\ \E part \in Fresh : body' = Append(body, part)
    /\ last' \in IF pc = "reading" /\ last = Len(body) THEN {last, last + 1} ELSE {last}
    /\ UNCHANGED <<kind, first, next, left, event, entries, raw, runes, bounded, told, pc>>

\* The read is refused, or the answer is not a 2xx of the type expected.
Refused ==
    /\ pc = "idle"
    /\ pc' = "error"
    /\ UNCHANGED <<kind, body, stream, entries, raw, runes, bounded, told>>

\* The connection breaks, or the client times out.
Breaks ==
    /\ pc = "reading"
    /\ pc' = "error"
    /\ UNCHANGED <<kind, body, stream, entries, raw, runes, bounded, told>>

\* The data line of an event, or the part of it the reader has room for.
ReceiveData ==
    /\ kind = "logs" /\ pc = "reading"
    /\ next <= last /\ event = 0 /\ left > 0
    /\ left' = left - Least(body[next].bytes, left)
    /\ event' = IF body[next].bytes <= left THEN next ELSE 0
    /\ next' = next + 1
    /\ pc' = IF Least(body[next].bytes, left) > MaxLine THEN "error" ELSE "reading"
    /\ UNCHANGED <<kind, body, first, last, entries, raw, runes, bounded, told>>

\* The event is consumed: its entry has a message, of the node, object and ids
\* asked for, and is not one more than the daemon was asked.
Consumed ==
    body[event].runes > 0 /\ Len(entries) < Asked

\* The blank line that ends an event.
Dispatch ==
    /\ pc = "reading" /\ event # 0
    /\ event' = 0
    /\ \/ Consumed /\ entries' = Append(entries, event) /\ pc' = "reading"
       \/ ~Consumed /\ entries' = entries /\ pc' = "error"
    /\ UNCHANGED <<kind, body, first, last, next, left, raw, runes, bounded, told>>

\* An event of another object, or that is not a log, ends the read.
Foreign ==
    /\ pc = "reading" /\ event # 0
    /\ pc' = "error"
    /\ UNCHANGED <<kind, body, stream, entries, raw, runes, bounded, told>>

\* A chunk of a content, or the part of it the reader has room for.  The
\* consumer of a container log stops the read once it would keep too much.
ReceiveChunk ==
    /\ kind # "logs" /\ pc = "reading"
    /\ next <= last /\ left > 0
    /\ LET n == Least(body[next].bytes, left)
           full == kind = "container" /\ Beyond(raw + n, MaxRaw)
       IN  /\ left' = left - n
           /\ raw' = IF full THEN MaxRaw ELSE raw + n
           /\ told' = IF full THEN "truncated" ELSE told
           /\ pc' = IF full THEN "ended" ELSE "reading"
           /\ runes' \in IF ~full /\ n = body[next].bytes THEN {runes + body[next].runes}
                         ELSE runes .. runes + body[next].runes
    /\ next' = next + 1
    /\ UNCHANGED <<kind, body, first, last, event, entries, bounded>>

\* The end of the body, or the one the reader makes up once it has no room.
\* The event left, without its blank line, is dispatched first.
End ==
    /\ pc = "reading" /\ event = 0
    /\ next > last \/ left = 0
    /\ pc' = "ended"
    /\ UNCHANGED <<kind, body, stream, entries, raw, runes, bounded, told>>

-----------------------------------------------------------------------------
(* What is answered.                                                       *)

\* A stream of events, or a file, beyond its bound is refused.
Exceeds ==
    /\ pc = "ended"
    /\ \/ kind = "logs" /\ left = 0
       \/ kind = "file" /\ Beyond(raw, MaxBody)
    /\ pc' = "error"
    /\ UNCHANGED <<kind, body, stream, entries, raw, runes, bounded, told>>

AnswerFile ==
    /\ pc = "ended" /\ kind = "file"
    /\ ~Beyond(raw, MaxBody)
    /\ pc' = "answered"
    /\ UNCHANGED <<kind, body, stream, entries, raw, runes, bounded, told>>

AnswerBlob ==
    /\ pc = "ended" /\ kind = "blob"
    /\ raw' = Least(raw, MaxBody)
    /\ told' = IF Beyond(raw, MaxBody) THEN "truncated" ELSE "whole"
    /\ pc' = "answered"
    /\ UNCHANGED <<kind, body, stream, entries, runes, bounded>>

\* Cut to its runes, the last of them a mark.
AnswerContainer ==
    /\ pc = "ended" /\ kind = "container"
    /\ runes' = IF Beyond(runes, MaxContent) THEN MaxContent ELSE runes
    /\ told' = IF Beyond(runes, MaxContent) THEN "truncated" ELSE told
    /\ pc' = "answered"
    /\ UNCHANGED <<kind, body, stream, entries, raw, bounded>>

\* The newest of the entries, those asked for.
KeepNewest ==
    /\ pc = "ended" /\ kind = "logs" /\ left > 0
    /\ from' = IF Len(entries) > Lines THEN Len(entries) - Lines + 1 ELSE 1
    /\ told' = IF Len(entries) > Lines THEN "truncated" ELSE "whole"
    /\ index' = Len(entries)
    /\ pc' = "bounding"
    /\ UNCHANGED <<kind, body, stream, entries, raw, runes, room, shown>>

\* An answer is told truncated for a message cut as for the entries not reached.
Tells(cut, stopped) == cut \/ stopped

\* The message of one entry, the newest left, cut to its bound and to the
\* budget.
BoundMessage ==
    /\ pc = "bounding" /\ index >= from /\ room > 0
    /\ LET whole == body[entries[index]].runes
           kept == Least(Least(whole, MaxMessage), room)
       IN  /\ shown' = [k \in index .. Len(entries) |-> IF k = index THEN kept ELSE shown[k]]
           /\ room' = room - kept
           /\ told' = IF Tells(kept < whole, FALSE) THEN "truncated" ELSE told
    /\ index' = index - 1
    /\ UNCHANGED <<kind, body, stream, entries, raw, runes, from, pc>>

\* No entry is left, or no rune of the budget for those that are.
AnswerLogs ==
    /\ pc = "bounding"
    /\ index < from \/ room = 0
    /\ told' = IF Tells(FALSE, index >= from) THEN "truncated" ELSE told
    /\ pc' = "answered"
    /\ UNCHANGED <<kind, body, stream, entries, raw, runes, bounded>>

Next ==
    \/ Open \/ Grows \/ Refused \/ Breaks
    \/ ReceiveData \/ Dispatch \/ Foreign \/ ReceiveChunk \/ End
    \/ Exceeds \/ AnswerFile \/ AnswerBlob \/ AnswerContainer
    \/ KeepNewest \/ BoundMessage \/ AnswerLogs

Spec == Init /\ [][Next]_vars
-----------------------------------------------------------------------------
(* Properties.                                                             *)

\* The entries answered are the newest the daemon sent, in order and without
\* a gap, no more than asked for and within the budget; they are told
\* truncated exactly when an older entry of its journal, or a part of a
\* message, is left out (GetNodeLogs, GetInstanceLogs).
NewestLogsTold ==
    kind = "logs" /\ pc = "answered" =>
        LET oldest == last - Len(entries) + index + 1
        IN  /\ \A k \in index + 1 .. Len(entries) :
                  /\ entries[k] = last - Len(entries) + k
                  /\ shown[k] <= MaxMessage
                  /\ shown[k] <= body[entries[k]].runes
            /\ Len(entries) - index <= Lines
            /\ told = "truncated" <=>
                  \/ oldest > 1
                  \/ \E k \in index + 1 .. Len(entries) : shown[k] < body[entries[k]].runes

\* The sums of the first n of some amounts, n by n.
SumTo(amounts) ==
    LET sum[n \in 0 .. Len(amounts)] == IF n = 0 THEN 0 ELSE sum[n - 1] + amounts[n]
    IN  sum

\* The bytes and the runes of the first n parts.
BytesTo == SumTo([i \in 1 .. Len(body) |-> body[i].bytes])
RunesTo == SumTo([i \in 1 .. Len(body) |-> body[i].runes])

TotalBytes == BytesTo[Len(body)]
TotalRunes == RunesTo[Len(body)]

\* A content is told whole exactly when every byte and rune the daemon has of
\* it is answered, and a file is never answered cut (GetFile, GetText, GetBlob,
\* GetContainerLogs).
WholeUnlessTold ==
    kind # "logs" /\ pc = "answered" =>
        /\ told = "whole" <=> raw = TotalBytes /\ runes = TotalRunes
        /\ kind = "file" => told = "whole"
=============================================================================
