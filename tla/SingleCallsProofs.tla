------------------------- MODULE SingleCallsProofs -------------------------
(***************************************************************************)
(* Proofs about the tools whose calls share nothing, each about its module *)
(* alone; of SingleCalls, where a behaviour is a call of one of them, that *)
(* it is a behaviour of each (CallsApart), so that all of it holds there.  *)
(*                                                                         *)
(* BoundedReads: its type invariant, and that a log answered holds the     *)
(* newest entries without a gap and tells what it leaves out.  The entries *)
(* consumed are consecutive (Consecutive), so that once the stream ended   *)
(* they are the ones the daemon sent; it sent the whole journal, or one    *)
(* entry more than asked for (SentEnough); and the bounds tell what they   *)
(* cut (Cutting).                                                          *)
(*                                                                         *)
(* SecondReads: that a run is confirmed by humans and told by its session  *)
(* (RereadInv), and that what is read after an action is newer than what   *)
(* was read before (NewerInv: each read is dated, and two of one date are  *)
(* the same).                                                              *)
(*                                                                         *)
(* ObjectWrites: that a write told done is done, and that what is told of  *)
(* the object is what the write made, unless somebody wrote it in between. *)
(* At most one state is of this call (OthersMadeTheRest), so that where    *)
(* nobody crossed, what was read is what was written on (WriteInv).        *)
(*                                                                         *)
(* StatusProjection: that the cuts told of an instance are those made, and *)
(* what is kept the least, whatever the shapes.  A value projected is      *)
(* sound (Sound), by the nesting left (Projects); that the functions of    *)
(* the nesting exist and what they are of one level is Levels, Projections,*)
(* Missings and Keepings.                                                  *)
(***************************************************************************)
EXTENDS SingleCalls, FiniteSetTheorems, TLAPS

-----------------------------------------------------------------------------
(* The bounded reads.                                                      *)

\* The entries consumed are those sent so far, one after the other.
Consecutive ==
    /\ \A k \in 1 .. Len(entries) : entries[k] + 1 = first + k
    /\ event # 0 => event = first + Len(entries) /\ event <= last
    /\ pc = "reading" /\ left > 0 =>
          /\ next <= last + 1
          /\ event = 0 => next = first + Len(entries)
          /\ event # 0 => next = event + 1
    /\ pc = "ended" /\ left > 0 => last + 1 = first + Len(entries)
    /\ Bounding => last + 1 = first + Len(entries)

\* The first entry sent is the oldest of the journal, or more than those asked
\* for follow it.
SentEnough == pc # "idle" => first = 1 \/ last >= first + Lines

Shortened == \E k \in index + 1 .. Len(entries) : shown[k] < body[entries[k]].runes

\* What the bounds keep, and what they tell.
Cutting ==
    Bounding =>
        /\ from = IF Len(entries) > Lines THEN Len(entries) - Lines + 1 ELSE 1
        /\ index >= from - 1
        /\ index <= Len(entries)
        /\ \A k \in index + 1 .. Len(entries) :
              shown[k] <= MaxMessage /\ shown[k] <= body[entries[k]].runes
        /\ pc = "bounding" => (told = "truncated" <=> from > 1 \/ Shortened)
        /\ pc = "answered" => (told = "truncated" <=> from > 1 \/ Shortened \/ index >= from)
        /\ pc = "answered" => index < from \/ room = 0

Fresh0 == pc = "idle" => entries = <<>> /\ event = 0 /\ last = 0 /\ first = 1

\* The daemon sends no more than it has, and the budgets are for logs only.
Sent == last <= Len(body) /\ (pc = "bounding" => kind = "logs")

\* What holds of a read of logs; any other keeps no entry to show.
LogInv == kind = "logs" => Fresh0 /\ Consecutive /\ SentEnough /\ Cutting

IInv == TypeOK /\ Sent /\ LogInv

LEMMA PartTyped == ASSUME TypeOK, NEW i \in 1 .. Len(body)
                   PROVE  /\ body[i] \in Parts
                          /\ body[i].bytes \in Nat \ {0} /\ body[i].runes \in Nat
<1>1. body[i] \in Parts
  BY DEF TypeOK
<1> QED BY <1>1 DEF Parts

\* The position the budget is applied to is that of an entry the daemon has.
LEMMA BoundedAt ==
    ASSUME TypeOK, Sent, kind = "logs" => Consecutive /\ Cutting,
           pc = "bounding", index >= from
    PROVE  /\ Bounding /\ index \in 1 .. Len(entries)
           /\ entries[index] \in 1 .. Len(body)
           /\ entries[index] + 1 = first + index
<1>1. Bounding
  BY DEF Sent, Bounding
<1>2. index \in 1 .. Len(entries)
  BY <1>1 DEF Cutting, TypeOK, Bounding
<1>3. entries[index] + 1 = first + index /\ last + 1 = first + Len(entries)
  BY <1>1, <1>2 DEF Consecutive, Bounding
<1>4. last <= Len(body) /\ first \in Nat \ {0} /\ Len(entries) \in Nat /\ Len(body) \in Nat /\ last \in Nat
  BY DEF Sent, TypeOK
<1>5. entries[index] \in Nat \ {0}
  BY <1>2 DEF TypeOK
<1>6. entries[index] <= last
  BY <1>2, <1>3, <1>4, <1>5
<1> QED BY <1>1, <1>2, <1>3, <1>4, <1>5, <1>6

\* Each step keeps the types of the variables.
LEMMA TypeStep == ASSUME TypeOK, BoundsAssumption, [Next]_vars, Sent, kind = "logs" => Consecutive /\ Cutting
                  PROVE  TypeOK'
<1> USE BoundsAssumption DEF BoundsAssumption
<1>1. CASE Open
  BY <1>1 DEF Open, TypeOK, Bounding, bounded, Asked
<1>2. CASE Grows
  <2>1. PICK part \in Fresh : body' = Append(body, part)
    BY <1>2 DEF Grows
  <2>2. part \in Parts
    BY <2>1
  <2>3. body' \in Seq(Parts)
    BY <2>1, <2>2 DEF TypeOK
  <2> QED BY <1>2, <2>3 DEF Grows, TypeOK, Bounding, bounded
<1>3. CASE Refused \/ Breaks \/ Foreign \/ End
  BY <1>3 DEF Refused, Breaks, Foreign, End, TypeOK, Bounding, bounded, stream
<1>4. CASE ReceiveData
  <2>1. body[next].bytes \in Nat \ {0}
    BY <1>4, PartTyped DEF ReceiveData, TypeOK, Sent
  <2>2. left' \in Nat /\ event' \in Nat /\ next' \in Nat \ {0} /\ pc' \in {"error", "reading"}
    BY <1>4, <2>1 DEF ReceiveData, TypeOK, Least
  <2> QED BY <1>4, <2>2 DEF ReceiveData, TypeOK, Bounding, bounded
<1>5. CASE Dispatch
  <2>1. entries' \in Seq(Nat \ {0})
    <3>1. entries' = Append(entries, event) \/ entries' = entries
      BY <1>5 DEF Dispatch
    <3>2. event \in Nat \ {0} /\ entries \in Seq(Nat \ {0})
      BY <1>5 DEF Dispatch, TypeOK
    <3> QED BY <3>1, <3>2
  <2> QED BY <1>5, <2>1 DEF Dispatch, TypeOK, Bounding, bounded
<1>6. CASE ReceiveChunk
  <2> DEFINE n == Least(body[next].bytes, left)
             full == kind = "container" /\ Beyond(raw + n, MaxRaw)
  <2>1. body[next].bytes \in Nat \ {0} /\ body[next].runes \in Nat
    BY <1>6, PartTyped DEF ReceiveChunk, TypeOK, Sent
  <2>2. n \in Nat /\ n <= left
    BY <2>1 DEF Least, TypeOK
  <2>3. left' = left - n /\ raw' \in {MaxRaw, raw + n}
    BY <1>6 DEF ReceiveChunk
  <2>4. told' \in {"whole", "truncated"} /\ pc' \in {"ended", "reading"}
    BY <1>6 DEF ReceiveChunk, TypeOK
  <2>5. runes' \in {runes + body[next].runes} \/ runes' \in runes .. runes + body[next].runes
    BY <1>6 DEF ReceiveChunk
  <2>6. left' \in Nat /\ raw' \in Nat /\ runes' \in Nat
    <3>1. left \in Nat /\ raw \in Nat /\ runes \in Nat /\ MaxRaw \in Nat
      BY DEF TypeOK
    <3> HIDE DEF n
    <3>2. left' \in Nat /\ raw' \in Nat
      BY <3>1, <2>2, <2>3
    <3>3. runes' \in Nat
      BY <3>1, <2>1, <2>5
    <3> QED BY <3>2, <3>3
  <2> HIDE DEF n, full
  <2> QED BY <1>6, <2>4, <2>6 DEF ReceiveChunk, TypeOK, Bounding, bounded
<1>7. CASE Exceeds \/ AnswerFile
  BY <1>7 DEF Exceeds, AnswerFile, TypeOK, Bounding, bounded, stream
<1>8. CASE AnswerBlob \/ AnswerContainer
  BY <1>8 DEF AnswerBlob, AnswerContainer, TypeOK, Bounding, bounded, stream, Least, Beyond
<1>9. CASE KeepNewest
  BY <1>9 DEF KeepNewest, TypeOK, Bounding, stream
<1>10. CASE BoundMessage
  <2> DEFINE whole == body[entries[index]].runes
             kept == Least(Least(whole, MaxMessage), room)
  <2>1. Bounding /\ index \in 1 .. Len(entries) /\ entries[index] \in 1 .. Len(body)
    BY <1>10, BoundedAt DEF Sent, BoundMessage
  <2>2. whole \in Nat
    BY <2>1, PartTyped
  <2>3. kept \in Nat /\ kept <= room /\ room \in Nat /\ index \in Nat /\ index - 1 \in Nat
    BY <2>1, <2>2 DEF Least, TypeOK
  <2>4. /\ shown' = [k \in index .. Len(entries) |-> IF k = index THEN kept ELSE shown[k]]
        /\ room' = room - kept /\ index' = index - 1
        /\ told' \in {"truncated", told} /\ entries' = entries /\ pc' = pc /\ kind' = kind
    BY <1>10 DEF BoundMessage
  <2> HIDE DEF kept
  <2>5. shown \in [index + 1 .. Len(entries) -> Nat]
    BY <2>1 DEF TypeOK
  <2>6. shown' \in [index' + 1 .. Len(entries') -> Nat]
    <3>1. \A k \in index .. Len(entries) : k = index \/ k \in index + 1 .. Len(entries)
      BY <2>3 DEF TypeOK
    <3> QED BY <3>1, <2>3, <2>4, <2>5
  <2>7. room' \in Nat /\ index' \in Nat
    BY <2>3, <2>4
  <2>8. Bounding'
    BY <2>1, <2>4 DEF Bounding
  <2> QED BY <1>10, <2>4, <2>6, <2>7, <2>8 DEF BoundMessage, TypeOK, stream
<1>11. CASE AnswerLogs
  BY <1>11 DEF AnswerLogs, TypeOK, Bounding, stream, bounded
<1>12. CASE UNCHANGED vars
  BY <1>12 DEF vars, TypeOK, Bounding, stream, bounded
<1> QED
  BY <1>1, <1>2, <1>3, <1>4, <1>5, <1>6, <1>7, <1>8, <1>9, <1>10, <1>11, <1>12 DEF Next

\* Each step keeps what the daemon sends within what it has.
LEMMA SentStep == ASSUME TypeOK, BoundsAssumption, Next, Sent
                  PROVE  Sent'
<1>1. CASE Grows
  <2>1. Len(body') = Len(body) + 1 /\ last' \in {last, last + 1} /\ (last' # last => last = Len(body))
    BY <1>1 DEF Grows, TypeOK
  <2> QED BY <1>1, <2>1 DEF Grows, Sent, TypeOK
<1>2. CASE Open \/ Refused \/ Breaks \/ Foreign \/ End
  BY <1>2 DEF Open, Refused, Breaks, Foreign, End, stream, Sent, TypeOK
<1>3. CASE ReceiveData \/ Dispatch
  BY <1>3 DEF ReceiveData, Dispatch, Sent, TypeOK
<1>4. CASE ReceiveChunk
  <2>1. pc' \in {"ended", "reading"} /\ last' = last /\ body' = body
    BY <1>4 DEF ReceiveChunk
  <2> QED BY <2>1 DEF Sent
<1>5. CASE Exceeds \/ AnswerFile \/ AnswerBlob \/ AnswerContainer
  BY <1>5 DEF Exceeds, AnswerFile, AnswerBlob, AnswerContainer, stream, Sent, TypeOK
<1>6. CASE KeepNewest \/ BoundMessage \/ AnswerLogs
  BY <1>6 DEF KeepNewest, BoundMessage, AnswerLogs, stream, Sent, TypeOK
<1> QED BY <1>1, <1>2, <1>3, <1>4, <1>5, <1>6 DEF Next

-----------------------------------------------------------------------------
\* A step of the stream keeps the entries consecutive.
LEMMA StreamStep ==
    ASSUME TypeOK, Sent, LogInv, BoundsAssumption, kind = "logs", kind' = kind,
           Open \/ Grows \/ Refused \/ Breaks \/ Foreign \/ ReceiveData \/ Dispatch \/ End
    PROVE  /\ Fresh0' /\ Consecutive' /\ SentEnough'
           /\ ~Bounding'
<1> USE BoundsAssumption DEF BoundsAssumption
<1> USE DEF LogInv
<1>1. CASE Open
  <2>1. entries = <<>> /\ event = 0 /\ Len(entries) = 0
    BY <1>1 DEF Open, Fresh0
  <2>2. /\ first' = IF Len(body) > Asked THEN Len(body) - Asked + 1 ELSE 1
        /\ next' = first' /\ last' = Len(body) /\ pc' = "reading"
        /\ entries' = entries /\ event' = event /\ left' = left /\ body' = body
    BY <1>1 DEF Open
  <2>3. Len(body) \in Nat /\ Asked \in Nat \ {0, 1} /\ Asked = Lines + 1
    BY DEF Asked, TypeOK
  <2>4. next' <= last' + 1 /\ (first' = 1 \/ last' >= first' + Lines)
    BY <2>2, <2>3
  <2> QED BY <2>1, <2>2, <2>3, <2>4 DEF Fresh0, Consecutive, SentEnough, Bounding, TypeOK
<1>2. CASE Grows
  <2>1. /\ last' \in {last, last + 1} /\ first' = first /\ next' = next /\ left' = left
        /\ event' = event /\ entries' = entries /\ pc' = pc /\ pc \in {"idle", "reading"}
        /\ pc = "idle" => last' = last
    BY <1>2 DEF Grows
  <2>2. first \in Nat \ {0} /\ last \in Nat /\ next \in Nat /\ left \in Nat /\ event \in Nat
        /\ last' \in Nat /\ last' >= last /\ Lines \in Nat
    BY <2>1 DEF TypeOK
  <2>3. CASE pc = "idle"
    BY <2>1, <2>2, <2>3 DEF Fresh0, SentEnough, Consecutive, Bounding
  <2>4. CASE pc = "reading"
    <3>1. Fresh0' /\ ~Bounding'
      BY <2>1, <2>4 DEF Fresh0, Bounding
    <3>2. first = 1 \/ last >= first + Lines
      BY <2>4 DEF SentEnough
    <3>3. SentEnough'
      <4>1. first' = first /\ last' >= last /\ first \in Nat /\ last \in Nat /\ last' \in Nat /\ Lines \in Nat
        BY <2>1, <2>2
      <4>2. first' = 1 \/ last' >= first' + Lines
        BY <3>2, <4>1
      <4> QED BY <4>2 DEF SentEnough
    <3>4. \A k \in 1 .. Len(entries) : entries[k] + 1 = first + k
      BY DEF Consecutive
    <3>5. event # 0 => event = first + Len(entries) /\ event <= last
      BY DEF Consecutive
    <3>6. left > 0 => /\ next <= last + 1
                      /\ event = 0 => next = first + Len(entries)
                      /\ event # 0 => next = event + 1
      BY <2>4 DEF Consecutive
    <3>7. Consecutive'
      <4>1. \A k \in 1 .. Len(entries') : entries'[k] + 1 = first' + k
        BY <2>1, <3>4
      <4>2. event' # 0 => event' = first' + Len(entries') /\ event' <= last'
        BY <2>1, <2>2, <3>5
      <4>3. left' > 0 => /\ next' <= last' + 1
                         /\ event' = 0 => next' = first' + Len(entries')
                         /\ event' # 0 => next' = event' + 1
        <5>1. CASE left > 0
          <6>1. next <= last + 1 /\ next \in Nat /\ last \in Nat /\ last' \in Nat /\ last' >= last
            BY <2>2, <3>6, <5>1
          <6>2. \A a, b, c \in Nat : a <= b + 1 /\ c >= b => a <= c + 1
            OBVIOUS
          <6>3. next <= last' + 1
            BY <6>1, <6>2
          <6> QED BY <2>1, <3>6, <5>1, <6>3
        <5>2. CASE ~(left > 0)
          BY <2>1, <5>2
        <5> QED BY <5>1, <5>2
      <4>4. pc' = "reading"
        BY <2>1, <2>4
      <4> QED BY <3>1, <4>1, <4>2, <4>3, <4>4 DEF Consecutive
    <3> QED BY <3>1, <3>3, <3>7
  <2> QED BY <2>1, <2>3, <2>4
<1>3. CASE Refused \/ Breaks \/ Foreign
  <2>1. /\ pc' = "error" /\ first' = first /\ last' = last /\ next' = next /\ left' = left
        /\ event' = event /\ entries' = entries /\ pc \in {"idle", "reading"}
    BY <1>3 DEF Refused, Breaks, Foreign, stream
  <2>2. SentEnough'
    BY <1>3, <2>1 DEF SentEnough, Fresh0, Refused, Breaks, Foreign
  <2>3. Fresh0' /\ Consecutive' /\ ~Bounding'
    BY <2>1 DEF Fresh0, Consecutive, Bounding
  <2> QED BY <2>2, <2>3
<1>4. CASE ReceiveData
  <2>1. body[next].bytes \in Nat \ {0}
    BY <1>4, PartTyped DEF ReceiveData, TypeOK, Sent
  <2>2. /\ left' < left /\ next' = next + 1 /\ pc' \in {"reading", "error"}
        /\ event = 0 /\ event' \in {next, 0} /\ (left' > 0 => event' = next)
        /\ entries' = entries /\ first' = first /\ last' = last /\ next <= last /\ body' = body
        /\ left > 0 /\ pc = "reading"
    BY <1>4, <2>1 DEF ReceiveData, TypeOK, Least
  <2> QED BY <2>2 DEF Fresh0, Consecutive, SentEnough, Bounding, TypeOK
<1>5. CASE Dispatch
  <2>1. /\ pc = "reading" /\ event # 0 /\ event' = 0 /\ first' = first /\ last' = last
        /\ next' = next /\ left' = left /\ pc' \in {"reading", "error"}
    BY <1>5 DEF Dispatch
  <2>2. CASE entries' = entries /\ pc' = "error"
    BY <2>1, <2>2 DEF Fresh0, Consecutive, SentEnough, Bounding, TypeOK
  <2>3. CASE entries' = Append(entries, event)
    <3>1. Len(entries') = Len(entries) + 1 /\ entries'[Len(entries) + 1] = event
      BY <2>1, <2>3 DEF TypeOK
    <3>2. \A k \in 1 .. Len(entries) : entries'[k] = entries[k]
      BY <2>1, <2>3 DEF TypeOK
    <3>3. \A k \in 1 .. Len(entries') : entries'[k] + 1 = first + k
      <4>1. \A k \in 1 .. Len(entries') : k = Len(entries) + 1 \/ k \in 1 .. Len(entries)
        BY <3>1 DEF TypeOK
      <4>2. event = first + Len(entries) /\ Len(entries) \in Nat /\ first \in Nat
        BY <2>1 DEF Consecutive, TypeOK
      <4>3. \A k \in 1 .. Len(entries) : entries[k] + 1 = first + k
        BY DEF Consecutive
      <4> QED BY <3>1, <3>2, <4>1, <4>2, <4>3
    <3>4. Len(entries) \in Nat /\ first \in Nat /\ event = first + Len(entries) /\ event <= last
      BY <2>1 DEF Consecutive, TypeOK
    <3> QED BY <2>1, <3>1, <3>3, <3>4 DEF Fresh0, Consecutive, SentEnough, Bounding, TypeOK
  <2> QED BY <1>5, <2>2, <2>3 DEF Dispatch
<1>6. CASE End
  BY <1>6 DEF End, stream, Fresh0, Consecutive, SentEnough, Bounding, TypeOK
<1> QED BY <1>1, <1>2, <1>3, <1>4, <1>5, <1>6

\* The entries asked for are the newest consumed.
LEMMA KeepStep ==
    ASSUME TypeOK, Sent, LogInv, BoundsAssumption, KeepNewest
    PROVE  /\ Fresh0' /\ Consecutive' /\ SentEnough' /\ Cutting'
<1> USE DEF LogInv
<1>1. /\ kind = "logs" /\ pc = "ended" /\ left > 0 /\ pc' = "bounding"
      /\ from' = IF Len(entries) > Lines THEN Len(entries) - Lines + 1 ELSE 1
      /\ told' = IF Len(entries) > Lines THEN "truncated" ELSE "whole"
      /\ index' = Len(entries) /\ shown' = shown
      /\ kind' = kind /\ body' = body /\ first' = first /\ last' = last /\ next' = next
      /\ left' = left /\ event' = event /\ entries' = entries
  BY DEF KeepNewest, stream
<1>2. Fresh0' /\ SentEnough'
  BY <1>1 DEF Fresh0, SentEnough
<1>3. Consecutive'
  BY <1>1 DEF Consecutive, Bounding
<1>4. Len(entries) \in Nat /\ Lines \in Nat \ {0}
  BY DEF TypeOK, BoundsAssumption
<1>5. \A n, l \in Nat : /\ n > l => n - l + 1 > 1 /\ n >= n - l + 1 - 1 /\ n - l + 1 \in Nat
                        /\ n >= 1 - 1
  OBVIOUS
<1>6. index' >= from' - 1 /\ index' <= Len(entries') /\ (from' > 1 <=> told' = "truncated")
  <2>1. CASE Len(entries) > Lines
    BY <1>1, <1>4, <1>5, <2>1
  <2>2. CASE ~(Len(entries) > Lines)
    BY <1>1, <1>4, <1>5, <2>2
  <2> QED BY <2>1, <2>2
<1>7. \A k \in index' + 1 .. Len(entries') : FALSE
  BY <1>1, <1>4
<1>8. Cutting'
  BY <1>1, <1>6, <1>7 DEF Cutting, Shortened
<1> QED BY <1>2, <1>3, <1>8

\* The budget keeps what it tells of one message more.
LEMMA MessageStep ==
    ASSUME TypeOK, Sent, LogInv, BoundsAssumption, BoundMessage
    PROVE  /\ Fresh0' /\ Consecutive' /\ SentEnough' /\ Cutting'
<1> USE DEF LogInv
<1> DEFINE whole == body[entries[index]].runes
           kept == Least(Least(whole, MaxMessage), room)
<1>1. /\ pc = "bounding" /\ index >= from /\ kind = "logs"
      /\ shown' = [k \in index .. Len(entries) |-> IF k = index THEN kept ELSE shown[k]]
      /\ told' = IF kept < whole THEN "truncated" ELSE told
      /\ index' = index - 1 /\ from' = from /\ pc' = pc
      /\ kind' = kind /\ body' = body /\ first' = first /\ last' = last /\ next' = next
      /\ left' = left /\ event' = event /\ entries' = entries
  BY DEF BoundMessage, Tells, stream, Sent
<1>2. Bounding /\ index \in 1 .. Len(entries) /\ entries[index] \in 1 .. Len(body) /\ Cutting
  BY <1>1, BoundedAt
<1>3. whole \in Nat
  BY <1>2, PartTyped
<1>4. kept <= whole /\ kept <= MaxMessage /\ kept \in Nat
  <2>1. MaxMessage \in Nat /\ room \in Nat
    BY DEF TypeOK, BoundsAssumption
  <2> QED BY <1>3, <2>1 DEF Least
<1> HIDE DEF kept, whole
<1>5. Fresh0' /\ SentEnough' /\ Consecutive'
  BY <1>1 DEF Fresh0, SentEnough, Consecutive, Bounding
<1>6. index \in Nat \ {0} /\ index' + 1 = index /\ Len(entries) \in Nat /\ from \in Nat \ {0}
  BY <1>1, <1>2 DEF TypeOK
<1>7. \A k \in index .. Len(entries) : k # index => k \in index + 1 .. Len(entries)
  BY <1>6
<1>8. shown'[index] = kept /\ \A k \in index + 1 .. Len(entries) : shown'[k] = shown[k]
  BY <1>1, <1>2, <1>6
<1>9. \A k \in index + 1 .. Len(entries) :
        shown[k] <= MaxMessage /\ shown[k] <= body[entries[k]].runes
  BY <1>2 DEF Cutting
<1>10. \A k \in index .. Len(entries) :
        shown'[k] <= MaxMessage /\ shown'[k] <= body[entries[k]].runes
  BY <1>4, <1>7, <1>8, <1>9 DEF whole
<1>11. Shortened' <=> (kept < whole \/ Shortened)
  <2>1. Shortened' <=> \E k \in index .. Len(entries) : shown'[k] < body[entries[k]].runes
    BY <1>1, <1>6 DEF Shortened
  <2>2. shown'[index] < body[entries[index]].runes <=> kept < whole
    BY <1>8 DEF whole
  <2>3. index \in index .. Len(entries)
    BY <1>2
  <2>4. index + 1 .. Len(entries) \subseteq index .. Len(entries)
    BY <1>6
  <2>5. CASE kept < whole
    BY <2>1, <2>2, <2>3, <2>5
  <2>6. CASE ~(kept < whole)
    BY <1>7, <1>8, <2>1, <2>2, <2>4, <2>6 DEF Shortened
  <2> QED BY <2>5, <2>6
<1>12. told = "truncated" <=> from > 1 \/ Shortened
  BY <1>1, <1>2 DEF Cutting
<1>13. told' = "truncated" <=> from > 1 \/ Shortened'
  BY <1>1, <1>11, <1>12
<1>14. \A i, f, n \in Nat : i >= f /\ i <= n => i - 1 >= f - 1 /\ i - 1 <= n
  OBVIOUS
<1>15. index' >= from' - 1 /\ index' <= Len(entries')
  BY <1>1, <1>2, <1>6, <1>14
<1>16. from = IF Len(entries) > Lines THEN Len(entries) - Lines + 1 ELSE 1
  BY <1>2 DEF Cutting
<1>17. Cutting'
  BY <1>1, <1>6, <1>10, <1>13, <1>15, <1>16 DEF Cutting
<1> QED BY <1>5, <1>17

LEMMA AnswerStep ==
    ASSUME TypeOK, Sent, LogInv, BoundsAssumption, AnswerLogs
    PROVE  /\ Fresh0' /\ Consecutive' /\ SentEnough' /\ Cutting'
<1> USE DEF LogInv
<1>1. /\ pc = "bounding" /\ kind = "logs" /\ pc' = "answered" /\ (index < from \/ room = 0)
      /\ told' = IF index >= from THEN "truncated" ELSE told
      /\ index' = index /\ from' = from /\ shown' = shown /\ room' = room
      /\ kind' = kind /\ body' = body /\ first' = first /\ last' = last /\ next' = next
      /\ left' = left /\ event' = event /\ entries' = entries
  BY DEF AnswerLogs, Tells, stream, bounded, Sent
<1>2. Bounding
  BY <1>1 DEF Bounding
<1>3. Fresh0' /\ SentEnough' /\ Consecutive'
  BY <1>1 DEF Fresh0, SentEnough, Consecutive, Bounding
<1>4. Shortened' <=> Shortened
  BY <1>1 DEF Shortened
<1>5. Cutting'
  BY <1>1, <1>2, <1>4 DEF Cutting
<1> QED BY <1>3, <1>5

LEMMA Initially == BoundsAssumption /\ Init => IInv
<1> SUFFICES ASSUME BoundsAssumption, Init PROVE IInv
  OBVIOUS
<1>1. TypeOK
  BY DEF BoundsAssumption, Init, TypeOK, Bounding
<1>2. Sent
  BY DEF BoundsAssumption, Init, Sent
<1>3. LogInv
  BY DEF Init, LogInv, Fresh0, Consecutive, SentEnough, Cutting, Bounding
<1> QED BY <1>1, <1>2, <1>3 DEF IInv

LEMMA LogStep == ASSUME IInv, BoundsAssumption, Next
                 PROVE  LogInv'
<1> USE DEF IInv
<1>1. CASE kind' # "logs"
  BY <1>1 DEF LogInv
<1>2. CASE kind' = "logs"
  <2>1. kind = "logs"
    BY <1>2 DEF Next, Open, Grows, Refused, Breaks, Foreign, ReceiveData, Dispatch, End,
                ReceiveChunk, Exceeds, AnswerFile, AnswerBlob, AnswerContainer, KeepNewest,
                BoundMessage, AnswerLogs
  <2>2. CASE Open \/ Grows \/ Refused \/ Breaks \/ Foreign \/ ReceiveData \/ Dispatch \/ End
    <3>1. Fresh0' /\ Consecutive' /\ SentEnough' /\ ~Bounding'
      BY <1>2, <2>1, <2>2, StreamStep
    <3> QED BY <3>1 DEF LogInv, Cutting
  <2>3. CASE KeepNewest
    BY <2>3, KeepStep DEF LogInv
  <2>4. CASE BoundMessage
    BY <2>4, MessageStep DEF LogInv
  <2>5. CASE AnswerLogs
    BY <2>5, AnswerStep DEF LogInv
  <2>6. CASE Exceeds
    <3>1. /\ pc' = "error" /\ pc = "ended" /\ entries' = entries /\ event' = event
          /\ first' = first /\ last' = last /\ SentEnough
      BY <2>1, <2>6 DEF Exceeds, LogInv, stream
    <3>2. Fresh0' /\ SentEnough' /\ ~Bounding'
      BY <3>1 DEF Fresh0, SentEnough, Bounding
    <3>3. Consecutive'
      BY <2>1, <3>1, <3>2 DEF LogInv, Consecutive
    <3> QED BY <3>2, <3>3 DEF LogInv, Cutting
  <2>7. ~(ReceiveChunk \/ AnswerFile \/ AnswerBlob \/ AnswerContainer)
    BY <2>1 DEF ReceiveChunk, AnswerFile, AnswerBlob, AnswerContainer
  <2> QED BY <2>2, <2>3, <2>4, <2>5, <2>6, <2>7 DEF Next
<1> QED BY <1>1, <1>2

LEMMA Invariance == ASSUME IInv, BoundsAssumption, [Next]_vars
                    PROVE  IInv'
<1>1. TypeOK'
  BY TypeStep DEF IInv, LogInv
<1>2. CASE Next
  BY <1>1, <1>2, SentStep, LogStep DEF IInv
<1>3. CASE UNCHANGED vars
  <2>1. Sent'
    BY <1>3 DEF vars, stream, Sent, IInv
  <2>2. LogInv'
    BY <1>3 DEF vars, stream, bounded, IInv, LogInv, Fresh0, Consecutive, SentEnough, Cutting,
                Bounding, Shortened
  <2> QED BY <1>1, <2>1, <2>2 DEF IInv
<1> QED BY <1>2, <1>3

LEMMA Inductive == Spec => []IInv
<1>1. Init => IInv
  BY Initially, BoundsAssumption
<1>2. IInv /\ [Next]_vars => IInv'
  BY Invariance, BoundsAssumption
<1> QED BY <1>1, <1>2, PTL DEF Spec

\* Every variable of a bounded read keeps its type; in particular, the budget
\* of a log never goes below zero and no message has more runes than it left.
THEOREM Typed == Spec => []TypeOK
<1>1. IInv => TypeOK
  BY DEF IInv
<1> QED BY <1>1, Inductive, PTL

\* What the first entry kept says of the oldest entry answered.
LEMMA OldestTold ==
    ASSUME NEW n \in Nat, NEW l \in Nat, NEW f \in Nat \ {0}, NEW t \in Nat, NEW b \in Nat \ {0},
           NEW i \in Nat, l + 1 = f + n, f = 1 \/ l >= f + t,
           b = IF n > t THEN n - t + 1 ELSE 1, i >= b - 1, i <= n
    PROVE  l - n + i + 1 > 1 <=> (b > 1 \/ i >= b)
<1>1. l - n + i + 1 = f + i
  OBVIOUS
<1>2. CASE f = 1
  BY <1>1, <1>2
<1>3. CASE l >= f + t
  <2>1. n > t
    BY <1>3
  <2>2. b > 1 /\ i >= 1
    BY <2>1
  <2> QED BY <1>1, <2>2
<1> QED BY <1>2, <1>3

\* The entries of a log answered are the newest the daemon sent, without a
\* gap and within the bounds; and the answer tells exactly when an older entry
\* or a part of a message is left out, whatever the bounds are and however the
\* journal grows (GetNodeLogs, GetInstanceLogs).
THEOREM NewestAndTold == Spec => []NewestLogsTold
<1>1. ASSUME IInv, BoundsAssumption PROVE NewestLogsTold
  <2> SUFFICES ASSUME kind = "logs", pc = "answered"
               PROVE  /\ \A k \in index + 1 .. Len(entries) :
                            /\ entries[k] = last - Len(entries) + k
                            /\ shown[k] <= MaxMessage
                            /\ shown[k] <= body[entries[k]].runes
                      /\ Len(entries) - index <= Lines
                      /\ told = "truncated" <=>
                            last - Len(entries) + index + 1 > 1 \/ Shortened
    BY DEF NewestLogsTold, Shortened
  <2>1. Bounding /\ Consecutive /\ SentEnough /\ Cutting
    BY <1>1 DEF IInv, LogInv, Bounding
  <2>2. /\ Len(entries) \in Nat /\ last \in Nat /\ first \in Nat \ {0} /\ Lines \in Nat
        /\ from \in Nat \ {0} /\ index \in Nat
    BY <1>1 DEF IInv, TypeOK, BoundsAssumption
  <2>3. last + 1 = first + Len(entries) /\ (first = 1 \/ last >= first + Lines)
    BY <2>1 DEF Consecutive, SentEnough
  <2>4. /\ from = IF Len(entries) > Lines THEN Len(entries) - Lines + 1 ELSE 1
        /\ index >= from - 1 /\ index <= Len(entries)
    BY <2>1 DEF Cutting
  <2>5. last - Len(entries) + index + 1 > 1 <=> (from > 1 \/ index >= from)
    BY <2>2, <2>3, <2>4, OldestTold
  <2>6. told = "truncated" <=> from > 1 \/ Shortened \/ index >= from
    BY <2>1 DEF Cutting
  <2>7. \A k \in index + 1 .. Len(entries) :
           /\ shown[k] <= MaxMessage
           /\ shown[k] <= body[entries[k]].runes
    BY <2>1 DEF Cutting
  <2>8. \A k \in index + 1 .. Len(entries) : entries[k] = last - Len(entries) + k
    <3> SUFFICES ASSUME NEW k \in index + 1 .. Len(entries)
                 PROVE  entries[k] = last - Len(entries) + k
      OBVIOUS
    <3>1. k \in 1 .. Len(entries)
      BY <2>2
    <3>2. entries[k] + 1 = first + k /\ entries[k] \in Nat
      BY <1>1, <2>1, <3>1 DEF Consecutive, IInv, TypeOK
    <3> QED BY <2>2, <2>3, <3>1, <3>2
  <2>9. Len(entries) - index <= Lines
    BY <2>2, <2>4
  <2> QED BY <2>5, <2>6, <2>7, <2>8, <2>9
<1> QED BY <1>1, Inductive, BoundsAssumption, PTL

-----------------------------------------------------------------------------
(* Induction, for the sums of what a content has: what a fact holds of is a   *)
(* set, the provers taking no fact about an operator.                         *)

\* A set that has 0, and one more than each number it has, has all numbers:
\* were one left out, those under it would be as many as all of them but 0.
LEMMA Induction ==
    ASSUME NEW S, 0 \in S, \A n \in Nat : n \in S => n + 1 \in S
    PROVE  Nat \subseteq S
<1> SUFFICES ASSUME NEW m \in Nat, m \notin S
             PROVE  FALSE
  OBVIOUS
<1> DEFINE T == {n \in 0 .. m : n \in S}
<1> DEFINE more == [n \in T |-> n + 1]
<1>1. IsFiniteSet(0 .. m)
  BY FS_Interval
<1>2. IsFiniteSet(T) /\ 0 \in T
  BY <1>1, FS_Subset
<1>3. IsFiniteSet(T \ {0}) /\ Cardinality(T \ {0}) = Cardinality(T) - 1
  <2> HIDE DEF T
  <2> QED BY <1>2, FS_RemoveElement
<1>4. Cardinality(T \ {0}) < Cardinality(T)
  <2>1. Cardinality(T) \in Nat
    BY <1>2, FS_CardinalityType
  <2> QED BY <1>3, <2>1
<1>5. more \in [T -> T \ {0}]
  <2>1. ASSUME NEW n \in T PROVE n + 1 \in T \ {0}
    <3>1. n # m /\ n \in Nat /\ n <= m
      OBVIOUS
    <3> QED BY <3>1
  <2> QED BY <2>1
<1> HIDE DEF T
<1>6. \E x, y \in T : x # y /\ more[x] = more[y]
  <2> HIDE DEF more
  <2> QED BY <1>2, <1>3, <1>4, <1>5, FS_PigeonHole
<1>7. PICK x \in T, y \in T : x # y /\ more[x] = more[y]
  BY <1>6
<1>8. x \in Nat /\ y \in Nat
  BY DEF T
<1> QED BY <1>7, <1>8

LEMMA InductionTo ==
    ASSUME NEW S, NEW N \in Nat, 0 \in S, \A n \in 1 .. N : n - 1 \in S => n \in S
    PROVE  0 .. N \subseteq S
<1> DEFINE T == {n \in Nat : n <= N => n \in S}
<1>1. 0 \in T
  OBVIOUS
<1>2. ASSUME NEW n \in Nat, n \in T PROVE n + 1 \in T
  <2>1. CASE n + 1 <= N
    <3>1. n + 1 \in 1 .. N /\ (n + 1) - 1 = n /\ n <= N
      BY <2>1
    <3>2. n \in S
      BY <1>2, <3>1
    <3>3. n + 1 \in S
      BY <3>1, <3>2
    <3> QED BY <3>3
  <2>2. CASE ~(n + 1 <= N)
    BY <2>2
  <2> QED BY <2>1, <2>2
<1> HIDE DEF T
<1>3. Nat \subseteq T
  BY <1>1, <1>2, Induction
<1> QED BY <1>3 DEF T

\* There are sums of any amounts.
LEMMA Sums ==
    ASSUME NEW N \in Nat, NEW amount \in [1 .. N -> Nat]
    PROVE  \E f \in [0 .. N -> Nat] : \A n \in 0 .. N : f[n] = IF n = 0 THEN 0 ELSE f[n - 1] + amount[n]
<1> DEFINE Upto(f, m) == /\ f[0] = 0
                         /\ \A n \in 1 .. N : n <= m => f[n] = f[n - 1] + amount[n]
<1> DEFINE S == {m \in Nat : \E f \in [0 .. N -> Nat] : Upto(f, m)}
<1>1. 0 \in S
  <2>1. Upto([n \in 0 .. N |-> 0], 0)
    OBVIOUS
  <2> QED BY <2>1
<1>2. ASSUME NEW m \in Nat, m \in S PROVE m + 1 \in S
  <2>1. PICK f \in [0 .. N -> Nat] : Upto(f, m)
    BY <1>2
  <2>2. CASE m + 1 \in 1 .. N
    <3> DEFINE g == [f EXCEPT ![m + 1] = f[m] + amount[m + 1]]
    <3>1. f[m] + amount[m + 1] \in Nat
      BY <2>2
    <3>2. g \in [0 .. N -> Nat]
      BY <3>1
    <3>3. g[0] = 0
      BY <2>1
    <3>4. ASSUME NEW n \in 1 .. N, n <= m + 1 PROVE g[n] = g[n - 1] + amount[n]
      <4>1. n - 1 \in 0 .. N /\ n - 1 # m + 1
        BY <3>4
      <4>2. g[n - 1] = f[n - 1]
        BY <4>1
      <4>3. CASE n = m + 1
        <5>1. n - 1 = m
          BY <4>3
        <5> QED BY <4>2, <4>3, <5>1
      <4>4. CASE n # m + 1
        <5>1. n <= m /\ g[n] = f[n]
          BY <3>4, <4>4
        <5> QED BY <2>1, <4>2, <5>1
      <4> QED BY <4>3, <4>4
    <3> HIDE DEF g
    <3>5. Upto(g, m + 1)
      BY <3>3, <3>4
    <3> QED BY <3>2, <3>5
  <2>3. CASE m + 1 \notin 1 .. N
    <3>1. Upto(f, m + 1)
      BY <2>1, <2>3
    <3> QED BY <3>1
  <2> QED BY <2>2, <2>3
<1> HIDE DEF S
<1>3. N \in S
  BY <1>1, <1>2, Induction
<1>4. PICK f \in [0 .. N -> Nat] : Upto(f, N)
  BY <1>3 DEF S
<1>5. ASSUME NEW n \in 0 .. N PROVE f[n] = IF n = 0 THEN 0 ELSE f[n - 1] + amount[n]
  BY <1>4
<1> QED BY <1>5

\* The sums of amounts grow by each.
LEMMA SumsOf ==
    ASSUME NEW N \in Nat, NEW amounts, amounts \in [1 .. N -> Nat], Len(amounts) = N
    PROVE  /\ SumTo(amounts)[0] = 0
           /\ \A n \in 1 .. N : SumTo(amounts)[n] = SumTo(amounts)[n - 1] + amounts[n]
           /\ \A n \in 0 .. N : SumTo(amounts)[n] \in Nat
<1>1. PICK f \in [0 .. N -> Nat] :
          \A n \in 0 .. N : f[n] = IF n = 0 THEN 0 ELSE f[n - 1] + amounts[n]
  BY Sums
<1> DEFINE sum[n \in 0 .. N] == IF n = 0 THEN 0 ELSE sum[n - 1] + amounts[n]
<1>2. f = [n \in 0 .. N |-> IF n = 0 THEN 0 ELSE f[n - 1] + amounts[n]]
  BY <1>1
<1>3. sum = [n \in 0 .. N |-> IF n = 0 THEN 0 ELSE sum[n - 1] + amounts[n]]
  BY <1>2
<1>4. sum = SumTo(amounts)
  BY DEF SumTo
<1> HIDE DEF sum
<1>5. sum[0] = 0 /\ \A n \in 1 .. N : sum[n] = sum[n - 1] + amounts[n]
  BY <1>3
<1> DEFINE S == {n \in 0 .. N : sum[n] \in Nat}
<1>6. 0 \in S
  BY <1>5
<1>7. ASSUME NEW n \in 1 .. N, n - 1 \in S PROVE n \in S
  BY <1>5, <1>7
<1> HIDE DEF S
<1>8. 0 .. N \subseteq S
  BY <1>6, <1>7, InductionTo
<1>9. \A n \in 0 .. N : sum[n] \in Nat
  BY <1>8 DEF S
<1> QED BY <1>4, <1>5, <1>9

-----------------------------------------------------------------------------
(* The contents.                                                           *)

\* The bytes and the runes of the parts sum up, part by part.
LEMMA SumsOfParts ==
    ASSUME TypeOK
    PROVE  /\ BytesTo[0] = 0 /\ RunesTo[0] = 0
           /\ \A n \in 1 .. Len(body) : /\ BytesTo[n] = BytesTo[n - 1] + body[n].bytes
                                        /\ RunesTo[n] = RunesTo[n - 1] + body[n].runes
           /\ \A n \in 0 .. Len(body) : BytesTo[n] \in Nat /\ RunesTo[n] \in Nat
<1> DEFINE N == Len(body)
           ofBytes == [i \in 1 .. N |-> body[i].bytes]
           ofRunes == [i \in 1 .. N |-> body[i].runes]
<1>1. N \in Nat
  BY DEF TypeOK
<1>2. \A i \in 1 .. N : body[i].bytes \in Nat /\ body[i].runes \in Nat
  BY PartTyped
<1> HIDE DEF N
<1>3. ofBytes \in [1 .. N -> Nat] /\ ofRunes \in [1 .. N -> Nat]
  BY <1>2
<1>4. Len(ofBytes) = N /\ Len(ofRunes) = N
  BY <1>1
<1>5. \A i \in 1 .. N : ofBytes[i] = body[i].bytes /\ ofRunes[i] = body[i].runes
  OBVIOUS
<1> HIDE DEF ofBytes, ofRunes
<1>6. /\ SumTo(ofBytes)[0] = 0
      /\ \A n \in 1 .. N : SumTo(ofBytes)[n] = SumTo(ofBytes)[n - 1] + ofBytes[n]
      /\ \A n \in 0 .. N : SumTo(ofBytes)[n] \in Nat
  BY <1>1, <1>3, <1>4, SumsOf
<1>7. /\ SumTo(ofRunes)[0] = 0
      /\ \A n \in 1 .. N : SumTo(ofRunes)[n] = SumTo(ofRunes)[n - 1] + ofRunes[n]
      /\ \A n \in 0 .. N : SumTo(ofRunes)[n] \in Nat
  BY <1>1, <1>3, <1>4, SumsOf
<1>8. BytesTo = SumTo(ofBytes) /\ RunesTo = SumTo(ofRunes)
  BY DEF BytesTo, RunesTo, ofBytes, ofRunes, N
<1>9. /\ BytesTo[0] = 0 /\ RunesTo[0] = 0
      /\ \A n \in 1 .. N : /\ BytesTo[n] = BytesTo[n - 1] + body[n].bytes
                           /\ RunesTo[n] = RunesTo[n - 1] + body[n].runes
      /\ \A n \in 0 .. N : BytesTo[n] \in Nat /\ RunesTo[n] \in Nat
  BY <1>5, <1>6, <1>7, <1>8
<1> QED BY <1>9 DEF N

\* No part takes bytes away.
LEMMA BytesGrow ==
    ASSUME TypeOK, NEW n \in 0 .. Len(body)
    PROVE  BytesTo[n] <= TotalBytes
<1> DEFINE N == Len(body)
           sum == BytesTo
           S == {m \in 0 .. N : n <= m => sum[n] <= sum[m]}
<1>1. N \in Nat /\ n \in 0 .. N
  BY DEF TypeOK
<1>2. \A m \in 0 .. N : sum[m] \in Nat
  BY SumsOfParts
<1>3. ASSUME NEW m \in 1 .. N PROVE sum[m - 1] <= sum[m]
  <2>1. sum[m] = sum[m - 1] + body[m].bytes
    BY <1>3, SumsOfParts
  <2>2. body[m].bytes \in Nat
    BY <1>3, PartTyped
  <2>3. sum[m - 1] \in Nat
    BY <1>1, <1>2
  <2> HIDE DEF sum
  <2> QED BY <2>1, <2>2, <2>3
<1> HIDE DEF N, sum
<1>4. 0 \in S
  BY <1>1, <1>2
<1>5. ASSUME NEW m \in 1 .. N, m - 1 \in S PROVE m \in S
  <2>1. m \in 0 .. N /\ m - 1 \in 0 .. N /\ n \in 0 .. N
    BY <1>1
  <2>2. sum[n] \in Nat /\ sum[m - 1] \in Nat /\ sum[m] \in Nat
    BY <1>2, <2>1
  <2>3. n <= m => n = m \/ n <= m - 1
    BY <2>1
  <2>4. n <= m - 1 => sum[n] <= sum[m - 1]
    BY <1>5
  <2>5. n <= m => sum[n] <= sum[m]
    BY <1>3, <2>2, <2>3, <2>4
  <2> QED BY <2>1, <2>5
<1> HIDE DEF S
<1>6. 0 .. N \subseteq S
  BY <1>1, <1>4, <1>5, InductionTo
<1>7. N \in S
  BY <1>1, <1>6
<1>8. sum[n] <= sum[N]
  BY <1>1, <1>7 DEF S
<1> QED BY <1>8 DEF TotalBytes, sum, N

\* What is read so far of a content: every byte and rune of the parts sent, or
\* all the bytes there is room for, fewer than those parts have.
ReadSoFar ==
    /\ raw + left = MaxBody + 1
    /\ \/ raw = BytesTo[next - 1] /\ runes = RunesTo[next - 1]
       \/ left = 0 /\ raw < BytesTo[next - 1]

\* A container log stopped at its bound has more bytes.
Stopped == kind = "container" /\ pc = "ended" /\ raw = MaxRaw /\ raw < BytesTo[next - 1]

Contents ==
    /\ pc = "idle" => /\ raw = 0 /\ runes = 0 /\ left = MaxBody + 1 /\ next = 1 /\ first = 1
                      /\ told = "whole"
    /\ pc \in {"reading", "ended"} =>
          /\ last = Len(body) /\ next <= last + 1
          /\ told = "truncated" => Stopped
          /\ told = "whole" => ReadSoFar /\ (kind = "container" => raw <= MaxRaw)
          /\ told = "whole" /\ pc = "ended" => next > last \/ left = 0

ContentInv == kind # "logs" => Contents /\ WholeUnlessTold

\* What is summed is of the body alone.
LEMMA SameSums ==
    ASSUME body' = body
    PROVE  BytesTo' = BytesTo /\ RunesTo' = RunesTo
  BY DEF BytesTo, RunesTo

\* A part read, whole or not.
LEMMA ChunkStep ==
    ASSUME IInv, kind # "logs", Contents, ReceiveChunk
    PROVE  Contents'
<1> DEFINE bytes == body[next].bytes
           n == Least(bytes, left)
           full == kind = "container" /\ Beyond(raw + n, MaxRaw)
<1>1. TypeOK /\ next \in 1 .. Len(body) /\ left \in Nat /\ left > 0 /\ raw \in Nat /\ runes \in Nat
  BY DEF IInv, TypeOK, Sent, ReceiveChunk
<1>2. /\ MaxBody \in Nat /\ MaxRaw \in Nat /\ MaxRaw < MaxBody
      /\ Len(body) \in Nat
  BY BoundsAssumption DEF BoundsAssumption, IInv, TypeOK
<1>3. /\ last = Len(body) /\ told = "whole" /\ raw + left = MaxBody + 1
      /\ raw = BytesTo[next - 1] /\ runes = RunesTo[next - 1]
  BY <1>1 DEF Contents, Stopped, ReadSoFar, ReceiveChunk, TypeOK
<1>4. /\ BytesTo[next] = raw + bytes /\ RunesTo[next] = runes + body[next].runes
      /\ bytes \in Nat \ {0}
  BY <1>1, <1>3, SumsOfParts, PartTyped
<1>5. /\ left' = left - n /\ next' = next + 1
      /\ raw' = IF full THEN MaxRaw ELSE raw + n
      /\ told' = IF full THEN "truncated" ELSE told
      /\ pc' = IF full THEN "ended" ELSE "reading"
      /\ ~full /\ n = bytes => runes' = runes + body[next].runes
      /\ UNCHANGED <<kind, body, first, last>>
  BY DEF ReceiveChunk
<1>6. n = IF bytes < left THEN bytes ELSE left
  BY DEF Least
<1>7. BytesTo' = BytesTo /\ RunesTo' = RunesTo /\ next' - 1 = next
  BY <1>1, <1>5, SameSums
<1> HIDE DEF bytes, n
<1>8. last' = Len(body') /\ next' <= last' + 1 /\ pc' # "idle"
  BY <1>1, <1>2, <1>3, <1>5
<1>9. CASE full
  <2>1. raw + n > MaxRaw /\ n <= bytes
    BY <1>1, <1>4, <1>6, <1>9 DEF Beyond
  <2>2. MaxRaw < BytesTo[next]
    BY <1>1, <1>2, <1>4, <1>6, <2>1
  <2>3. told' = "truncated" /\ Stopped'
    BY <1>5, <1>7, <1>9, <2>2 DEF Stopped
  <2> QED BY <1>8, <2>3 DEF Contents
<1>10. CASE ~full
  <2>1. told' = "whole" /\ pc' = "reading" /\ raw' = raw + n
    BY <1>3, <1>5, <1>10
  <2>2. raw' + left' = MaxBody + 1
    <3>1. n \in Nat /\ n <= left
      BY <1>1, <1>4, <1>6
    <3>2. raw' = raw + n /\ left' = left - n
      BY <1>5, <2>1
    <3> QED BY <1>1, <1>2, <1>3, <3>1, <3>2
  <2>3. ASSUME n = bytes PROVE ReadSoFar'
    <3>1. raw' = BytesTo[next] /\ runes' = RunesTo[next]
      BY <1>4, <1>5, <1>10, <2>1, <2>3
    <3> QED BY <1>7, <2>2, <3>1 DEF ReadSoFar
  <2>4. ASSUME n # bytes PROVE ReadSoFar'
    <3>1. n = left /\ left' = 0 /\ raw' < BytesTo[next]
      BY <1>1, <1>4, <1>5, <1>6, <2>1, <2>4
    <3> QED BY <1>7, <2>2, <3>1 DEF ReadSoFar
  <2>5. kind' = "container" => raw' <= MaxRaw
    <3>1. kind = "container" => ~(raw + n > MaxRaw)
      BY <1>10 DEF Beyond
    <3>2. raw + n \in Nat
      BY <1>1, <1>4, <1>6
    <3> QED BY <1>2, <1>5, <2>1, <3>1, <3>2
  <2>6. ReadSoFar'
    BY <2>3, <2>4
  <2> QED BY <1>8, <2>1, <2>5, <2>6 DEF Contents
<1> QED BY <1>9, <1>10

\* What is answered of a content is told as it is.
LEMMA ContentAnswered ==
    ASSUME IInv, kind # "logs", Contents, AnswerFile \/ AnswerBlob \/ AnswerContainer
    PROVE  WholeUnlessTold'
<1>1. /\ TypeOK /\ pc = "ended" /\ last = Len(body) /\ next \in Nat \ {0} /\ next <= last + 1
      /\ raw \in Nat /\ left \in Nat /\ runes \in Nat
      /\ told \in {"whole", "truncated"} /\ Len(body) \in Nat
  BY DEF IInv, TypeOK, Contents, AnswerFile, AnswerBlob, AnswerContainer
<1>2. MaxBody \in Nat /\ MaxRaw \in Nat /\ MaxRaw < MaxBody /\ MaxContent \in Nat
  BY BoundsAssumption DEF BoundsAssumption
<1>3. next - 1 \in 0 .. Len(body)
  BY <1>1
<1>4. BytesTo[next - 1] \in Nat /\ TotalBytes \in Nat /\ BytesTo[next - 1] <= TotalBytes
  BY <1>1, <1>3, SumsOfParts, BytesGrow DEF TotalBytes
<1>5. TotalBytes' = TotalBytes /\ TotalRunes' = TotalRunes
  <2>1. body' = body
    BY DEF AnswerFile, AnswerBlob, AnswerContainer
  <2> QED BY <2>1, SameSums DEF TotalBytes, TotalRunes
\* What is read whole, with room left, is all there is.
<1>6. ASSUME told = "whole", raw <= MaxBody PROVE raw = TotalBytes /\ runes = TotalRunes
  <2>1. raw + left = MaxBody + 1 /\ (next > last \/ left = 0)
    BY <1>1, <1>6 DEF Contents, ReadSoFar
  <2>2. left # 0 /\ next - 1 = Len(body)
    BY <1>1, <1>2, <1>6, <2>1
  <2> QED BY <1>1, <1>6, <2>2 DEF Contents, ReadSoFar, TotalBytes, TotalRunes
<1>7. ASSUME told = "whole", raw > MaxBody PROVE MaxBody < TotalBytes
  <2>1. raw + left = MaxBody + 1 /\ raw <= BytesTo[next - 1]
    BY <1>1, <1>4, <1>7 DEF Contents, ReadSoFar
  <2> QED BY <1>1, <1>2, <1>4, <1>7, <2>1
<1>8. ASSUME told = "truncated" PROVE kind = "container" /\ raw < TotalBytes
  <2>1. kind = "container" /\ raw < BytesTo[next - 1]
    BY <1>1, <1>8 DEF Contents, Stopped
  <2> QED BY <1>1, <1>4, <2>1
<1>9. CASE AnswerFile
  <2>1. /\ kind = "file" /\ raw <= MaxBody /\ raw' = raw /\ runes' = runes /\ told' = told
        /\ kind' = kind
    BY <1>1, <1>2, <1>9 DEF AnswerFile, Beyond
  <2>2. told = "whole" /\ raw = TotalBytes /\ runes = TotalRunes
    BY <1>1, <1>6, <1>8, <2>1
  <2> QED BY <1>5, <2>1, <2>2 DEF WholeUnlessTold
<1>10. CASE AnswerBlob
  <2>1. /\ kind = "blob" /\ raw' = Least(raw, MaxBody) /\ runes' = runes /\ kind' = kind
        /\ told' = IF raw > MaxBody THEN "truncated" ELSE "whole"
    BY <1>10 DEF AnswerBlob, Beyond
  <2>2. told = "whole"
    BY <1>1, <1>8, <2>1
  <2>3. CASE raw > MaxBody
    <3>1. told' = "truncated" /\ raw' = MaxBody /\ MaxBody < TotalBytes
      BY <1>1, <1>2, <1>7, <2>1, <2>2, <2>3 DEF Least
    <3> QED BY <1>2, <1>4, <1>5, <2>1, <3>1 DEF WholeUnlessTold
  <2>4. CASE ~(raw > MaxBody)
    <3>1. told' = "whole" /\ raw' = raw /\ raw = TotalBytes /\ runes = TotalRunes
      BY <1>1, <1>2, <1>6, <2>1, <2>2, <2>4 DEF Least
    <3> QED BY <1>5, <2>1, <3>1 DEF WholeUnlessTold
  <2> QED BY <2>3, <2>4
<1>11. CASE AnswerContainer
  <2>1. /\ kind = "container" /\ raw' = raw /\ kind' = kind
        /\ runes' = IF runes > MaxContent THEN MaxContent ELSE runes
        /\ told' = IF runes > MaxContent THEN "truncated" ELSE told
    BY <1>11 DEF AnswerContainer, Beyond
  <2>2. CASE told = "truncated"
    BY <1>1, <1>4, <1>5, <1>8, <2>1, <2>2 DEF WholeUnlessTold
  <2>3. CASE told = "whole"
    <3>1. raw <= MaxBody
      BY <1>1, <1>2, <2>1, <2>3 DEF Contents
    <3>2. raw = TotalBytes /\ runes = TotalRunes
      BY <1>6, <2>3, <3>1
    <3> QED BY <1>1, <1>2, <1>5, <2>1, <2>3, <3>2 DEF WholeUnlessTold
  <2> QED BY <1>1, <2>2, <2>3
<1> QED BY <1>9, <1>10, <1>11

LEMMA ContentStep ==
    ASSUME IInv, ContentInv, [Next]_vars
    PROVE  ContentInv'
<1>0. kind' = kind
  BY DEF Next, Open, Grows, Refused, Breaks, ReceiveData, Dispatch, Foreign, ReceiveChunk, End,
         Exceeds, AnswerFile, AnswerBlob, AnswerContainer, KeepNewest, BoundMessage, AnswerLogs, vars
<1> SUFFICES ASSUME kind # "logs" PROVE Contents' /\ WholeUnlessTold'
  BY <1>0 DEF ContentInv
<1>1. Contents /\ WholeUnlessTold
  BY DEF ContentInv
<1>2. CASE Open
  <2>1. /\ first' = 1 /\ next' = 1 /\ last' = Len(body) /\ pc' = "reading" /\ pc = "idle"
        /\ UNCHANGED <<kind, body, left, raw, runes, told>>
    BY <1>2 DEF Open
  <2>2. /\ raw = 0 /\ runes = 0 /\ left = MaxBody + 1 /\ told = "whole" /\ Len(body) \in Nat
        /\ MaxBody \in Nat /\ MaxRaw \in Nat
    BY <1>1, <2>1, BoundsAssumption DEF Contents, IInv, TypeOK, BoundsAssumption
  <2>3. BytesTo'[0] = 0 /\ RunesTo'[0] = 0
    BY <2>1, SumsOfParts, SameSums DEF IInv
  <2>4. ReadSoFar'
    BY <2>1, <2>2, <2>3 DEF ReadSoFar
  <2> QED BY <2>1, <2>2, <2>4 DEF Contents, WholeUnlessTold
<1>3. CASE Refused \/ Breaks \/ Foreign \/ Exceeds
  BY <1>3 DEF Refused, Breaks, Foreign, Exceeds, Contents, WholeUnlessTold
<1>4. CASE Dispatch
  <2>1. /\ pc = "reading" /\ pc' \in {"reading", "error"}
        /\ UNCHANGED <<kind, body, first, last, next, left, raw, runes, told>>
    BY <1>4 DEF Dispatch, bounded
  <2>2. BytesTo' = BytesTo /\ RunesTo' = RunesTo
    BY <2>1, SameSums
  <2>3. pc' = "reading" => Contents'
    BY <1>1, <2>1, <2>2 DEF Contents, ReadSoFar, Stopped
  <2>4. pc' = "error" => Contents'
    BY DEF Contents
  <2> QED BY <2>1, <2>3, <2>4 DEF WholeUnlessTold
<1>5. CASE ReceiveChunk
  <2>1. pc' # "answered"
    BY <1>5 DEF ReceiveChunk
  <2> QED BY <1>1, <1>5, <2>1, ChunkStep DEF WholeUnlessTold
<1>6. CASE End
  <2>1. /\ pc = "reading" /\ pc' = "ended" /\ (next > last \/ left = 0)
        /\ UNCHANGED <<kind, body, first, last, next, left, raw, runes, told>>
    BY <1>6 DEF End, stream
  <2>2. BytesTo' = BytesTo /\ RunesTo' = RunesTo
    BY <2>1, SameSums
  <2>3. told = "whole"
    BY <1>1, <2>1 DEF Contents, Stopped, IInv, TypeOK
  <2>4. ReadSoFar => ReadSoFar'
    BY <2>1, <2>2 DEF ReadSoFar
  <2> QED BY <1>1, <2>1, <2>3, <2>4 DEF Contents, WholeUnlessTold
<1>7. CASE AnswerFile \/ AnswerBlob \/ AnswerContainer
  <2>1. pc' = "answered"
    BY <1>7 DEF AnswerFile, AnswerBlob, AnswerContainer
  <2> QED BY <1>1, <1>7, <2>1, ContentAnswered DEF Contents
<1>8. CASE Grows \/ ReceiveData \/ KeepNewest \/ BoundMessage \/ AnswerLogs
  BY <1>8 DEF Grows, ReceiveData, KeepNewest, BoundMessage, AnswerLogs, IInv, Sent
<1>9. CASE UNCHANGED vars
  <2>1. UNCHANGED <<kind, body, first, last, next, left, raw, runes, told, pc>>
    BY <1>9 DEF vars, stream
  <2>2. BytesTo' = BytesTo /\ RunesTo' = RunesTo /\ TotalBytes' = TotalBytes /\ TotalRunes' = TotalRunes
    BY <2>1, SameSums DEF TotalBytes, TotalRunes
  <2> QED BY <1>1, <2>1, <2>2 DEF Contents, ReadSoFar, Stopped, WholeUnlessTold
<1> QED BY <1>2, <1>3, <1>4, <1>5, <1>6, <1>7, <1>8, <1>9 DEF Next

\* For any bodies and bounds: a content is told whole exactly when every byte
\* and rune the daemon has of it is answered, and a file is never answered cut
\* (GetFile, GetText, GetBlob, GetContainerLogs).
THEOREM ContentsAreTold == Spec => []WholeUnlessTold
<1>1. Init => ContentInv
  BY DEF Init, ContentInv, Contents, WholeUnlessTold
<1>2. IInv /\ ContentInv /\ [Next]_vars => ContentInv'
  BY ContentStep
<1>3. ContentInv => WholeUnlessTold
  BY DEF ContentInv, WholeUnlessTold
<1> QED BY <1>1, <1>2, <1>3, Inductive, PTL DEF Spec

-----------------------------------------------------------------------------
(* The reads after an action.                                              *)

\* Once an action is asked, its tasks that ask a human changed since the check.
Confirmed ==
    /\ step \in {"start", "checked"} => exec = "none"
    /\ ask # "run" => \A s \in Subjects[ask] : ~HumanOnly(s)
    /\ step = "checked" \/ exec # "none" =>
          \A s \in Subjects[ask] : HumanOnly(s) => s \in configured
    /\ unconfirmed \subseteq configured

\* What is read as left by this call is what it left.
OwnReads ==
    \A s \in Subjects[ask] :
        /\ earlier[s].by = "this" => earlier[s] = ours[s]
        /\ reported[s].by = "this" => reported[s] = ours[s]
        /\ actual[s].by = "this" => actual[s] = ours[s]
        /\ published[s].by = "this" => published[s] = ours[s]

RunsTold ==
    ask = "run" /\ step = "done" /\ completed = "yes" =>
        \/ \A s \in Subjects[ask] : reported[s].by = "this"
        \/ \A s \in Subjects[ask] : reported[s] = Unread
        \/ clock = "over" \/ caller = "left"

RereadInv == RereadTypeOK /\ Confirmed /\ OwnReads /\ RunsTold

LEMMA Rereads ==
    ASSUME RereadTypeOK
    PROVE  /\ earlier \in [Subjects[ask] -> Readings(ask)]
           /\ reported \in [Subjects[ask] -> Readings(ask)]
           /\ actual \in [Subjects[ask] -> Readings(ask)]
           /\ published \in [Subjects[ask] -> Readings(ask)]
           /\ ours \in [Subjects[ask] -> Readings(ask)]
           /\ Seen \in [Subjects[ask] -> Readings(ask)]
           /\ [s \in Subjects[ask] |-> Unread] \in [Subjects[ask] -> Readings(ask)]
  BY DEF RereadTypeOK, Seen, Readings, Unread

LEMMA RereadInitially == AsksAssumption /\ RereadInit => RereadInv
<1> SUFFICES ASSUME AsksAssumption, RereadInit PROVE RereadInv
  OBVIOUS
<1>1. /\ [s \in Subjects[ask] |-> Unread] \in [Subjects[ask] -> Readings(ask)]
      /\ actual \in [Subjects[ask] -> Readings(ask)] /\ published = actual
  BY DEF RereadInit, Readings, Unread
<1>2. confirm \in [Subjects[ask] -> [section : {"unset", "no", "yes", "reference"},
                                      scoped : {"unset", "no", "yes", "reference"}]]
  BY DEF RereadInit, AsksAssumption
<1>3. RereadTypeOK
  BY <1>1, <1>2 DEF RereadInit, RereadTypeOK, AsksAssumption
<1>4. Confirmed /\ OwnReads /\ RunsTold
  BY DEF RereadInit, Confirmed, OwnReads, RunsTold, HumanOnly, Unread
<1> QED BY <1>3, <1>4 DEF RereadInv

\* The steps of the call itself.
LEMMA CallStep ==
    ASSUME RereadInv, RereadCall, AsksAssumption
    PROVE  RereadInv'
<1>1. /\ UNCHANGED <<ask, actual, published, confirm, ours, others, configured, unconfirmed>>
      /\ caller' = caller
      /\ earlier' \in {earlier, Seen}
      /\ reported' \in {reported, earlier, Seen, [s \in Subjects[ask] |-> Unread]}
      /\ exec' = exec \/ (exec' = "asked" /\ step = "checked")
      /\ completed' \in {"yes", "no"} /\ clock' \in {clock, "running"}
      /\ step' \in {"start", "checked", "posted", "following", "reading", "done", "error"}
  BY DEF RereadCall, RefuseAsk, CheckRun, CountBefore, ReadBefore, PostAsk, AskFails, AskAccepted,
         FollowEnds, ReadRuns, CountAfter, ReadAfterFails, Poll, PollFails, PollsEnd, call, world,
         RereadInv, RereadTypeOK
<1>2. RereadTypeOK'
  <2>1. /\ earlier' \in [Subjects[ask] -> Readings(ask)]
        /\ reported' \in [Subjects[ask] -> Readings(ask)]
        /\ actual' \in [Subjects[ask] -> Readings(ask)]
        /\ published' \in [Subjects[ask] -> Readings(ask)]
        /\ ours' \in [Subjects[ask] -> Readings(ask)]
    BY <1>1, Rereads DEF RereadInv
  <2> QED BY <1>1, <2>1 DEF RereadInv, RereadTypeOK
<1>3. Confirmed'
  <2>1. \A s \in Subjects[ask] : HumanOnly(s)' <=> HumanOnly(s)
    BY <1>1 DEF HumanOnly
  <2>2. step' \in {"start", "checked"} => exec' = "none"
    BY DEF RereadCall, RefuseAsk, CheckRun, CountBefore, ReadBefore, PostAsk, AskFails, AskAccepted,
           FollowEnds, ReadRuns, CountAfter, ReadAfterFails, Poll, PollFails, PollsEnd, world,
           RereadInv, Confirmed
  <2>3. step' = "checked" =>
            \/ ask # "run"
            \/ \A s \in Subjects[ask] : ~AsksHuman(Effective(confirm[s]))
    BY DEF RereadCall, RefuseAsk, CheckRun, CountBefore, ReadBefore, PostAsk, AskFails, AskAccepted,
           FollowEnds, ReadRuns, CountAfter, ReadAfterFails, Poll, PollFails, PollsEnd
  <2>4. \A s \in Subjects[ask] : ~AsksHuman(Effective(confirm[s])) => ~HumanOnly(s)
    BY DEF AsksHuman, Effective, HumanOnly, RereadInv, RereadTypeOK
  <2>5. exec' # "none" => step = "checked" \/ exec # "none"
    BY <1>1
  <2>6. /\ ask # "run" => \A s \in Subjects[ask] : ~HumanOnly(s)
        /\ step = "checked" \/ exec # "none" =>
              \A s \in Subjects[ask] : HumanOnly(s) => s \in configured
        /\ unconfirmed \subseteq configured
    BY DEF RereadInv, Confirmed
  <2>7. step' = "checked" => \A s \in Subjects[ask] : ~HumanOnly(s)
    BY <2>3, <2>4, <2>6
  <2> QED BY <1>1, <2>1, <2>2, <2>5, <2>6, <2>7 DEF Confirmed
<1>4. OwnReads'
  <2>1. \A s \in Subjects[ask] : Seen[s] = actual[s] \/ Seen[s] = published[s]
    BY DEF Seen
  <2>2. \A s \in Subjects[ask] : [t \in Subjects[ask] |-> Unread][s].by # "this"
    BY DEF Unread
  <2> QED BY <1>1, <2>1, <2>2 DEF RereadInv, OwnReads
<1>5. RunsTold'
  <2> SUFFICES ASSUME ask = "run", step' = "done", completed' = "yes" PROVE RunsTold'
    BY <1>1 DEF RunsTold
  <2>1. \/ ReadRuns \/ ReadAfterFails
    BY <1>1 DEF RereadCall, RefuseAsk, CheckRun, CountBefore, ReadBefore, PostAsk, AskFails, AskAccepted,
           FollowEnds, CountAfter, Poll, PollFails, PollsEnd
  <2>2. CASE ReadRuns
    BY <1>1, <2>2 DEF ReadRuns, RunsTold, IsOwn
  <2>3. CASE ReadAfterFails
    BY <1>1, <2>3 DEF ReadAfterFails, RunsTold
  <2> QED BY <2>1, <2>2, <2>3
<1> QED BY <1>2, <1>3, <1>4, <1>5 DEF RereadInv

\* What somebody leaves is dated after what was there.
LEMMA Left ==
    ASSUME RereadTypeOK, NEW s \in Subjects[ask], NEW who \in {"this", "other"},
           NEW value \in {"idle"} \cup Leaves[ask], Leave(s, who, value)
    PROVE  /\ actual' \in [Subjects[ask] -> Readings(ask)]
           /\ actual'[s] = [by |-> who, value |-> value, at |-> actual[s].at + 1]
           /\ \A t \in Subjects[ask] \ {s} : actual'[t] = actual[t]
<1>1. actual \in [Subjects[ask] -> Readings(ask)]
  BY Rereads
<1>2. actual[s].at \in Nat
  BY <1>1 DEF Readings
<1>3. [by |-> who, value |-> value, at |-> actual[s].at + 1] \in Readings(ask)
  BY <1>2 DEF Readings
<1> QED BY <1>1, <1>3 DEF Leave

LEMMA ActsStep ==
    ASSUME RereadInv, NEW s \in Subjects[ask], Acts(s)
    PROVE  RereadInv'
<1>1. PICK value \in {"idle"} \cup Leaves[ask] : Leave(s, "this", value)
  BY DEF Acts
<1>2. /\ actual' \in [Subjects[ask] -> Readings(ask)]
      /\ actual'[s].by = "this"
      /\ \A t \in Subjects[ask] \ {s} : actual'[t] = actual[t]
  <2>1. RereadTypeOK /\ "this" \in {"this", "other"}
    BY DEF RereadInv
  <2>2. /\ actual' \in [Subjects[ask] -> Readings(ask)]
        /\ actual'[s] = [by |-> "this", value |-> value, at |-> actual[s].at + 1]
        /\ \A t \in Subjects[ask] \ {s} : actual'[t] = actual[t]
    BY <1>1, <2>1, Left
  <2> QED BY <2>2
<1>3. /\ exec = "forked" /\ ours[s] = Unread
      /\ ours' = [ours EXCEPT ![s] = actual'[s]]
      /\ unconfirmed' = IF HumanOnly(s) THEN unconfirmed \cup {s} ELSE unconfirmed
      /\ UNCHANGED <<ask, step, earlier, reported, completed, clock, caller, exec, published, confirm,
                     others, configured>>
  BY DEF Acts, call
<1>4. /\ ours' \in [Subjects[ask] -> Readings(ask)]
      /\ ours'[s] = actual'[s]
      /\ \A t \in Subjects[ask] \ {s} : ours'[t] = ours[t]
  BY <1>2, <1>3, Rereads DEF RereadInv
<1>5. RereadTypeOK'
  BY <1>2, <1>3, <1>4 DEF RereadInv, RereadTypeOK
<1>6. Confirmed'
  <2>1. \A t \in Subjects[ask] : HumanOnly(t)' <=> HumanOnly(t)
    BY <1>3 DEF HumanOnly
  <2>2. HumanOnly(s) => s \in configured
    BY <1>3 DEF RereadInv, Confirmed
  <2>3. unconfirmed' \subseteq configured
    BY <1>3, <2>2 DEF RereadInv, Confirmed
  <2> QED BY <1>3, <2>1, <2>3 DEF RereadInv, Confirmed
<1>7. OwnReads'
  <2>1. earlier[s].by # "this" /\ reported[s].by # "this" /\ published[s].by # "this"
    BY <1>3 DEF RereadInv, OwnReads, Unread
  <2> QED BY <1>2, <1>3, <1>4, <2>1 DEF RereadInv, OwnReads
<1>8. RunsTold'
  BY <1>3 DEF RereadInv, RunsTold, Unread
<1> QED BY <1>5, <1>6, <1>7, <1>8 DEF RereadInv

\* The steps of the others on one subject.
LEMMA OthersStep ==
    ASSUME RereadInv, AsksAssumption, NEW s \in Subjects[ask],
           Publishes(s) \/ OtherActs(s) \/ OtherConfigures(s)
    PROVE  RereadInv'
<1>1. CASE Publishes(s)
  <2>1. /\ UNCHANGED <<ask, step, earlier, reported, completed, clock, caller, exec, actual, confirm,
                       ours, others, configured, unconfirmed>>
        /\ published' = [published EXCEPT ![s] = actual[s]]
    BY <1>1 DEF Publishes, call
  <2>2. /\ published' \in [Subjects[ask] -> Readings(ask)]
        /\ \A t \in Subjects[ask] : published'[t] \in {published[t], actual[t]}
    BY <2>1, Rereads DEF RereadInv
  <2>3. RereadTypeOK'
    BY <2>1, <2>2 DEF RereadInv, RereadTypeOK
  <2>4. OwnReads'
    BY <2>1, <2>2 DEF RereadInv, OwnReads
  <2> QED BY <2>1, <2>3, <2>4 DEF RereadInv, Confirmed, RunsTold, HumanOnly
<1>2. CASE OtherActs(s)
  <2>1. PICK value \in Leaves[ask] : Leave(s, "other", value)
    BY <1>2 DEF OtherActs
  <2>2. /\ actual' \in [Subjects[ask] -> Readings(ask)]
        /\ actual'[s].by = "other"
        /\ \A t \in Subjects[ask] \ {s} : actual'[t] = actual[t]
    <3>1. RereadTypeOK /\ "other" \in {"this", "other"} /\ value \in {"idle"} \cup Leaves[ask]
      BY DEF RereadInv
    <3>2. /\ actual' \in [Subjects[ask] -> Readings(ask)]
          /\ actual'[s] = [by |-> "other", value |-> value, at |-> actual[s].at + 1]
          /\ \A t \in Subjects[ask] \ {s} : actual'[t] = actual[t]
      BY <2>1, <3>1, Left
    <3> QED BY <3>2
  <2>3. /\ UNCHANGED <<ask, step, earlier, reported, completed, clock, caller, exec, published, confirm,
                       ours, configured, unconfirmed>>
        /\ others' = others + 1 /\ others < MaxOthers
    BY <1>2 DEF OtherActs, call
  <2>4. RereadTypeOK'
    BY <2>2, <2>3 DEF RereadInv, RereadTypeOK, AsksAssumption
  <2>5. OwnReads'
    BY <2>2, <2>3 DEF RereadInv, OwnReads
  <2> QED BY <2>3, <2>4, <2>5 DEF RereadInv, Confirmed, RunsTold, HumanOnly
<1>3. CASE OtherConfigures(s)
  <2>1. PICK c \in Keywords : confirm' = [confirm EXCEPT ![s] = c]
    BY <1>3 DEF OtherConfigures
  <2>2. /\ UNCHANGED <<ask, step, earlier, reported, completed, clock, caller, exec, actual, published,
                       ours, unconfirmed>>
        /\ configured' = IF step = "start" THEN configured ELSE configured \cup {s}
        /\ others' = others + 1 /\ others < MaxOthers /\ ask = "run"
    BY <1>3 DEF OtherConfigures, call
  <2>3. confirm' \in [Subjects[ask] -> [section : {"unset", "no", "yes", "reference"},
                                        scoped : {"unset", "no", "yes", "reference"}]]
    BY <2>1 DEF AsksAssumption, RereadInv, RereadTypeOK
  <2>4. RereadTypeOK'
    BY <2>2, <2>3 DEF RereadInv, RereadTypeOK, AsksAssumption
  <2>5. Confirmed'
    <3>1. \A t \in Subjects[ask] \ {s} : confirm'[t] = confirm[t]
      BY <2>1 DEF RereadInv, RereadTypeOK
    <3>2. \A t \in Subjects[ask] \ {s} : HumanOnly(t)' <=> HumanOnly(t)
      BY <3>1 DEF HumanOnly
    <3>3. step # "start" => s \in configured'
      BY <2>2
    <3> QED BY <2>2, <3>2, <3>3 DEF RereadInv, Confirmed
  <2> QED BY <2>2, <2>4, <2>5 DEF RereadInv, OwnReads, RunsTold
<1> QED BY <1>1, <1>2, <1>3

LEMMA RereadStep ==
    ASSUME RereadInv, AsksAssumption, [RereadNext]_rereadVars
    PROVE  RereadInv'
<1>1. CASE RereadCall
  BY <1>1, CallStep
<1>2. CASE DaemonTakes \/ ExecutionEnds
  <2>1. /\ UNCHANGED <<ask, step, earlier, reported, completed, clock, caller, actual, published,
                       confirm, ours, others, configured, unconfirmed>>
        /\ exec \in {"asked", "forked"} /\ exec' \in {"forked", "refused", "ended"}
    BY <1>2 DEF DaemonTakes, ExecutionEnds, call
  <2> QED BY <2>1 DEF RereadInv, RereadTypeOK, Confirmed, OwnReads, RunsTold, HumanOnly, Unread
<1>3. CASE DeadlinePasses \/ CallerLeaves
  <2>1. /\ UNCHANGED <<ask, step, earlier, reported, completed, exec, actual, published,
                       confirm, ours, others, configured, unconfirmed>>
        /\ clock' \in {clock, "over"} /\ caller' \in {caller, "left"}
    BY <1>3 DEF DeadlinePasses, CallerLeaves, world
  <2> QED BY <2>1 DEF RereadInv, RereadTypeOK, Confirmed, OwnReads, RunsTold, HumanOnly, Unread
<1>4. CASE \E s \in Subjects[ask] : Acts(s) \/ Publishes(s) \/ OtherActs(s) \/ OtherConfigures(s)
  BY <1>4, ActsStep, OthersStep
<1>5. CASE UNCHANGED rereadVars
  BY <1>5 DEF rereadVars, call, world, RereadInv, RereadTypeOK, Confirmed, OwnReads, RunsTold, HumanOnly, Unread
<1> QED BY <1>1, <1>2, <1>3, <1>4, <1>5 DEF RereadNext, RereadWorld

LEMMA RereadInvariant == RereadSpec => []RereadInv
  BY RereadInitially, RereadStep, AsksAssumption, PTL DEF RereadSpec

\* No task whose author asks a human to confirm its runs is run by a call,
\* unless its author asked after the check, whatever the keywords of the tasks
\* and of their scopes (refuseTaskRun).
THEOREM HumansConfirm == RereadSpec => []ConfirmedByHumans
<1>1. RereadInv => ConfirmedByHumans
  BY DEF RereadInv, Confirmed, ConfirmedByHumans
<1> QED BY <1>1, RereadInvariant, PTL

\* A run told to be of this call is the one its session left, however many
\* sessions ran the task and however late the status is published; and one
\* told not to be is so only once the time to read it again was over, or the
\* caller had left (readTaskRuns).
THEOREM RunsAreOwn == RereadSpec => []RunsToldAreOwn
<1>1. RereadInv => RunsToldAreOwn
  BY DEF RereadInv, OwnReads, RunsTold, RunsToldAreOwn, IsOwn, Unread
<1> QED BY <1>1, RereadInvariant, PTL

-----------------------------------------------------------------------------
Observed == {"refresh_status", "clear"}

\* One reading is not newer than another, and is that one if it has its date.
Older(x, y) == x.at <= y.at /\ (x.at = y.at => x = y)

\* The reads of an instance are in the order they were made.
InOrder ==
    ask \in Observed =>
        \A s \in Subjects[ask] :
            /\ Older(earlier[s], published[s])
            /\ Older(published[s], actual[s])
            /\ step \in {"following", "done"} =>
                  Older(earlier[s], reported[s]) /\ Older(reported[s], published[s])

\* A cache is counted again once the execution ended.
Counted ==
    ask = "refresh_node" =>
        /\ step = "reading" => exec = "ended"
        /\ \A s \in Subjects[ask] :
              /\ ours[s].at <= actual[s].at
              /\ step = "done" =>
                    reported[s] = Unread \/ (exec = "ended" /\ reported[s].at >= ours[s].at)

\* A call that observes ends with something observed, or at its deadline.
ObservedOrOver ==
    ask \in Observed =>
        /\ step # "reading"
        /\ step = "done" => clock = "over" \/ \A s \in Subjects[ask] : Differs(s, reported)

NewerInv == RereadInv /\ InOrder /\ Counted /\ ObservedOrOver

LEMMA Dated ==
    ASSUME RereadTypeOK, NEW s \in Subjects[ask]
    PROVE  /\ earlier[s] \in Readings(ask) /\ earlier[s].at \in Nat
           /\ reported[s] \in Readings(ask) /\ reported[s].at \in Nat
           /\ actual[s] \in Readings(ask) /\ actual[s].at \in Nat
           /\ published[s] \in Readings(ask) /\ published[s].at \in Nat
           /\ ours[s] \in Readings(ask) /\ ours[s].at \in Nat
<1>1. /\ earlier[s] \in Readings(ask) /\ reported[s] \in Readings(ask) /\ actual[s] \in Readings(ask)
      /\ published[s] \in Readings(ask) /\ ours[s] \in Readings(ask)
  BY Rereads
<1> QED BY <1>1 DEF Readings

LEMMA OlderChain ==
    ASSUME NEW x, NEW y, NEW z, x.at \in Nat, y.at \in Nat, z.at \in Nat, Older(x, y), Older(y, z)
    PROVE  Older(x, z)
  BY DEF Older

LEMMA NewerInitially == AsksAssumption /\ RereadInit => NewerInv
<1> SUFFICES ASSUME AsksAssumption, RereadInit PROVE NewerInv
  OBVIOUS
<1>1. \A s \in Subjects[ask] : /\ earlier[s] = Unread /\ ours[s] = Unread
                               /\ published[s] = actual[s] /\ actual[s].at = 1
  BY DEF RereadInit
<1>2. InOrder /\ Counted /\ ObservedOrOver
  BY <1>1 DEF RereadInit, InOrder, Older, Counted, ObservedOrOver, Unread
<1> QED BY <1>2, RereadInitially DEF NewerInv

\* A step of the call reads what is there, and tells what it read.
LEMMA CallStepNewer ==
    ASSUME NewerInv, RereadCall, AsksAssumption
    PROVE  InOrder' /\ Counted' /\ ObservedOrOver'
<1>1. UNCHANGED <<ask, actual, published, ours>> /\ RereadTypeOK
  BY DEF RereadCall, RefuseAsk, CheckRun, CountBefore, ReadBefore, PostAsk, AskFails, AskAccepted,
         FollowEnds, ReadRuns, CountAfter, ReadAfterFails, Poll, PollFails, PollsEnd, world,
         NewerInv, RereadInv
<1>2. InOrder'
  <2> SUFFICES ASSUME ask \in Observed, NEW s \in Subjects[ask]
               PROVE  /\ Older(earlier'[s], published[s])
                      /\ Older(published[s], actual[s])
                      /\ step' \in {"following", "done"} =>
                            Older(earlier'[s], reported'[s]) /\ Older(reported'[s], published[s])
    BY <1>1 DEF InOrder
  <2>1. /\ earlier' \in {earlier, published}
        /\ earlier' # earlier => step' \in {"checked", "error"}
        /\ step' \in {"following", "done"} =>
              \/ reported' = earlier
              \/ reported' = published
              \/ reported' = reported /\ step = "following"
    BY DEF RereadCall, RefuseAsk, CheckRun, CountBefore, ReadBefore, PostAsk, AskFails, AskAccepted,
           FollowEnds, ReadRuns, CountAfter, ReadAfterFails, Poll, PollFails, PollsEnd, Observed, Seen,
           NewerInv, ObservedOrOver
  <2>2. /\ Older(earlier[s], published[s])
        /\ Older(published[s], actual[s])
        /\ step = "following" => Older(earlier[s], reported[s]) /\ Older(reported[s], published[s])
    BY DEF NewerInv, InOrder
  <2>3. Older(published[s], published[s]) /\ Older(earlier[s], earlier[s])
    BY <1>1, Dated DEF Older
  <2> QED BY <2>1, <2>2, <2>3
<1>3. Counted'
  <2> SUFFICES ASSUME ask = "refresh_node"
               PROVE  /\ step' = "reading" => exec' = "ended"
                      /\ \A s \in Subjects[ask] :
                            step' = "done" =>
                                reported'[s] = Unread \/ (exec' = "ended" /\ reported'[s].at >= ours[s].at)
    BY <1>1 DEF Counted, NewerInv
  <2>1. /\ step' = "reading" => exec' = "ended"
        /\ step' = "done" => \/ reported' = [s \in Subjects[ask] |-> Unread]
                             \/ reported' = actual /\ exec' = exec /\ step = "reading"
    BY DEF RereadCall, RefuseAsk, CheckRun, CountBefore, ReadBefore, PostAsk, AskFails, AskAccepted,
           FollowEnds, ReadRuns, CountAfter, ReadAfterFails, Poll, PollFails, PollsEnd, Seen, ReadsAfter, world
  <2>2. /\ step = "reading" => exec = "ended"
        /\ \A s \in Subjects[ask] : ours[s].at <= actual[s].at
    BY DEF NewerInv, Counted
  <2>3. \A s \in Subjects[ask] : actual[s].at >= ours[s].at
    BY <1>1, <2>2, Dated
  <2> QED BY <2>1, <2>2, <2>3
<1>4. ObservedOrOver'
  <2> SUFFICES ASSUME ask \in Observed
               PROVE  /\ step' # "reading"
                      /\ step' = "done" =>
                            clock' = "over" \/ \A s \in Subjects[ask] : Differs(s, reported)'
    BY <1>1 DEF ObservedOrOver
  <2>0. step # "reading" /\ step' # "reading"
    BY DEF RereadCall, RefuseAsk, CheckRun, CountBefore, ReadBefore, PostAsk, AskFails, AskAccepted,
           FollowEnds, ReadRuns, CountAfter, ReadAfterFails, Poll, PollFails, PollsEnd, Observed,
           NewerInv, ObservedOrOver
  <2>1. \/ step' # "done"
        \/ Poll /\ \E s \in Subjects[ask] : Differs(s, Seen)
        \/ clock' = "over"
    BY <2>0 DEF RereadCall, RefuseAsk, CheckRun, CountBefore, ReadBefore, PostAsk, AskFails, AskAccepted,
           FollowEnds, ReadRuns, CountAfter, ReadAfterFails, Poll, PollFails, PollsEnd, Observed
  <2>2. ASSUME Poll /\ \E s \in Subjects[ask] : Differs(s, Seen)
        PROVE  \A s \in Subjects[ask] : Differs(s, reported)'
    <3>1. PICK instance \in Subjects[ask] : Subjects[ask] = {instance}
      BY <1>1 DEF AsksAssumption, RereadTypeOK, Observed
    <3>2. Differs(instance, Seen)
      BY <2>2, <3>1
    <3>3. reported' = Seen /\ earlier' = earlier
      BY <2>2 DEF Poll
    <3>4. Differs(instance, reported)'
      BY <1>1, <3>2, <3>3 DEF Differs
    <3> QED BY <3>1, <3>4
  <2> QED BY <2>0, <2>1, <2>2
<1> QED BY <1>2, <1>3, <1>4

\* What somebody leaves is newer than all that was read.
LEMMA LeaveNewer ==
    ASSUME NewerInv, NEW s \in Subjects[ask],
           NEW who \in {"this", "other"}, NEW value \in {"idle"} \cup Leaves[ask], Leave(s, who, value),
           UNCHANGED <<ask, step, earlier, reported, clock, exec, published>>,
           \A t \in Subjects[ask] : ours'[t] = ours[t] \/ ours'[t] = actual'[t],
           ours' # ours => exec = "forked"
    PROVE  InOrder' /\ Counted' /\ ObservedOrOver'
<1>1. RereadTypeOK
  BY DEF NewerInv, RereadInv
<1>2. /\ actual'[s] = [by |-> who, value |-> value, at |-> actual[s].at + 1]
      /\ \A t \in Subjects[ask] \ {s} : actual'[t] = actual[t]
  BY <1>1, Left
<1>3. \A t \in Subjects[ask] : actual'[t] = actual[t] \/ actual'[t].at = actual[t].at + 1
  BY <1>2
<1>4. InOrder'
  <2> SUFFICES ASSUME ask \in Observed, NEW t \in Subjects[ask] PROVE Older(published[t], actual'[t])
    BY DEF NewerInv, InOrder
  <2>1. Older(published[t], actual[t]) /\ actual[t].at \in Nat /\ published[t].at \in Nat
    BY <1>1, Dated DEF NewerInv, InOrder
  <2> QED BY <1>3, <2>1 DEF Older
<1>5. Counted'
  <2> SUFFICES ASSUME ask = "refresh_node", NEW t \in Subjects[ask]
               PROVE  /\ ours'[t].at <= actual'[t].at
                      /\ step = "done" =>
                            reported[t] = Unread \/ (exec = "ended" /\ reported[t].at >= ours'[t].at)
    BY DEF NewerInv, Counted
  <2>1. /\ ours[t].at <= actual[t].at
        /\ step = "done" => reported[t] = Unread \/ (exec = "ended" /\ reported[t].at >= ours[t].at)
    BY DEF NewerInv, Counted
  <2>2. ours[t].at \in Nat /\ actual[t].at \in Nat
    BY <1>1, Dated
  <2>3. actual'[t].at \in Nat /\ actual[t].at <= actual'[t].at
    BY <1>3, <2>2
  <2>4. ours'[t].at <= actual'[t].at
    BY <2>1, <2>2, <2>3
  <2> QED BY <2>1, <2>4
<1>6. ObservedOrOver'
  BY DEF NewerInv, ObservedOrOver, Differs
<1> QED BY <1>4, <1>5, <1>6

LEMMA NewerStep ==
    ASSUME NewerInv, AsksAssumption, [RereadNext]_rereadVars
    PROVE  NewerInv'
<1>1. RereadInv' /\ RereadTypeOK
  BY RereadStep DEF NewerInv, RereadInv
<1>2. CASE RereadCall
  BY <1>1, <1>2, CallStepNewer DEF NewerInv
<1>3. ASSUME NEW s \in Subjects[ask], Acts(s) PROVE NewerInv'
  <2>1. PICK value \in {"idle"} \cup Leaves[ask] : Leave(s, "this", value)
    BY <1>3 DEF Acts
  <2>2. UNCHANGED <<ask, step, earlier, reported, clock, exec, published>> /\ exec = "forked"
    BY <1>3 DEF Acts, call
  <2>3. \A t \in Subjects[ask] : ours'[t] = ours[t] \/ ours'[t] = actual'[t]
    BY <1>1, <1>3, Rereads DEF Acts
  <2>4. "this" \in {"this", "other"}
    OBVIOUS
  <2> QED BY <1>1, <2>1, <2>2, <2>3, <2>4, LeaveNewer DEF NewerInv
<1>4. ASSUME NEW s \in Subjects[ask], OtherActs(s) PROVE NewerInv'
  <2>1. PICK value \in Leaves[ask] : Leave(s, "other", value)
    BY <1>4 DEF OtherActs
  <2>2. UNCHANGED <<ask, step, earlier, reported, clock, exec, published, ours>>
    BY <1>4 DEF OtherActs, call
  <2>3. "other" \in {"this", "other"} /\ value \in {"idle"} \cup Leaves[ask]
    OBVIOUS
  <2> QED BY <1>1, <2>1, <2>2, <2>3, LeaveNewer DEF NewerInv
<1>5. ASSUME NEW s \in Subjects[ask], Publishes(s) PROVE NewerInv'
  <2>1. /\ UNCHANGED <<ask, step, earlier, reported, clock, exec, actual, ours>>
        /\ \A t \in Subjects[ask] : published'[t] \in {published[t], actual[t]}
    BY <1>1, <1>5, Rereads DEF Publishes, call
  <2>2. InOrder'
    <3> SUFFICES ASSUME ask \in Observed, NEW t \in Subjects[ask]
                 PROVE  /\ Older(earlier[t], published'[t])
                        /\ Older(published'[t], actual[t])
                        /\ step \in {"following", "done"} =>
                              Older(earlier[t], reported[t]) /\ Older(reported[t], published'[t])
      BY <2>1 DEF InOrder
    <3>1. /\ Older(earlier[t], published[t]) /\ Older(published[t], actual[t])
          /\ step \in {"following", "done"} =>
                Older(earlier[t], reported[t]) /\ Older(reported[t], published[t])
      BY DEF NewerInv, InOrder
    <3>2. /\ Older(earlier[t], actual[t]) /\ Older(actual[t], actual[t])
          /\ step \in {"following", "done"} => Older(reported[t], actual[t])
      <4>1. /\ earlier[t].at \in Nat /\ reported[t].at \in Nat
            /\ published[t].at \in Nat /\ actual[t].at \in Nat
        BY <1>1, Dated
      <4>2. Older(earlier[t], actual[t])
        BY <3>1, <4>1, OlderChain
      <4>3. step \in {"following", "done"} => Older(reported[t], actual[t])
        BY <3>1, <4>1, OlderChain
      <4> QED BY <4>1, <4>2, <4>3 DEF Older
    <3> QED BY <2>1, <3>1, <3>2
  <2>3. Counted' /\ ObservedOrOver'
    BY <2>1 DEF NewerInv, Counted, ObservedOrOver, Differs
  <2> QED BY <1>1, <2>2, <2>3 DEF NewerInv
<1>6. ASSUME \/ DaemonTakes \/ ExecutionEnds \/ DeadlinePasses \/ CallerLeaves
             \/ UNCHANGED rereadVars \/ \E s \in Subjects[ask] : OtherConfigures(s)
      PROVE  NewerInv'
  <2>1. /\ UNCHANGED <<ask, step, earlier, reported, actual, published, ours>>
        /\ clock' \in {clock, "over"} /\ (exec = "ended" => exec' = "ended")
    BY <1>6 DEF DaemonTakes, ExecutionEnds, DeadlinePasses, CallerLeaves, OtherConfigures, rereadVars,
                call, world
  <2>2. InOrder' /\ Counted' /\ ObservedOrOver'
    BY <2>1 DEF NewerInv, InOrder, Counted, ObservedOrOver, Differs
  <2> QED BY <1>1, <2>2 DEF NewerInv
<1> QED BY <1>2, <1>3, <1>4, <1>5, <1>6 DEF RereadNext, RereadWorld

LEMMA NewerInvariant == RereadSpec => []NewerInv
  BY NewerInitially, NewerStep, AsksAssumption, PTL DEF RereadSpec

\* What is told from the reads after an action is newer than what was read
\* before, or the action's own or newer for a cache counted again; a call that
\* observed nothing had its whole time, whoever else writes the same things
\* (RunNodeRefresh, RefreshInstanceStatus, ClearInstance).
THEOREM ReadsAreNewer == RereadSpec => []SecondReadsAreNewer
<1>1. ASSUME NewerInv PROVE SecondReadsAreNewer
  <2> SUFFICES ASSUME step = "done", NEW s \in Subjects[ask]
               PROVE  /\ ask = "refresh_node" /\ reported[s] # Unread =>
                            exec = "ended" /\ reported[s].at >= ours[s].at
                      /\ ask \in {"refresh_status", "clear"} =>
                            IF Differs(s, reported) THEN reported[s].at > earlier[s].at
                            ELSE clock = "over"
    BY DEF SecondReadsAreNewer
  <2>1. ask = "refresh_node" /\ reported[s] # Unread => exec = "ended" /\ reported[s].at >= ours[s].at
    BY <1>1 DEF NewerInv, Counted
  <2>2. ASSUME ask \in Observed, Differs(s, reported) PROVE reported[s].at > earlier[s].at
    <3>1. reported[s] # earlier[s] /\ Older(earlier[s], reported[s])
      BY <1>1, <2>2 DEF NewerInv, InOrder, Differs
    <3>2. reported[s].at \in Nat /\ earlier[s].at \in Nat
      BY <1>1, Dated DEF NewerInv, RereadInv
    <3> QED BY <3>1, <3>2 DEF Older
  <2>3. ask \in Observed => clock = "over" \/ Differs(s, reported)
    BY <1>1 DEF NewerInv, ObservedOrOver
  <2> QED BY <2>1, <2>2, <2>3 DEF Observed
<1> QED BY <1>1, NewerInvariant, PTL

-----------------------------------------------------------------------------
(* The writes of an object.                                                *)

\* Every state but the one of this call is somebody else's.
OthersMadeTheRest == \A i \in 1 .. Now : states[i].by = "other" \/ i = made

\* What was read before is what is told, or what the write was asked on.
ReadBeforeWrite ==
    place \notin {"start", "error"} /\ write \in Keyed \cup OfResources =>
        /\ before \in 1 .. Now
        /\ states[before].value # "none"
        /\ write \in Keyed => (existed = "yes" <=> states[before].value = "on")

\* The write comes after the read before it, and its answer after the write.
InTurn ==
    /\ daemon = "none" => base = 0 /\ made = 0
    /\ place = "start" => before = 0
    /\ place \in {"start", "ready"} => daemon = "none"
    /\ place \in {"again", "done"} => daemon \in Committed
    /\ place = "error" => fate = "lost" \/ daemon \in {"none", "refused"}
    /\ daemon = "asked" => base = 0 /\ made = 0

\* What the daemon did of the request.
AsAsked ==
    daemon \in Committed =>
        /\ base \in 1 .. Now
        /\ base <= made
        /\ made <= base + 1
        /\ before <= base
        /\ \A i \in 1 .. base : states[i].by = "other"
        /\ daemon = "ignored" => states[base].value = "none"
        /\ write \in Creating => states[made].value = config

\* What was read after the write.
ReadAfterWrite ==
    /\ after # 0 => place = "done"
    /\ write = "create" /\ place \in {"again", "done"} =>
          copy >= made /\ (after # 0 => after >= made)
    /\ write \in Creating /\ after # 0 =>
          /\ flagged = "yes" <=> states[after].value = "on"
          /\ states[after].value = "beyond" => clipped

WriteInv ==
    /\ WriteTypeOK
    /\ OthersMadeTheRest
    /\ ReadBeforeWrite
    /\ InTurn
    /\ AsAsked
    /\ ReadAfterWrite

LEMMA WriteCases ==
    ASSUME NEW P, [WriteNext]_writeVars,
           RefuseWrite => P, ReadKeys => P, CheckResources => P, CheckArguments => P,
           SendWrite => P, DaemonWrites => P, DaemonDeclines => P, OtherWritesObject => P,
           Reaches => P, WriteAnswered => P, WriteRefused => P, WriteLost => P,
           ReadBack => P, ReadBackFails => P, UNCHANGED writeVars => P
    PROVE  P
  BY DEF WriteNext

LEMMA WriteInitially == WriteInit => WriteInv
<1> SUFFICES ASSUME WriteInit PROVE WriteInv
  OBVIOUS
<1>1. PICK value \in States : states = <<[value |-> value, by |-> "other"]>>
  BY DEF WriteInit
<1>2. /\ states \in Seq([value : Values, by : {"this", "other"}]) /\ Len(states) = 1
      /\ states[1].by = "other"
  BY <1>1 DEF States, Values
<1>3. config \in {"on", "beyond", "off"}
  BY DEF WriteInit
<1>4. WriteTypeOK
  <2>1. /\ write \in Tools /\ place = "start" /\ copy = 1 /\ before = 0 /\ daemon = "none"
        /\ base = 0 /\ made = 0 /\ fate = "none" /\ existed = "unknown" /\ after = 0
        /\ flagged = "no" /\ clipped = FALSE
    BY DEF WriteInit
  <2>2. copy \in 1 .. Now /\ 0 \in 0 .. Now
    BY <1>2, <2>1 DEF Now
  <2> QED BY ONLY <1>2, <1>3, <2>1, <2>2 DEF WriteTypeOK
<1>5. OthersMadeTheRest
  BY <1>2 DEF OthersMadeTheRest, Now
<1>6. ReadBeforeWrite /\ InTurn /\ AsAsked /\ ReadAfterWrite
  BY DEF WriteInit, ReadBeforeWrite, InTurn, AsAsked, ReadAfterWrite, Committed
<1> QED BY <1>4, <1>5, <1>6 DEF WriteInv

\* What a step that adds a state leaves of those before it.
LEMMA Appended ==
    ASSUME WriteTypeOK, NEW state \in [value : Values, by : {"this", "other"}],
           states' = Append(states, state)
    PROVE  /\ states' \in Seq([value : Values, by : {"this", "other"}])
           /\ Now \in Nat \ {0}
           /\ Now' = Now + 1
           /\ \A i \in 1 .. Now : states'[i] = states[i]
           /\ states'[Now + 1] = state
  BY DEF WriteTypeOK, Now

\* What a write makes is a state of the object, that of a new one what it was
\* asked to be.
LEMMA MadeTyped ==
    ASSUME WriteTypeOK, ToolsAssumption, NEW value \in Values
    PROVE  /\ Made(value) \in Values \cup {"refused", "ignored"}
           /\ Made(value) = "ignored" => value = "none"
           /\ write \in Creating => Made(value) \in {config, "refused"}
           /\ write \in Creating => Made(value) # value
  BY DEF WriteTypeOK, ToolsAssumption, Made, Keyed, OfResources, Creating, Values

LEMMA OtherStep ==
    ASSUME WriteInv, OtherWritesObject
    PROVE  WriteInv'
<1>1. PICK value \in Values : states' = Append(states, [value |-> value, by |-> "other"])
  BY DEF OtherWritesObject, States
<1>2. /\ states' \in Seq([value : Values, by : {"this", "other"}])
      /\ Now \in Nat \ {0}
      /\ Now' = Now + 1
      /\ \A i \in 1 .. Now : states'[i] = states[i]
      /\ states'[Now + 1] = [value |-> value, by |-> "other"]
  BY <1>1, Appended DEF WriteInv
<1>3. UNCHANGED <<write, config, place, copy, before, daemon, base, made, fate, existed, after, flagged, clipped>>
  BY DEF OtherWritesObject, request, answer
<1>4. WriteTypeOK'
  BY <1>2, <1>3 DEF WriteInv, WriteTypeOK, Committed
<1>5. /\ \A i \in 1 .. Now' : i \in 1 .. Now \/ i = Now + 1
      /\ copy \in 1 .. Now /\ before \in 0 .. Now /\ base \in 0 .. Now
      /\ made \in 0 .. Now /\ after \in 0 .. Now
  BY <1>2 DEF WriteInv, WriteTypeOK
<1>6. OthersMadeTheRest'
  BY <1>2, <1>3, <1>5 DEF WriteInv, OthersMadeTheRest
<1>7. ReadBeforeWrite'
  <2>1. ReadBeforeWrite
    BY DEF WriteInv
  <2> QED BY <1>2, <1>3, <1>5, <2>1 DEF ReadBeforeWrite, Keyed, OfResources
<1>8. InTurn'
  BY <1>3 DEF WriteInv, InTurn, Committed
<1>9. AsAsked'
  <2> SUFFICES ASSUME daemon \in Committed PROVE AsAsked'
    BY <1>3 DEF AsAsked, Committed
  <2>1. /\ base \in 1 .. Now /\ base <= made /\ made <= base + 1 /\ before <= base
        /\ \A i \in 1 .. base : states[i].by = "other"
        /\ daemon = "ignored" => states[base].value = "none"
        /\ write \in Creating => states[made].value = config
    BY DEF WriteInv, AsAsked
  <2>2. made \in 1 .. Now /\ states'[made] = states[made] /\ states'[base] = states[base]
    BY <1>2, <1>5, <2>1
  <2>3. \A i \in 1 .. base : states'[i].by = "other"
    BY <1>2, <1>5, <2>1
  <2>4. base \in 1 .. Now'
    BY <1>2, <2>1
  <2> QED BY <1>3, <2>1, <2>2, <2>3, <2>4 DEF AsAsked
<1>10. ReadAfterWrite'
  <2>1. after # 0 => states'[after] = states[after]
    BY <1>2, <1>5
  <2>2. ReadAfterWrite
    BY DEF WriteInv
  <2> QED BY <1>3, <2>1, <2>2 DEF ReadAfterWrite
<1> QED BY <1>4, <1>6, <1>7, <1>8, <1>9, <1>10 DEF WriteInv

LEMMA CurrentTyped ==
    ASSUME WriteTypeOK
    PROVE  Current \in Values
<1> DEFINE State == [value : Values, by : {"this", "other"}]
<1>1. states \in Seq(State) /\ Now \in 1 .. Len(states)
  BY DEF WriteTypeOK, Now
<1> HIDE DEF State
<1>2. states[Now] \in State
  BY <1>1
<1> QED BY <1>2 DEF Current, State

LEMMA DaemonStep ==
    ASSUME WriteInv, ToolsAssumption, DaemonWrites
    PROVE  WriteInv'
<1> DEFINE value == Made(Current)
<1>1. /\ Now \in Nat \ {0} /\ Current \in Values
      /\ Current = states[Now].value
      /\ \A i \in 1 .. Now : states[i].by = "other"
      /\ base = 0 /\ made = 0
      /\ place \notin {"start", "ready", "again", "done"}
      /\ daemon = "asked"
  <2>1. daemon = "asked"
    BY DEF DaemonWrites
  <2>2. Now \in Nat \ {0}
    BY DEF WriteInv, WriteTypeOK, Now
  <2>3. Current = states[Now].value /\ Current \in Values
    BY CurrentTyped DEF WriteInv, Current
  <2>4. base = 0 /\ made = 0 /\ place \notin {"start", "ready", "again", "done"}
    BY <2>1 DEF WriteInv, InTurn, Committed
  <2>5. \A i \in 1 .. Now : states[i].by = "other"
    BY <2>2, <2>4 DEF WriteInv, OthersMadeTheRest
  <2> QED BY <2>1, <2>2, <2>3, <2>4, <2>5
<1>2. /\ value \in Values \cup {"refused", "ignored"}
      /\ value = "ignored" => Current = "none"
      /\ write \in Creating => value \in {config, "refused"} /\ value # Current
  BY <1>1, MadeTyped DEF WriteInv
<1>3. /\ base' = Now
      /\ daemon' = IF value \in {"refused", "ignored"} THEN value
                   ELSE IF value = Current THEN "unchanged" ELSE "written"
      /\ states' = IF daemon' = "written" THEN Append(states, [value |-> value, by |-> "this"]) ELSE states
      /\ made' = IF daemon' \in Committed THEN Now' ELSE 0
      /\ UNCHANGED <<write, config, place, copy, before, fate, existed, after, flagged, clipped>>
  BY DEF DaemonWrites, answer, Now
<1> HIDE DEF value
<1>4. /\ states' \in Seq([value : Values, by : {"this", "other"}])
      /\ Now' = IF daemon' = "written" THEN Now + 1 ELSE Now
      /\ \A i \in 1 .. Now : states'[i] = states[i]
      /\ daemon' = "written" => states'[Now + 1] = [value |-> value, by |-> "this"]
  <2>1. CASE daemon' = "written"
    <3>1. value \in Values
      BY <1>2, <1>3, <2>1
    <3>2. states' = Append(states, [value |-> value, by |-> "this"])
      BY <1>3, <2>1
    <3> QED BY <2>1, <3>1, <3>2, Appended DEF WriteInv
  <2>2. CASE daemon' # "written"
    BY <1>3, <2>2 DEF WriteInv, WriteTypeOK, Now
  <2> QED BY <2>1, <2>2
<1>5. made' \in 0 .. Now'
  BY <1>1, <1>3, <1>4
<1>6. WriteTypeOK'
  BY <1>1, <1>2, <1>3, <1>4, <1>5 DEF WriteInv, WriteTypeOK, Committed
<1>7. OthersMadeTheRest'
  BY <1>1, <1>3, <1>4 DEF OthersMadeTheRest, Committed
<1>8. ReadBeforeWrite'
  BY <1>1, <1>3, <1>4 DEF WriteInv, WriteTypeOK, ReadBeforeWrite, Keyed, OfResources
<1>9. InTurn'
  <2>1. daemon' \notin {"none", "asked"}
    BY <1>2, <1>3 DEF Values
  <2>2. place = "error" => fate = "lost"
    BY <1>1 DEF WriteInv, InTurn
  <2> QED BY <1>1, <1>3, <2>1, <2>2 DEF InTurn
<1>10. AsAsked'
  <2> SUFFICES ASSUME daemon' \in Committed PROVE AsAsked'
    BY DEF AsAsked
  <2>1. made' = Now' /\ base' = Now
    BY <1>3
  <2>2. before <= Now
    BY <1>1 DEF WriteInv, WriteTypeOK
  <2>3. \A i \in 1 .. Now : states'[i].by = "other"
    BY <1>1, <1>4
  <2>4. daemon' = "ignored" => states'[Now].value = "none"
    BY <1>1, <1>2, <1>3, <1>4 DEF Values
  <2>5. write \in Creating => states'[Now'].value = config
    BY <1>1, <1>2, <1>3, <1>4 DEF Committed, WriteInv, WriteTypeOK
  <2> QED BY <1>1, <1>3, <1>4, <2>1, <2>2, <2>3, <2>4, <2>5 DEF AsAsked
<1>11. ReadAfterWrite'
  BY <1>1, <1>3, <1>4 DEF WriteInv, WriteTypeOK, ReadAfterWrite
<1> QED BY <1>6, <1>7, <1>8, <1>9, <1>10, <1>11 DEF WriteInv

\* The steps that add no state to the object, then the two that may.
LEMMA WriteStep ==
    ASSUME WriteInv, ToolsAssumption, [WriteNext]_writeVars
    PROVE  WriteInv'
<1> USE DEF WriteInv, WriteTypeOK, Now, Copied, Keyed, OfResources, Committed, request, answer,
            OthersMadeTheRest, ReadBeforeWrite, InTurn, AsAsked, ReadAfterWrite
<1>1. RefuseWrite => WriteInv'
  BY DEF RefuseWrite
<1>2. ReadKeys => WriteInv'
  BY DEF ReadKeys, IsThere
<1>3. CheckResources => WriteInv'
  BY DEF CheckResources, IsThere
<1>4. CheckArguments => WriteInv'
  BY DEF CheckArguments
<1>5. SendWrite => WriteInv'
  BY DEF SendWrite
<1>6. DaemonDeclines => WriteInv'
  BY DEF DaemonDeclines
<1>7. Reaches => WriteInv'
  BY DEF Reaches
<1>8. WriteAnswered => WriteInv'
  BY DEF WriteAnswered, Known
<1>9. WriteRefused => WriteInv'
  BY DEF WriteRefused
<1>10. WriteLost => WriteInv'
  BY DEF WriteLost
<1>11. ReadBack => WriteInv'
  <2> SUFFICES ASSUME ReadBack PROVE WriteInv'
    OBVIOUS
  <2>1. /\ after' = IF Copied # "none" THEN copy ELSE 0
        /\ flagged' = IF write \in Creating /\ Copied = "on" THEN "yes" ELSE "no"
        /\ clipped' \in BOOLEAN
        /\ write \in Creating /\ Copied = "beyond" => clipped'
        /\ place = "again" /\ place' = "done"
        /\ UNCHANGED <<write, config, states, copy, before, daemon, base, made, fate, existed>>
    BY DEF ReadBack, IsThere
  <2>2. ReadAfterWrite'
    <3>1. after' # 0 => after' = copy /\ states'[after'].value = Copied
      BY <2>1
    <3>2. write = "create" => copy >= made
      BY <2>1
    <3> QED BY <2>1, <3>1, <3>2
  <2>3. WriteTypeOK'
    BY <2>1
  <2> HIDE DEF WriteTypeOK, ReadAfterWrite
  <2> QED BY <2>1, <2>2, <2>3
<1>12. ReadBackFails => WriteInv'
  BY DEF ReadBackFails
<1>13. UNCHANGED writeVars => WriteInv'
  BY DEF writeVars
<1>14. DaemonWrites => WriteInv'
  BY DaemonStep
<1>15. OtherWritesObject => WriteInv'
  BY OtherStep
<1> HIDE DEF WriteInv
<1> QED BY <1>1, <1>2, <1>3, <1>4, <1>5, <1>6, <1>7, <1>8, <1>9, <1>10, <1>11, <1>12, <1>13,
         <1>14, <1>15, WriteCases

LEMMA WriteInvariant == WriteSpec => []WriteInv
  BY WriteInitially, WriteStep, ToolsAssumption, PTL DEF WriteSpec

\* A call told done is of a write the daemon did, on the state read before it
\* unless somebody wrote the object in between, whatever the tool and however
\* late the copies read (patchObjectData, refuseUnknownResources).
THEOREM WritesDone == WriteSpec => []DoneIsWritten
<1>1. ASSUME WriteInv, place = "done" PROVE DoneIsWritten
  <2>0. daemon \in Committed /\ base \in 1 .. Now
    BY <1>1 DEF WriteInv, InTurn, AsAsked
  <2>1. ASSUME before \in 1 .. Now, ~Crossed(before, base) PROVE before = base
    BY <1>1, <2>0, <2>1 DEF WriteInv, AsAsked, Crossed
  <2>2. write \in Keyed => (existed = "yes" <=> states[base].value = "on") \/ Crossed(before, base)
    BY <1>1, <2>1 DEF WriteInv, ReadBeforeWrite
  <2>3. write \in OfResources => daemon # "ignored" \/ Crossed(before, base)
    BY <1>1, <2>1 DEF WriteInv, ReadBeforeWrite, AsAsked, Committed
  <2> QED BY <2>0, <2>2, <2>3 DEF DoneIsWritten
<1>2. WriteInv => DoneIsWritten
  BY <1>1 DEF DoneIsWritten
<1> QED BY <1>2, WriteInvariant, PTL

\* What is told of a new object is what the write made, unless somebody wrote
\* over it: a new object its daemon knows is not read older, and it is told
\* flagged when the configuration written has it started, unless its file is
\* told truncated; and a write done is told an error only when its answer was
\* lost (CreateObject, orchestratesOnItsOwn, SetObjectEnabled,
\* CreateObjectCertificate).
THEOREM ReadBacksAreOwn == WriteSpec => []ReadBackIsOfTheWrite
<1>1. ASSUME WriteInv, daemon \in Committed, after \in made .. Now, ~Crossed(made, after)
      PROVE  after = made
  BY <1>1 DEF WriteInv, WriteTypeOK, Now, AsAsked, OthersMadeTheRest, Crossed
<1>2. ASSUME WriteInv PROVE ReadBackIsOfTheWrite
  <2>1. after \in 0 .. Now /\ made \in 0 .. Now /\ flagged \in {"yes", "no"}
    BY <1>2 DEF WriteInv, WriteTypeOK
  <2>2. place = "done" => daemon \in Committed
    BY <1>2 DEF WriteInv, InTurn
  <2>3. place = "done" /\ write = "create" /\ after # 0 => after >= made
    BY <1>2 DEF WriteInv, ReadAfterWrite
  <2>4. ASSUME place = "done", write \in Creating, after # 0, after >= made, ~Crossed(made, after)
        PROVE  (flagged = "yes" <=> config \in {"on", "beyond"}) \/ (flagged = "no" /\ clipped)
    <3>1. after = made
      BY <1>1, <1>2, <2>1, <2>2, <2>4
    <3>2. states[after].value = config
      BY <1>2, <2>2, <2>4, <3>1 DEF WriteInv, AsAsked
    <3>3. /\ flagged = "yes" <=> config = "on"
          /\ config = "beyond" => clipped
      BY <1>2, <2>4, <3>2 DEF WriteInv, ReadAfterWrite
    <3> QED BY <2>1, <3>3
  <2>5. place = "error" /\ daemon \in Committed => fate = "lost"
    BY <1>2 DEF WriteInv, InTurn, Committed
  <2> QED BY <2>3, <2>4, <2>5 DEF ReadBackIsOfTheWrite
<1> QED BY <1>2, WriteInvariant, PTL

-----------------------------------------------------------------------------
(* The projection of a status.                                             *)

\* The values of each level are made of those of the one before.
LEMMA Levels ==
    ASSUME NEW n \in 0 .. Height
    PROVE  Trees[n] = {Null} \cup [type : {"text"}, runes : Nat] \cup
              IF n = 0 THEN {}
              ELSE [type : {"collection"},
                    items : {items \in Seq([key : Names, value : Trees[n - 1]]) :
                                \A i, j \in DOMAIN items : items[i].key = items[j].key => i = j}]
<1> DEFINE Body(less, m) ==
              {Null} \cup [type : {"text"}, runes : Nat] \cup
              IF m = 0 THEN {}
              ELSE [type : {"collection"},
                    items : {items \in Seq([key : Names, value : less]) :
                                \A i, j \in DOMAIN items : items[i].key = items[j].key => i = j}]
           Upto(f, k) == /\ f = [m \in 0 .. Height |-> f[m]]
                         /\ \A m \in 0 .. Height : m <= k => f[m] = Body(f[m - 1], m)
           S == {k \in Nat : \E f : Upto(f, k)}
<1>0. Height \in Nat
  BY DocumentsAssumption
<1>1. 0 \in S
  <2>1. \A x, y : Body(x, 0) = Body(y, 0)
    OBVIOUS
  <2> DEFINE g == [m \in 0 .. Height |-> Body({}, 0)]
  <2> HIDE DEF Body
  <2>2. Upto(g, 0)
    BY <2>1
  <2> HIDE DEF g
  <2> QED BY <2>2
<1> HIDE DEF Body
<1>2. ASSUME NEW k \in Nat, k \in S PROVE k + 1 \in S
  <2>1. PICK f : Upto(f, k)
    BY <1>2
  <2> DEFINE g == [m \in 0 .. Height |-> IF m = k + 1 THEN Body(f[k], k + 1) ELSE f[m]]
  <2>2. ASSUME NEW m \in 0 .. Height, m <= k + 1 PROVE g[m] = Body(g[m - 1], m)
    <3>1. CASE m = 0
      <4>1. g[0] = f[0] /\ f[0] = Body(f[0 - 1], 0)
        BY <2>1, <3>1
      <4>2. \A x, y : Body(x, 0) = Body(y, 0)
        BY DEF Body
      <4> HIDE DEF g
      <4> QED BY <3>1, <4>1, <4>2
    <3>2. CASE m # 0
      <4>1. m - 1 \in 0 .. Height /\ m - 1 # k + 1
        BY <1>0, <2>2, <3>2
      <4>2. g[m - 1] = f[m - 1]
        BY <4>1
      <4>3. CASE m = k + 1
        BY <4>2, <4>3
      <4>4. CASE m # k + 1
        <5>1. m <= k /\ g[m] = f[m]
          BY <2>2, <4>4
        <5>2. f[m] = Body(f[m - 1], m)
          BY <2>1, <5>1
        <5> QED BY <4>2, <5>1, <5>2
      <4> QED BY <4>3, <4>4
    <3> QED BY <3>1, <3>2
  <2>3. g = [m \in 0 .. Height |-> g[m]]
    OBVIOUS
  <2> HIDE DEF g
  <2>4. Upto(g, k + 1)
    BY <2>2, <2>3
  <2> HIDE DEF Upto
  <2> QED BY <2>4
<1>3. Height \in S
  <2> HIDE DEF S
  <2>1. Nat \subseteq S
    BY <1>1, <1>2, Induction
  <2> QED BY <2>1, DocumentsAssumption
<1>4. PICK f : Upto(f, Height)
  BY <1>3
<1>5. f = [m \in 0 .. Height |-> Body(f[m - 1], m)]
  BY <1>0, <1>4
<1>6. Trees = [m \in 0 .. Height |-> Body(Trees[m - 1], m)]
  BY <1>5 DEF Trees, Body
<1>7. Trees[n] = Body(Trees[n - 1], n)
  BY <1>6
<1> QED BY <1>7 DEF Body

\* A value of a level.
LEMMA Valued ==
    ASSUME NEW n \in 0 .. Height, NEW v \in Trees[n]
    PROVE  \/ v = Null /\ v.type = "null"
           \/ v.type = "text" /\ v = Text(v.runes) /\ v.runes \in Nat
           \/ /\ n # 0 /\ v.type = "collection" /\ v = Collection(v.items)
              /\ v.items \in Seq([key : Names, value : Trees[n - 1]])
              /\ \A i, j \in DOMAIN v.items : v.items[i].key = v.items[j].key => i = j
<1> DEFINE Before == Trees[n - 1]
<1>1. v \in {Null} \cup [type : {"text"}, runes : Nat] \cup
              IF n = 0 THEN {}
              ELSE [type : {"collection"},
                    items : {items \in Seq([key : Names, value : Before]) :
                                \A i, j \in DOMAIN items : items[i].key = items[j].key => i = j}]
  BY Levels
<1> HIDE DEF Before
<1>2. CASE v = Null
  BY <1>2 DEF Null
<1>3. CASE v \in [type : {"text"}, runes : Nat]
  BY <1>3 DEF Text
<1>4. CASE /\ n # 0
           /\ v \in [type : {"collection"},
                     items : {items \in Seq([key : Names, value : Before]) :
                                 \A i, j \in DOMAIN items : items[i].key = items[j].key => i = j}]
  BY <1>4 DEF Collection, Before
<1> QED BY <1>1, <1>2, <1>3, <1>4

\* And what is made of values of the one before is of its level.
LEMMA Composed ==
    ASSUME NEW n \in 0 .. Height
    PROVE  /\ Null \in Trees[n] /\ \A k \in Nat : Text(k) \in Trees[n]
           /\ n # 0 => \A items \in Seq([key : Names, value : Trees[n - 1]]) :
                          (\A i, j \in DOMAIN items : items[i].key = items[j].key => i = j)
                             => Collection(items) \in Trees[n]
<1> DEFINE Before == Trees[n - 1]
<1>1. Trees[n] = {Null} \cup [type : {"text"}, runes : Nat] \cup
              IF n = 0 THEN {}
              ELSE [type : {"collection"},
                    items : {items \in Seq([key : Names, value : Before]) :
                                \A i, j \in DOMAIN items : items[i].key = items[j].key => i = j}]
  BY Levels
<1> HIDE DEF Before
<1>2. \A k \in Nat : Text(k) \in [type : {"text"}, runes : Nat]
  BY DEF Text
<1>3. ASSUME n # 0, NEW items \in Seq([key : Names, value : Before]),
             \A i, j \in DOMAIN items : items[i].key = items[j].key => i = j
      PROVE  Collection(items) \in Trees[n]
  BY <1>1, <1>3 DEF Collection
<1> QED BY <1>1, <1>2, <1>3 DEF Before

\* At level 0 nothing nests.
LEMMA Flat ==
    ASSUME NEW v \in Trees[0]
    PROVE  v.type # "collection"
<1>1. 0 \in 0 .. Height
  BY DocumentsAssumption
<1>2. v.type \in {"null", "text"}
  BY <1>1, Valued
<1> QED BY <1>2

\* What is done of a value, given what is done of those that nest less deep.
Projection(v, shape, depth, project) ==
    IF shape.kind = "json" /\ shape.depth > MaxDepth THEN Failed
    ELSE IF v.type # "collection" THEN Leaf(v, shape)
    ELSE IF shape.kind \notin Collections THEN Failed
    ELSE IF TooDeep(v, shape, depth)
    THEN Projected([type |-> "omitted"], {Cut(<<>>, Len(v.items), 0)})
    ELSE Normalized(v, shape, depth, project)

LEMMA Projections ==
    ASSUME NEW n \in 0 .. Height, NEW v \in Trees[n], NEW shape \in Shape, NEW depth \in Nat
    PROVE  NormalizeTo[n][v][shape][depth] = Projection(v, shape, depth, NormalizeTo[n - 1])
<1> DEFINE Body(less, m) ==
              [w \in Trees[m] |-> [s \in Shape |-> [d \in Nat |-> Projection(w, s, d, less)]]]
           Upto(f, k) == /\ f = [m \in 0 .. Height |-> f[m]]
                         /\ \A m \in 0 .. Height : m <= k => f[m] = Body(f[m - 1], m)
           S == {k \in Nat : \E f : Upto(f, k)}
<1>0. Height \in Nat
  BY DocumentsAssumption
<1>1. \A x, y : Body(x, 0) = Body(y, 0)
  <2>1. \A w \in Trees[0] : w.type # "collection"
    BY Flat
  <2>2. ASSUME NEW x, NEW y, NEW w \in Trees[0], NEW s, NEW d
        PROVE  Projection(w, s, d, x) = Projection(w, s, d, y)
    BY <2>1 DEF Projection
  <2> QED BY <2>2
<1>2. 0 \in S
  <2> DEFINE g == [m \in 0 .. Height |-> Body({}, 0)]
  <2> HIDE DEF Body
  <2>1. g = [m \in 0 .. Height |-> g[m]]
    OBVIOUS
  <2>2. \A m \in 0 .. Height : m <= 0 => g[m] = Body(g[m - 1], m)
    BY <1>1
  <2> HIDE DEF g
  <2> QED BY <2>1, <2>2
<1> HIDE DEF Body
<1>3. ASSUME NEW k \in Nat, k \in S PROVE k + 1 \in S
  <2>1. PICK f : Upto(f, k)
    BY <1>3
  <2> DEFINE g == [m \in 0 .. Height |-> IF m = k + 1 THEN Body(f[k], k + 1) ELSE f[m]]
  <2>2. ASSUME NEW m \in 0 .. Height, m <= k + 1 PROVE g[m] = Body(g[m - 1], m)
    <3>1. CASE m = 0
      <4>1. 0 \in 0 .. Height /\ 0 <= k /\ 0 # k + 1
        BY <1>0
      <4>2. g[0] = f[0]
        BY <4>1
      <4>3. f[0] = Body(f[0 - 1], 0)
        BY <2>1, <4>1
      <4> HIDE DEF g
      <4> QED BY <1>1, <3>1, <4>2, <4>3
    <3>2. CASE m # 0
      <4>1. m - 1 \in 0 .. Height /\ m - 1 # k + 1
        BY <1>0, <2>2, <3>2
      <4>2. g[m - 1] = f[m - 1]
        BY <4>1
      <4>3. CASE m = k + 1
        BY <4>2, <4>3
      <4>4. CASE m # k + 1
        <5>1. m <= k /\ g[m] = f[m]
          BY <2>2, <4>4
        <5>2. f[m] = Body(f[m - 1], m)
          BY <2>1, <5>1
        <5> QED BY <4>2, <5>1, <5>2
      <4> QED BY <4>3, <4>4
    <3> QED BY <3>1, <3>2
  <2>3. g = [m \in 0 .. Height |-> g[m]]
    OBVIOUS
  <2> HIDE DEF g
  <2>4. Upto(g, k + 1)
    BY <2>2, <2>3
  <2> HIDE DEF Upto
  <2> QED BY <2>4
<1>4. Height \in S
  <2> HIDE DEF S
  <2>1. Nat \subseteq S
    BY <1>2, <1>3, Induction
  <2> QED BY <1>0, <2>1
<1>5. PICK f : Upto(f, Height)
  BY <1>4
<1>6. f = [m \in 0 .. Height |-> Body(f[m - 1], m)]
  <2>1. f = [m \in 0 .. Height |-> f[m]]
    BY <1>5
  <2>2. ASSUME NEW m \in 0 .. Height PROVE f[m] = Body(f[m - 1], m)
    <3>1. m <= Height
      BY <1>0
    <3> QED BY <1>5, <3>1
  <2> HIDE DEF Upto
  <2> QED BY <2>1, <2>2
<1>7. NormalizeTo = [m \in 0 .. Height |-> Body(NormalizeTo[m - 1], m)]
  BY <1>6 DEF NormalizeTo, Body, Projection
<1>8. NormalizeTo[n] = Body(NormalizeTo[n - 1], n)
  BY <1>7
<1> QED BY <1>8 DEF Body

\* What an answer misses of a value, given what is missed of its items.
Misses(v, out, shape, missing) ==
    IF v.type = "text" THEN IF out.runes < v.runes THEN {Cut(<<>>, v.runes, out.runes)} ELSE {}
    ELSE IF v.type # "collection" THEN {}
    ELSE LostOf(v, out, shape) \cup
         UNION {LET key == out.items[i].key
                IN  Under(NameOf(shape, key, i),
                          missing[Field(v, key)][out.items[i].value][Element(shape, key)]) :
                   i \in DOMAIN out.items}

LEMMA Missings ==
    ASSUME NEW n \in 0 .. Height, NEW v \in Trees[n], NEW out \in Trees[n], NEW shape \in Shape
    PROVE  MissingTo[n][v][out][shape] = Misses(v, out, shape, MissingTo[n - 1])
<1> DEFINE Body(less, m) ==
              [w \in Trees[m] |-> [o \in Trees[m] |-> [s \in Shape |-> Misses(w, o, s, less)]]]
           Upto(f, k) == /\ f = [m \in 0 .. Height |-> f[m]]
                         /\ \A m \in 0 .. Height : m <= k => f[m] = Body(f[m - 1], m)
           S == {k \in Nat : \E f : Upto(f, k)}
<1>0. Height \in Nat
  BY DocumentsAssumption
<1>1. \A x, y : Body(x, 0) = Body(y, 0)
  <2>1. \A w \in Trees[0] : w.type # "collection"
    BY Flat
  <2>2. ASSUME NEW x, NEW y, NEW w \in Trees[0], NEW o, NEW s
        PROVE  Misses(w, o, s, x) = Misses(w, o, s, y)
    BY <2>1 DEF Misses
  <2> QED BY <2>2
<1>2. 0 \in S
  <2> DEFINE g == [m \in 0 .. Height |-> Body({}, 0)]
  <2> HIDE DEF Body
  <2>1. g = [m \in 0 .. Height |-> g[m]]
    OBVIOUS
  <2>2. \A m \in 0 .. Height : m <= 0 => g[m] = Body(g[m - 1], m)
    BY <1>1
  <2> HIDE DEF g
  <2> QED BY <2>1, <2>2
<1> HIDE DEF Body
<1>3. ASSUME NEW k \in Nat, k \in S PROVE k + 1 \in S
  <2>1. PICK f : Upto(f, k)
    BY <1>3
  <2> DEFINE g == [m \in 0 .. Height |-> IF m = k + 1 THEN Body(f[k], k + 1) ELSE f[m]]
  <2>2. ASSUME NEW m \in 0 .. Height, m <= k + 1 PROVE g[m] = Body(g[m - 1], m)
    <3>1. CASE m = 0
      <4>1. 0 \in 0 .. Height /\ 0 <= k /\ 0 # k + 1
        BY <1>0
      <4>2. g[0] = f[0]
        BY <4>1
      <4>3. f[0] = Body(f[0 - 1], 0)
        BY <2>1, <4>1
      <4> HIDE DEF g
      <4> QED BY <1>1, <3>1, <4>2, <4>3
    <3>2. CASE m # 0
      <4>1. m - 1 \in 0 .. Height /\ m - 1 # k + 1
        BY <1>0, <2>2, <3>2
      <4>2. g[m - 1] = f[m - 1]
        BY <4>1
      <4>3. CASE m = k + 1
        BY <4>2, <4>3
      <4>4. CASE m # k + 1
        <5>1. m <= k /\ g[m] = f[m]
          BY <2>2, <4>4
        <5>2. f[m] = Body(f[m - 1], m)
          BY <2>1, <5>1
        <5> QED BY <4>2, <5>1, <5>2
      <4> QED BY <4>3, <4>4
    <3> QED BY <3>1, <3>2
  <2>3. g = [m \in 0 .. Height |-> g[m]]
    OBVIOUS
  <2> HIDE DEF g
  <2>4. Upto(g, k + 1)
    BY <2>2, <2>3
  <2> HIDE DEF Upto
  <2> QED BY <2>4
<1>4. Height \in S
  <2> HIDE DEF S
  <2>1. Nat \subseteq S
    BY <1>2, <1>3, Induction
  <2> QED BY <1>0, <2>1
<1>5. PICK f : Upto(f, Height)
  BY <1>4
<1>6. f = [m \in 0 .. Height |-> Body(f[m - 1], m)]
  <2>1. f = [m \in 0 .. Height |-> f[m]]
    BY <1>5
  <2>2. ASSUME NEW m \in 0 .. Height PROVE f[m] = Body(f[m - 1], m)
    <3>1. m <= Height
      BY <1>0
    <3> QED BY <1>5, <3>1
  <2> HIDE DEF Upto
  <2> QED BY <2>1, <2>2
<1>7. MissingTo = [m \in 0 .. Height |-> Body(MissingTo[m - 1], m)]
  BY <1>6 DEF MissingTo, Body, Misses
<1>8. MissingTo[n] = Body(MissingTo[n - 1], n)
  BY <1>7
<1> QED BY <1>8 DEF Body

\* What it keeps is the least, given that of its items.
Keeps(v, out, shape, keeps) ==
    v.type = "collection" =>
        /\ KeepsTheLeast(v, out, shape)
        /\ \A i \in DOMAIN out.items :
              LET key == out.items[i].key
              IN  keeps[Field(v, key)][out.items[i].value][Element(shape, key)]

LEMMA Keepings ==
    ASSUME NEW n \in 0 .. Height, NEW v \in Trees[n], NEW out \in Trees[n], NEW shape \in Shape
    PROVE  KeepsTo[n][v][out][shape] = Keeps(v, out, shape, KeepsTo[n - 1])
<1> DEFINE Body(less, m) ==
              [w \in Trees[m] |-> [o \in Trees[m] |-> [s \in Shape |-> Keeps(w, o, s, less)]]]
           Upto(f, k) == /\ f = [m \in 0 .. Height |-> f[m]]
                         /\ \A m \in 0 .. Height : m <= k => f[m] = Body(f[m - 1], m)
           S == {k \in Nat : \E f : Upto(f, k)}
<1>0. Height \in Nat
  BY DocumentsAssumption
<1>1. \A x, y : Body(x, 0) = Body(y, 0)
  <2>1. \A w \in Trees[0] : w.type # "collection"
    BY Flat
  <2>2. ASSUME NEW x, NEW y, NEW w \in Trees[0], NEW o, NEW s
        PROVE  Keeps(w, o, s, x) = Keeps(w, o, s, y)
    BY <2>1 DEF Keeps
  <2> QED BY <2>2
<1>2. 0 \in S
  <2> DEFINE g == [m \in 0 .. Height |-> Body({}, 0)]
  <2> HIDE DEF Body
  <2>1. g = [m \in 0 .. Height |-> g[m]]
    OBVIOUS
  <2>2. \A m \in 0 .. Height : m <= 0 => g[m] = Body(g[m - 1], m)
    BY <1>1
  <2> HIDE DEF g
  <2> QED BY <2>1, <2>2
<1> HIDE DEF Body
<1>3. ASSUME NEW k \in Nat, k \in S PROVE k + 1 \in S
  <2>1. PICK f : Upto(f, k)
    BY <1>3
  <2> DEFINE g == [m \in 0 .. Height |-> IF m = k + 1 THEN Body(f[k], k + 1) ELSE f[m]]
  <2>2. ASSUME NEW m \in 0 .. Height, m <= k + 1 PROVE g[m] = Body(g[m - 1], m)
    <3>1. CASE m = 0
      <4>1. 0 \in 0 .. Height /\ 0 <= k /\ 0 # k + 1
        BY <1>0
      <4>2. g[0] = f[0]
        BY <4>1
      <4>3. f[0] = Body(f[0 - 1], 0)
        BY <2>1, <4>1
      <4> HIDE DEF g
      <4> QED BY <1>1, <3>1, <4>2, <4>3
    <3>2. CASE m # 0
      <4>1. m - 1 \in 0 .. Height /\ m - 1 # k + 1
        BY <1>0, <2>2, <3>2
      <4>2. g[m - 1] = f[m - 1]
        BY <4>1
      <4>3. CASE m = k + 1
        BY <4>2, <4>3
      <4>4. CASE m # k + 1
        <5>1. m <= k /\ g[m] = f[m]
          BY <2>2, <4>4
        <5>2. f[m] = Body(f[m - 1], m)
          BY <2>1, <5>1
        <5> QED BY <4>2, <5>1, <5>2
      <4> QED BY <4>3, <4>4
    <3> QED BY <3>1, <3>2
  <2>3. g = [m \in 0 .. Height |-> g[m]]
    OBVIOUS
  <2> HIDE DEF g
  <2>4. Upto(g, k + 1)
    BY <2>2, <2>3
  <2> HIDE DEF Upto
  <2> QED BY <2>4
<1>4. Height \in S
  <2> HIDE DEF S
  <2>1. Nat \subseteq S
    BY <1>2, <1>3, Induction
  <2> QED BY <1>0, <2>1
<1>5. PICK f : Upto(f, Height)
  BY <1>4
<1>6. f = [m \in 0 .. Height |-> Body(f[m - 1], m)]
  <2>1. f = [m \in 0 .. Height |-> f[m]]
    BY <1>5
  <2>2. ASSUME NEW m \in 0 .. Height PROVE f[m] = Body(f[m - 1], m)
    <3>1. m <= Height
      BY <1>0
    <3> QED BY <1>5, <3>1
  <2> HIDE DEF Upto
  <2> QED BY <2>1, <2>2
<1>7. KeepsTo = [m \in 0 .. Height |-> Body(KeepsTo[m - 1], m)]
  BY <1>6 DEF KeepsTo, Body, Keeps
<1>8. KeepsTo[n] = Body(KeepsTo[n - 1], n)
  BY <1>7
<1> QED BY <1>8 DEF Body

\* The items ranked, each once, the least rank first.
IsArranged(items, D, rank, at) ==
    /\ at \in [1 .. Cardinality(D) -> D]
    /\ Arranged(items, rank) = [p \in 1 .. Cardinality(D) |-> items[at[p]]]
    /\ \A p, q \in 1 .. Cardinality(D) : p < q => rank[at[p]] < rank[at[q]]
    /\ \A p, q \in 1 .. Cardinality(D) : at[p] = at[q] => p = q
    /\ \A i \in D : \E p \in 1 .. Cardinality(D) : at[p] = i

LEMMA Arrangement ==
    ASSUME NEW items, NEW D, IsFiniteSet(D), NEW rank \in [D -> Nat],
           \A i, j \in D : rank[i] = rank[j] => i = j
    PROVE  Cardinality(D) \in Nat /\ \E at : IsArranged(items, D, rank, at)
<1> DEFINE N == Cardinality(D)
           Before(i) == {j \in D : rank[j] < rank[i]}
           spot == [i \in D |-> Cardinality(Before(i)) + 1]
           at == [p \in 1 .. N |-> CHOOSE i \in D : Cardinality(Before(i)) + 1 = p]
<1>1. N \in Nat
  BY FS_CardinalityType
<1>2. ASSUME NEW i \in D
      PROVE  IsFiniteSet(Before(i)) /\ Cardinality(Before(i)) \in Nat /\ spot[i] \in 1 .. N
  <2>1. IsFiniteSet(D \ {i}) /\ Cardinality(D \ {i}) = N - 1
    BY <1>2, FS_RemoveElement
  <2>2. Before(i) \in SUBSET (D \ {i})
    BY <1>2
  <2> HIDE DEF Before, N
  <2>3. IsFiniteSet(Before(i)) /\ Cardinality(Before(i)) <= Cardinality(D \ {i})
    BY <2>1, <2>2, FS_Subset
  <2>4. Cardinality(Before(i)) \in Nat
    BY <2>3, FS_CardinalityType
  <2>5. spot[i] = Cardinality(Before(i)) + 1
    BY <1>2
  <2> HIDE DEF spot
  <2> QED BY <1>1, <2>1, <2>3, <2>4, <2>5
<1>3. ASSUME NEW i \in D, NEW j \in D, rank[i] < rank[j]
      PROVE  spot[i] < spot[j]
  <2>1. Before(i) \cup {i} \in SUBSET Before(j) /\ i \notin Before(i)
    BY <1>3
  <2>2. spot[i] = Cardinality(Before(i)) + 1 /\ spot[j] = Cardinality(Before(j)) + 1
    OBVIOUS
  <2> HIDE DEF Before, spot
  <2>3. Cardinality(Before(i) \cup {i}) = Cardinality(Before(i)) + 1
    BY <1>2, <2>1, FS_AddElement
  <2>4. Cardinality(Before(i) \cup {i}) <= Cardinality(Before(j))
    BY <1>2, <2>1, FS_Subset
  <2> QED BY <1>2, <2>2, <2>3, <2>4
<1>4. spot \in Injection(D, 1 .. N)
  <2>1. spot \in [D -> 1 .. N]
    BY <1>2
  <2>2. ASSUME NEW i \in D, NEW j \in D, i # j PROVE spot[i] # spot[j]
    <3>1. rank[i] < rank[j] \/ rank[j] < rank[i]
      BY <2>2
    <3>2. spot[i] \in 1 .. N /\ spot[j] \in 1 .. N
      BY <1>2
    <3> HIDE DEF spot, N
    <3>3. spot[i] \in Nat /\ spot[j] \in Nat
      BY <1>1, <3>2
    <3> QED BY <1>3, <3>1, <3>3
  <2> HIDE DEF spot
  <2> QED BY <2>1, <2>2 DEF Injection, IsInjective
<1>5. spot \in Surjection(D, 1 .. N)
  <2>1. IsFiniteSet(1 .. N) /\ Cardinality(1 .. N) = N
    BY <1>1, FS_Interval
  <2>2. Cardinality(D) = Cardinality(1 .. N)
    BY <2>1
  <2> HIDE DEF spot, N
  <2> QED BY <1>4, <2>1, <2>2, FS_Injection
<1>6. ASSUME NEW p \in 1 .. N PROVE at[p] \in D /\ spot[at[p]] = p
  <2>1. \E i \in D : spot[i] = p
    BY <1>5 DEF Surjection
  <2>2. \E i \in D : Cardinality(Before(i)) + 1 = p
    BY <2>1
  <2> HIDE DEF Before
  <2>3. at[p] \in D /\ Cardinality(Before(at[p])) + 1 = p
    BY <1>6, <2>2
  <2> QED BY <2>3
<1>7. at \in [1 .. N -> D]
  <2>1. \A p \in 1 .. N : (CHOOSE i \in D : Cardinality(Before(i)) + 1 = p) \in D
    BY <1>6
  <2> HIDE DEF Before, N
  <2> QED BY <2>1
<1>8. Arranged(items, rank) = [p \in 1 .. N |-> items[at[p]]]
  <2>1. DOMAIN rank = D
    OBVIOUS
  <2> QED BY <2>1 DEF Arranged
<1> HIDE DEF at
<1>9. ASSUME NEW p \in 1 .. N, NEW q \in 1 .. N, p < q PROVE rank[at[p]] < rank[at[q]]
  <2>1. spot[at[p]] = p /\ spot[at[q]] = q /\ at[p] \in D /\ at[q] \in D
    BY <1>6
  <2>2. rank[at[q]] < rank[at[p]] => q < p
    <3> HIDE DEF spot
    <3> QED BY <1>3, <2>1
  <2>3. at[p] # at[q]
    <3> HIDE DEF spot
    <3> QED BY <1>9, <2>1
  <2>4. rank[at[p]] \in Nat /\ rank[at[q]] \in Nat /\ rank[at[p]] # rank[at[q]]
    BY <2>1, <2>3
  <2> QED BY <1>9, <2>2, <2>4
<1>10. \A p, q \in 1 .. N : at[p] = at[q] => p = q
  <2> HIDE DEF spot
  <2> QED BY <1>6
<1>11. ASSUME NEW i \in D PROVE \E p \in 1 .. N : at[p] = i
  <2>1. spot[i] \in 1 .. N /\ spot[at[spot[i]]] = spot[i] /\ at[spot[i]] \in D
    <3>1. spot[i] \in 1 .. N
      BY <1>2
    <3> HIDE DEF spot
    <3> QED BY <1>6, <3>1
  <2>2. at[spot[i]] = i
    <3> HIDE DEF spot
    <3> QED BY <1>4, <2>1 DEF Injection, IsInjective
  <2> HIDE DEF spot
  <2> QED BY <2>1, <2>2
<1>12. IsArranged(items, D, rank, at)
  BY <1>7, <1>8, <1>9, <1>10, <1>11 DEF IsArranged
<1> QED BY <1>1, <1>12 DEF N

\* Arranged as given, a sequence is itself.
LEMMA Unchanged ==
    ASSUME NEW items, NEW N \in Nat, DOMAIN items = 1 .. N, items = [i \in 1 .. N |-> items[i]]
    PROVE  Arranged(items, AsGiven(1 .. N)) = items
<1> DEFINE rank == AsGiven(1 .. N)
           Before(i) == {j \in DOMAIN rank : rank[j] < rank[i]}
<1>1. DOMAIN rank = 1 .. N /\ \A i \in 1 .. N : rank[i] = i
  BY DEF AsGiven
<1>2. Cardinality(1 .. N) = N
  BY FS_Interval
<1>3. ASSUME NEW i \in 1 .. N PROVE Cardinality(Before(i)) + 1 = i
  <2>1. Before(i) = 1 .. (i - 1)
    BY <1>1
  <2>2. Cardinality(1 .. (i - 1)) = i - 1
    <3>1. 1 \in Int /\ i - 1 \in Int /\ (1 > i - 1 => i - 1 = 0)
      OBVIOUS
    <3>2. Cardinality(1 .. (i - 1)) = IF 1 > i - 1 THEN 0 ELSE (i - 1) - 1 + 1
      BY <3>1, FS_Interval
    <3> QED BY <3>1, <3>2
  <2> HIDE DEF Before
  <2> QED BY <2>1, <2>2
<1>4. ASSUME NEW p \in 1 .. N
      PROVE  (CHOOSE i \in DOMAIN rank : Cardinality(Before(i)) + 1 = p) = p
  <2> HIDE DEF Before, rank
  <2> QED BY <1>1, <1>3
<1>5. Arranged(items, rank) = [p \in 1 .. Cardinality(DOMAIN rank) |->
          items[CHOOSE i \in DOMAIN rank : Cardinality(Before(i)) + 1 = p]]
  BY DEF Arranged
<1> HIDE DEF rank, Before
<1>6. Arranged(items, rank) = [p \in 1 .. N |->
          items[CHOOSE i \in DOMAIN rank : Cardinality(Before(i)) + 1 = p]]
  BY <1>1, <1>2, <1>5
<1>7. Arranged(items, rank) = [p \in 1 .. N |-> items[p]]
  BY <1>4, <1>6
<1> QED BY <1>7 DEF rank

\* The item at a key, and what is known of one.
LEMMA FieldOf ==
    ASSUME NEW n \in 0 .. Height, NEW v \in Trees[n], v.type = "collection", NEW i \in DOMAIN v.items
    PROVE  /\ v.items[i].key \in Keys(v) /\ Field(v, v.items[i].key) = v.items[i].value
           /\ n # 0 /\ v.items[i] = Item(v.items[i].key, v.items[i].value)
           /\ v.items[i].key \in Names /\ v.items[i].value \in Trees[n - 1]
<1> DEFINE Before == Trees[n - 1]
<1>1. /\ n # 0 /\ v.items \in Seq([key : Names, value : Before])
      /\ \A j, k \in DOMAIN v.items : v.items[j].key = v.items[k].key => j = k
  BY Valued
<1> HIDE DEF Before
<1>2. v.items[i] \in [key : Names, value : Before]
  <2> DEFINE items == v.items
             X == [key : Names, value : Before]
  <2>1. items \in Seq(X) /\ i \in DOMAIN items
    BY <1>1
  <2> HIDE DEF items, X
  <2>2. items[i] \in X
    BY <2>1
  <2> QED BY <2>2 DEF items, X
<1>3. v.items[i].key \in Keys(v)
  BY DEF Keys
<1>4. (CHOOSE j \in DOMAIN v.items : v.items[j].key = v.items[i].key) = i
  BY <1>1
<1>5. Field(v, v.items[i].key) = v.items[i].value
  BY <1>3, <1>4 DEF Field
<1> QED BY <1>1, <1>2, <1>3, <1>5 DEF Item, Before

\* The shape of an item is a shape; an encapsulated status is a field.
LEMMA Elements ==
    ASSUME NEW shape \in Shape, shape.kind \in Collections, NEW key,
           shape.kind = "object" => key \in DOMAIN shape.fields,
           ~(shape.kind = "json" /\ shape.depth > MaxDepth)
    PROVE  /\ Element(shape, key) \in Shape
           /\ shape.kind # "object" => Element(shape, key).kind # "encap"
<1>1. CASE shape.kind = "object"
  <2>1. Element(shape, key) = shape.fields[key]
    BY <1>1, Zenon DEF Element
  <2>2. shape.fields[key] \in Shape
    BY <1>1, ShapesAssumption
  <2> QED BY <1>1, <2>1, <2>2
<1>2. CASE shape.kind = "json"
  <2>1. shape.kind # "object"
    BY <1>2
  <2>2. Element(shape, key) = Json(shape.depth + 1)
    BY <1>2, <2>1, Zenon DEF Element
  <2>3. shape.depth \in Nat /\ MaxDepth \in Nat
    BY <1>2, ShapesAssumption
  <2>4. Json(shape.depth + 1) \in Shape
    BY <1>2, <2>3, ShapesAssumption
  <2> QED BY <2>2, <2>4 DEF Json
<1>3. CASE shape.kind = "encap"
  <2>1. shape.kind # "object" /\ shape.kind # "json"
    BY <1>3
  <2>2. Element(shape, key) = Shapes["status"]
    BY <1>3, <2>1, Zenon DEF Element
  <2>3. Shapes["status"] \in {s \in Shape : s.kind = "object"}
    BY ShapesAssumption DEF Block
  <2> QED BY <2>2, <2>3
<1>4. CASE shape.kind \in {"map", "list"}
  <2>1. shape.kind # "object" /\ shape.kind # "json" /\ shape.kind # "encap"
    BY <1>4
  <2>2. Element(shape, key) = shape.element
    BY <2>1, Zenon DEF Element
  <2>3. shape.element \in {s \in Shape : s.kind # "encap"}
    BY <1>4, ShapesAssumption
  <2> QED BY <2>2, <2>3
<1> QED BY <1>1, <1>2, <1>3, <1>4 DEF Collections

\* The items kept of a collection are items of its own, each once; all the
\* fields known of an object, and where there is an order the least.
LEMMA KeptItems ==
    ASSUME NEW n \in 0 .. Height, NEW v \in Trees[n], v.type = "collection",
           NEW shape \in Shape, shape.kind \in Collections
    PROVE  LET kept == Kept(v, shape)
           IN  /\ Len(kept) \in Nat /\ DOMAIN kept = 1 .. Len(kept)
               /\ \E at \in [1 .. Len(kept) -> DOMAIN v.items] :
                     /\ \A p \in 1 .. Len(kept) : kept[p] = v.items[at[p]]
                     /\ \A p, q \in 1 .. Len(kept) : at[p] = at[q] => p = q
                     /\ shape.kind = "object" =>
                           \A i \in DOMAIN v.items : v.items[i].key \in DOMAIN shape.fields
                                                        <=> \E p \in 1 .. Len(kept) : at[p] = i
                     /\ Ordered(shape) =>
                           \A p \in 1 .. Len(kept), i \in DOMAIN v.items :
                              (\A q \in 1 .. Len(kept) : at[q] # i)
                                 => Rank[kept[p].key] < Rank[v.items[i].key]
<1> DEFINE items == v.items
           known == {i \in DOMAIN items : shape.kind = "object" => items[i].key \in DOMAIN shape.fields}
           rank == IF Ordered(shape) THEN [i \in known |-> Rank[items[i].key]] ELSE AsGiven(known)
           all == Arranged(items, rank)
           kept == IF shape.kind = "object" \/ Len(all) <= shape.limit THEN all ELSE SubSeq(all, 1, shape.limit)
           N == Cardinality(known)
<1>1. Len(items) \in Nat /\ DOMAIN items = 1 .. Len(items)
  BY Valued
<1>2. \A i \in DOMAIN items : items[i].key \in Names
  BY FieldOf
<1>3. IsFiniteSet(known) /\ known \subseteq DOMAIN items
  <2>1. IsFiniteSet(DOMAIN items) /\ known \in SUBSET DOMAIN items
    BY <1>1, FS_Interval
  <2> HIDE DEF known, items
  <2> QED BY <2>1, FS_Subset
<1>4. rank \in [known -> Nat] /\ \A i, j \in known : rank[i] = rank[j] => i = j
  <2>1. CASE Ordered(shape)
    <3>1. \A i \in known : Rank[items[i].key] \in Nat
      BY <1>2, <1>3, DocumentsAssumption
    <3>2. \A i, j \in known : items[i].key = items[j].key => i = j
      BY <1>3, Valued
    <3>3. \A i, j \in known : Rank[items[i].key] = Rank[items[j].key] => i = j
      BY <1>2, <1>3, <3>2, DocumentsAssumption
    <3>4. rank = [i \in known |-> Rank[items[i].key]]
      BY <2>1
    <3> HIDE DEF known, items, rank
    <3> QED BY <3>1, <3>3, <3>4
  <2>2. CASE ~Ordered(shape)
    <3>1. rank = [i \in known |-> i]
      BY <2>2 DEF AsGiven
    <3>2. known \subseteq Nat
      BY <1>1
    <3> HIDE DEF known, items, rank
    <3> QED BY <3>1, <3>2
  <2> QED BY <2>1, <2>2
<1>5. N \in Nat /\ \E at : IsArranged(items, known, rank, at)
  <2> HIDE DEF known, items, rank
  <2> QED BY <1>3, <1>4, Arrangement
<1>6. PICK at : /\ at \in [1 .. N -> known]
                /\ all = [p \in 1 .. N |-> items[at[p]]]
                /\ \A p, q \in 1 .. N : p < q => rank[at[p]] < rank[at[q]]
                /\ \A p, q \in 1 .. N : at[p] = at[q] => p = q
                /\ \A i \in known : \E p \in 1 .. N : at[p] = i
  <2> HIDE DEF known, items, rank
  <2> QED BY <1>5 DEF IsArranged
<1>7. Kept(v, shape) = kept
  BY DEF Kept
<1>8. shape.kind # "object" => shape.limit \in Nat /\ known = DOMAIN items
  BY ShapesAssumption DEF Collections
<1>9. Len(all) = N
  <2> HIDE DEF all, N
  <2> QED BY <1>5, <1>6
<1> DEFINE M == IF shape.kind = "object" \/ N <= shape.limit THEN N ELSE shape.limit
           front == [p \in 1 .. M |-> at[p]]
<1>10. M \in Nat /\ M <= N /\ (shape.kind = "object" => M = N)
  <2> HIDE DEF N
  <2> QED BY <1>5, <1>8
<1>11. Len(kept) = M /\ DOMAIN kept = 1 .. M /\ \A p \in 1 .. M : kept[p] = items[at[p]]
  <2>1. CASE shape.kind = "object" \/ N <= shape.limit
    <3>1. kept = all /\ M = N
      BY <1>9, <2>1
    <3> HIDE DEF all, N, kept, M, items
    <3> QED BY <1>5, <1>6, <1>9, <3>1
  <2>2. CASE ~(shape.kind = "object" \/ N <= shape.limit)
    <3>1. kept = SubSeq(all, 1, M) /\ M = shape.limit
      BY <1>9, <2>2
    <3> HIDE DEF all, N, kept, M, items
    <3>2. SubSeq(all, 1, M) = [p \in 1 .. M |-> all[p]]
      BY <1>5, <1>6, <1>10
    <3>3. \A p \in 1 .. M : all[p] = items[at[p]]
      BY <1>5, <1>6, <1>10
    <3>4. kept = [p \in 1 .. M |-> items[at[p]]]
      BY <3>1, <3>2, <3>3
    <3> QED BY <1>10, <3>4
  <2> QED BY <2>1, <2>2
<1> HIDE DEF M, all, kept, N
<1>12. front \in [1 .. M -> DOMAIN items] /\ \A p \in 1 .. M : front[p] = at[p] /\ p \in 1 .. N
  BY <1>3, <1>5, <1>6, <1>10
<1> HIDE DEF front
<1>13. \A p, q \in 1 .. M : front[p] = front[q] => p = q
  BY <1>6, <1>12
<1>14. ASSUME shape.kind = "object", NEW i \in DOMAIN items
       PROVE  items[i].key \in DOMAIN shape.fields <=> \E p \in 1 .. M : front[p] = i
  <2>1. items[i].key \in DOMAIN shape.fields <=> i \in known
    BY <1>14
  <2>2. M = N
    BY <1>10, <1>14
  <2> HIDE DEF known, items
  <2> QED BY <1>6, <1>12, <2>1, <2>2
<1>15. ASSUME Ordered(shape), NEW p \in 1 .. M, NEW i \in DOMAIN items,
              \A q \in 1 .. M : front[q] # i
       PROVE  Rank[items[at[p]].key] < Rank[items[i].key]
  <2>1. shape.kind # "object"
    BY <1>15 DEF Ordered
  <2>2. i \in known
    BY <1>8, <2>1
  <2>3. PICK q \in 1 .. N : at[q] = i
    BY <1>6, <2>2
  <2>4. ~(q \in 1 .. M)
    BY <1>12, <1>15, <2>3
  <2>5. p < q
    BY <1>5, <1>10, <2>4
  <2>6. rank[at[p]] < rank[at[q]]
    <3> HIDE DEF rank, known, items
    <3> QED BY <1>6, <1>12, <2>5
  <2>7. at[p] \in known /\ at[q] \in known
    <3> HIDE DEF known
    <3> QED BY <1>6, <1>12
  <2>8. rank = [j \in known |-> Rank[items[j].key]]
    BY <1>15
  <2> HIDE DEF rank, known, items
  <2> QED BY <2>3, <2>6, <2>7, <2>8
<1> HIDE DEF known, rank
<1>16. \A p \in 1 .. M : kept[p] = items[front[p]]
  BY <1>11, <1>12
<1>17. Ordered(shape) => \A p \in 1 .. M, i \in DOMAIN items :
          (\A q \in 1 .. M : front[q] # i) => Rank[kept[p].key] < Rank[items[i].key]
  <2> HIDE DEF items
  <2> QED BY <1>11, <1>15
<1>18. \E h \in [1 .. M -> DOMAIN items] :
          /\ \A p \in 1 .. M : kept[p] = items[h[p]]
          /\ \A p, q \in 1 .. M : h[p] = h[q] => p = q
          /\ shape.kind = "object" =>
                \A i \in DOMAIN items : items[i].key \in DOMAIN shape.fields
                                           <=> \E p \in 1 .. M : h[p] = i
          /\ Ordered(shape) =>
                \A p \in 1 .. M, i \in DOMAIN items :
                   (\A q \in 1 .. M : h[q] # i) => Rank[kept[p].key] < Rank[items[i].key]
  <2>1. front \in [1 .. M -> DOMAIN items]
    BY <1>12
  <2> HIDE DEF items
  <2> QED BY <1>13, <1>14, <1>16, <1>17, <2>1
<1> QED BY <1>7, <1>10, <1>11, <1>18

\* What a value projected is: of its level, with the cuts it misses told, or
\* left out as a whole.
Sound(n, v, shape, r) ==
    \/ r.failed = "failed"
    \/ /\ r.value \in Trees[n] /\ r.value.type # "omitted"
       /\ r.cuts = MissingTo[n][v][r.value][shape] /\ KeepsTo[n][v][r.value][shape]
    \/ /\ shape.kind = "encap" /\ v.type = "collection"
       /\ r.value.type = "omitted" /\ r.cuts = {Cut(<<>>, Len(v.items), 0)}

LEMMA LeafValues ==
    ASSUME NEW n \in 0 .. Height, NEW v \in Trees[n], v.type # "collection", NEW shape \in Shape
    PROVE  Sound(n, v, shape, Leaf(v, shape))
<1>1. ASSUME NEW out \in Trees[n]
      PROVE  /\ MissingTo[n][v][out][shape] =
                   IF v.type = "text" /\ out.runes < v.runes THEN {Cut(<<>>, v.runes, out.runes)} ELSE {}
             /\ KeepsTo[n][v][out][shape]
  <2>1. MissingTo[n][v][out][shape] = Misses(v, out, shape, MissingTo[n - 1])
    BY Missings
  <2>2. KeepsTo[n][v][out][shape] = Keeps(v, out, shape, KeepsTo[n - 1])
    BY Keepings
  <2>3. Keeps(v, out, shape, KeepsTo[n - 1])
    BY DEF Keeps
  <2> QED BY <2>1, <2>2, <2>3 DEF Misses
<1>2. v.type # "omitted" /\ (v.type = "text" => v.runes \in Nat)
  BY Valued
<1>3. Sound(n, v, shape, Projected(v, {}))
  <2>1. Projected(v, {}).value = v /\ Projected(v, {}).cuts = {}
    BY DEF Projected
  <2>2. ~(v.type = "text" /\ v.runes < v.runes)
    BY <1>2
  <2>3. MissingTo[n][v][v][shape] = {} /\ KeepsTo[n][v][v][shape]
    BY <1>1, <2>2
  <2> QED BY <1>2, <2>1, <2>3 DEF Sound
<1>4. Sound(n, v, shape, Failed)
  BY DEF Sound, Failed
<1>5. ASSUME shape.kind \in {"identity", "text", "json"}, v.type = "text"
      PROVE  Sound(n, v, shape, Bounded(v, shape))
  <2> DEFINE limit == IF shape.kind = "json" THEN MaxText ELSE shape.limit
             cut == {Cut(<<>>, v.runes, limit)}
  <2>1. limit \in Nat
    BY <1>5, ShapesAssumption
  <2> HIDE DEF limit
  <2>2. ASSUME limit < v.runes PROVE Sound(n, v, shape, Projected(Text(limit), cut))
    <3>1. /\ Projected(Text(limit), cut).value = Text(limit) /\ Projected(Text(limit), cut).cuts = cut
          /\ Text(limit).type # "omitted" /\ Text(limit).runes = limit
      BY DEF Projected, Text
    <3>2. Text(limit) \in Trees[n]
      BY <2>1, Composed
    <3>3. MissingTo[n][v][Text(limit)][shape] = cut /\ KeepsTo[n][v][Text(limit)][shape]
      BY <1>1, <1>5, <2>2, <3>1, <3>2
    <3> QED BY <3>1, <3>2, <3>3 DEF Sound
  <2>3. Bounded(v, shape) = IF v.runes <= limit THEN Projected(v, {})
                            ELSE IF shape.kind = "identity" THEN Failed
                            ELSE Projected(Text(limit), cut)
    BY DEF Bounded, limit
  <2>4. v.runes \in Nat
    BY <1>2, <1>5
  <2> HIDE DEF cut
  <2> QED BY <1>3, <1>4, <2>1, <2>2, <2>3, <2>4
<1> QED BY <1>3, <1>4, <1>5 DEF Leaf

\* The items answered of those kept, in their order.
IsAnswered(items, M, answered, K, to) ==
    /\ K \in Nat /\ to \in [1 .. K -> answered]
    /\ Arranged(items, AsGiven(answered)) = [p \in 1 .. K |-> items[to[p]]]
    /\ \A p, q \in 1 .. K : to[p] = to[q] => p = q
    /\ \A i \in answered : \E p \in 1 .. K : to[p] = i
    /\ answered = 1 .. M => K = M /\ \A p \in 1 .. K : to[p] = p

LEMMA Answered ==
    ASSUME NEW items, NEW M \in Nat, DOMAIN items = 1 .. M, items = [i \in 1 .. M |-> items[i]],
           NEW answered \in SUBSET (1 .. M)
    PROVE  \E K, to : IsAnswered(items, M, answered, K, to)
<1> DEFINE rank == AsGiven(answered)
<1>1. CASE answered = 1 .. M
  <2> DEFINE to == [p \in 1 .. M |-> p]
  <2>1. Arranged(items, AsGiven(1 .. M)) = items
    BY Unchanged
  <2>2. IsAnswered(items, M, answered, M, to)
    BY <1>1, <2>1 DEF IsAnswered
  <2> HIDE DEF to
  <2> QED BY <2>2
<1>2. CASE answered # 1 .. M
  <2>1. IsFiniteSet(answered)
    <3>1. IsFiniteSet(1 .. M)
      BY FS_Interval
    <3> QED BY <3>1, FS_Subset
  <2>2. rank \in [answered -> Nat] /\ \A i, j \in answered : rank[i] = rank[j] => i = j
    BY DEF AsGiven
  <2> HIDE DEF rank
  <2>3. Cardinality(answered) \in Nat /\ \E at : IsArranged(items, answered, rank, at)
    BY <2>1, <2>2, Arrangement
  <2>4. PICK at : IsArranged(items, answered, rank, at)
    BY <2>3
  <2>5. IsAnswered(items, M, answered, Cardinality(answered), at)
    BY <1>2, <2>3, <2>4 DEF IsAnswered, IsArranged, rank
  <2> QED BY <2>5
<1> QED BY <1>1, <1>2

\* A collection projected, when its items are: the answer is a value, the cuts
\* told are those it misses, and what it keeps is the least.
LEMMA Collected ==
    ASSUME NEW n \in 0 .. Height, NEW v \in Trees[n], v.type = "collection",
           NEW shape \in Shape, shape.kind \in Collections,
           ~(shape.kind = "json" /\ shape.depth > MaxDepth),
           NEW depth \in Nat, NEW project,
           \A w \in Trees[n - 1], s \in Shape, d \in Nat : Sound(n - 1, w, s, project[w][s][d])
    PROVE  Sound(n, v, shape, Normalized(v, shape, depth, project))
<1> DEFINE kept == Kept(v, shape)
           M == Len(kept)
           inner == IF shape.kind = "encap" THEN depth + 1 ELSE depth
           El(i) == Element(shape, kept[i].key)
           child(i) == project[kept[i].value][El(i)][inner]
           children == [i \in DOMAIN kept |-> child(i)]
           answered == {i \in DOMAIN kept : children[i].value.type # "omitted"}
           new == [i \in DOMAIN kept |-> Item(kept[i].key, children[i].value)]
           out == Collection(Arranged(new, AsGiven(answered)))
           own == IF shape.kind # "object" /\ M < Len(v.items) THEN {Cut(<<>>, Len(v.items), M)} ELSE {}
           tells == own \cup UNION {Under(NameOf(shape, kept[i].key, i), children[i].cuts) : i \in DOMAIN children}
           r == Normalized(v, shape, depth, project)
<1>1. r = Failed \/ /\ r = Projected(out, tells)
                    /\ \A i \in DOMAIN kept : child(i).failed # "failed"
  BY DEF Normalized
<1>2. CASE r = Failed
  BY <1>2 DEF Sound, Failed
<1>3. CASE r = Projected(out, tells) /\ \A i \in DOMAIN kept : child(i).failed # "failed"
  <2>1. M \in Nat /\ DOMAIN kept = 1 .. M
    BY KeptItems
  <2>2. PICK at \in [1 .. M -> DOMAIN v.items] :
           /\ \A p \in 1 .. M : kept[p] = v.items[at[p]]
           /\ \A p, q \in 1 .. M : at[p] = at[q] => p = q
           /\ shape.kind = "object" =>
                 \A i \in DOMAIN v.items : v.items[i].key \in DOMAIN shape.fields
                                              <=> \E p \in 1 .. M : at[p] = i
           /\ Ordered(shape) =>
                 \A p \in 1 .. M, i \in DOMAIN v.items :
                    (\A q \in 1 .. M : at[q] # i) => Rank[kept[p].key] < Rank[v.items[i].key]
    BY KeptItems
  <2> HIDE DEF kept, M
  <2>3. ASSUME NEW i \in 1 .. M
        PROVE  /\ kept[i].key \in Keys(v) /\ kept[i].key \in Names
               /\ Field(v, kept[i].key) = kept[i].value /\ kept[i].value \in Trees[n - 1]
               /\ n # 0 /\ (shape.kind = "object" => kept[i].key \in DOMAIN shape.fields)
    BY <2>2, FieldOf
  <2>4. \A i, j \in 1 .. M : kept[i].key = kept[j].key => i = j
    <3>1. \A i, j \in DOMAIN v.items : v.items[i].key = v.items[j].key => i = j
      BY Valued
    <3> QED BY <2>2, <3>1
  <2>5. ASSUME NEW i \in 1 .. M
        PROVE  El(i) \in Shape /\ (shape.kind # "object" => El(i).kind # "encap")
    BY <2>3, Elements
  <2> DEFINE Whole(i) ==
                /\ child(i).value \in Trees[n - 1] /\ child(i).value.type # "omitted"
                /\ child(i).cuts = MissingTo[n - 1][kept[i].value][child(i).value][El(i)]
                /\ KeepsTo[n - 1][kept[i].value][child(i).value][El(i)]
             LeftOut(i) ==
                /\ shape.kind = "object" /\ child(i).value.type = "omitted"
                /\ child(i).cuts = {Cut(<<>>, Len(kept[i].value.items), 0)}
  <2>6. ASSUME NEW i \in 1 .. M PROVE Whole(i) \/ LeftOut(i)
    <3>1. inner \in Nat
      OBVIOUS
    <3>2. Sound(n - 1, kept[i].value, El(i), child(i))
      <4> HIDE DEF El, inner
      <4> QED BY <2>3, <2>5, <3>1
    <3>3. child(i).failed # "failed"
      BY <1>3, <2>1
    <3> HIDE DEF child, El
    <3> QED BY <2>5, <3>2, <3>3 DEF Sound
  <2> HIDE DEF child, El
  <2>7. /\ children = [i \in 1 .. M |-> child(i)]
        /\ new = [i \in 1 .. M |-> Item(kept[i].key, child(i).value)]
        /\ answered = {i \in 1 .. M : child(i).value.type # "omitted"}
    BY <2>1
  <2> HIDE DEF children, new, answered
  <2>8. \A i \in 1 .. M : (i \in answered => Whole(i)) /\ (i \notin answered => LeftOut(i))
    BY <2>6, <2>7
  <2>9. shape.kind # "object" => answered = 1 .. M
    BY <2>7, <2>8
  <2> HIDE DEF Whole, LeftOut
  <2>10. \E K, to : IsAnswered(new, M, answered, K, to)
    <3>1. DOMAIN new = 1 .. M /\ new = [i \in 1 .. M |-> new[i]] /\ answered \in SUBSET (1 .. M)
      BY <2>7
    <3> QED BY <2>1, <3>1, Answered
  <2>11. PICK K, to :
           /\ K \in Nat /\ to \in [1 .. K -> answered]
           /\ Arranged(new, AsGiven(answered)) = [p \in 1 .. K |-> new[to[p]]]
           /\ \A p, q \in 1 .. K : to[p] = to[q] => p = q
           /\ \A i \in answered : \E p \in 1 .. K : to[p] = i
           /\ answered = 1 .. M => K = M /\ \A p \in 1 .. K : to[p] = p
    BY <2>10 DEF IsAnswered
  <2>12. /\ out.type = "collection" /\ out = Collection(out.items) /\ Len(out.items) = K
         /\ out.items = [p \in 1 .. K |-> Item(kept[to[p]].key, child(to[p]).value)]
         /\ DOMAIN out.items = 1 .. K /\ \A p \in 1 .. K : to[p] \in answered /\ to[p] \in 1 .. M
    <3>1. \A p \in 1 .. K : to[p] \in answered /\ to[p] \in 1 .. M
      BY <2>7, <2>11
    <3>2. [p \in 1 .. K |-> new[to[p]]] = [p \in 1 .. K |-> Item(kept[to[p]].key, child(to[p]).value)]
      BY <2>7, <3>1
    <3> QED BY <2>11, <3>1, <3>2 DEF Collection
  <2> HIDE DEF out
  <2>13. \A p \in 1 .. K : /\ out.items[p].key = kept[to[p]].key
                           /\ out.items[p].value = child(to[p]).value
    BY <2>12 DEF Item
  <2>14. out \in Trees[n]
    <3>1. \A i, j \in DOMAIN out.items : out.items[i].key = out.items[j].key => i = j
      BY <2>4, <2>11, <2>12, <2>13
    <3>2. out.items \in Seq([key : Names, value : Trees[n - 1]])
      <4> DEFINE Before == Trees[n - 1]
                 X == [key : Names, value : Before]
                 items == [p \in 1 .. K |-> Item(kept[to[p]].key, child(to[p]).value)]
      <4>1. \A p \in 1 .. K : Item(kept[to[p]].key, child(to[p]).value) \in X
        BY <2>3, <2>8, <2>12 DEF Item, Whole
      <4> HIDE DEF X
      <4>2. items \in [1 .. K -> X]
        BY <4>1
      <4> HIDE DEF items
      <4>3. items \in Seq(X)
        BY <2>11, <4>2
      <4> QED BY <2>12, <4>3 DEF items, X
    <3>3. n # 0
      BY Flat
    <3>4. Collection(out.items) \in Trees[n]
      BY <3>1, <3>2, <3>3, Composed
    <3> QED BY <2>12, <3>4
  <2>15. Keys(out) = {kept[i].key : i \in answered}
    <3>1. Keys(out) = {out.items[p].key : p \in 1 .. K}
      BY <2>12 DEF Keys
    <3>2. \A p \in 1 .. K : out.items[p].key \in {kept[i].key : i \in answered}
      BY <2>12, <2>13
    <3>3. \A i \in answered : kept[i].key \in {out.items[p].key : p \in 1 .. K}
      BY <2>11, <2>13
    <3> QED BY <3>1, <3>2, <3>3
  <2>16. KeepsTheLeast(v, out, shape)
    <3>1. Keys(out) \subseteq Keys(v)
      BY <2>3, <2>7, <2>15
    <3>2. ASSUME Ordered(shape), NEW k \in Keys(out), NEW other \in Keys(v) \ Keys(out)
          PROVE  Rank[k] < Rank[other]
      <4>1. answered = 1 .. M
        BY <2>9, <3>2 DEF Ordered
      <4>2. PICK p \in 1 .. M : kept[p].key = k
        BY <2>15, <4>1
      <4>3. PICK i \in DOMAIN v.items : v.items[i].key = other
        BY DEF Keys
      <4>4. \A q \in 1 .. M : at[q] # i
        BY <2>2, <2>15, <4>1, <4>3
      <4> QED BY <2>2, <3>2, <4>2, <4>3, <4>4
    <3> QED BY <3>1, <3>2 DEF KeepsTheLeast
  <2>17. KeepsTo[n][v][out][shape]
    <3>1. ASSUME NEW p \in DOMAIN out.items
          PROVE  KeepsTo[n - 1][Field(v, out.items[p].key)][out.items[p].value][Element(shape, out.items[p].key)]
      <4>1. p \in 1 .. K /\ to[p] \in answered /\ to[p] \in 1 .. M
        BY <2>12
      <4> QED BY <2>3, <2>8, <2>13, <4>1 DEF Whole, El
    <3>2. Keeps(v, out, shape, KeepsTo[n - 1])
      BY <2>16, <3>1 DEF Keeps
    <3> QED BY <2>14, <3>2, Keepings
  <2> DEFINE Of(p) == LET key == out.items[p].key
                      IN  Under(NameOf(shape, key, p),
                                MissingTo[n - 1][Field(v, key)][out.items[p].value][Element(shape, key)])
             Part(i) == Under(NameOf(shape, kept[i].key, i), children[i].cuts)
  <2>18. MissingTo[n][v][out][shape] = LostOf(v, out, shape) \cup UNION {Of(p) : p \in DOMAIN out.items}
    <3>1. MissingTo[n][v][out][shape] = Misses(v, out, shape, MissingTo[n - 1])
      BY <2>14, Missings
    <3> QED BY <3>1 DEF Misses
  <2>19. ASSUME NEW p \in 1 .. K PROVE Of(p) = Part(to[p])
    <3>1. to[p] \in answered /\ to[p] \in 1 .. M
      BY <2>12
    <3>2. NameOf(shape, kept[to[p]].key, p) = NameOf(shape, kept[to[p]].key, to[p])
      BY <2>9, <2>11 DEF NameOf
    <3>3. children[to[p]].cuts = MissingTo[n - 1][kept[to[p]].value][child(to[p]).value][El(to[p])]
      BY <2>7, <2>8, <3>1 DEF Whole
    <3> QED BY <2>3, <2>13, <3>1, <3>2, <3>3 DEF El
  <2>20. tells = LostOf(v, out, shape) \cup UNION {Of(p) : p \in DOMAIN out.items}
    <3>1. tells = own \cup UNION {Part(i) : i \in 1 .. M}
      BY <2>7
    <3>2. UNION {Of(p) : p \in DOMAIN out.items} = UNION {Part(i) : i \in answered}
      <4> HIDE DEF Of, Part
      <4>1. \A p \in 1 .. K : Of(p) = Part(to[p]) /\ to[p] \in answered
        BY <2>12, <2>19
      <4>2. ASSUME NEW i \in answered PROVE \E p \in 1 .. K : Of(p) = Part(i)
        <5>1. PICK p \in 1 .. K : to[p] = i
          BY <2>11
        <5> QED BY <4>1, <5>1
      <4>3. {Of(p) : p \in 1 .. K} = {Part(i) : i \in answered}
        BY <4>1, <4>2
      <4>4. DOMAIN out.items = 1 .. K
        BY <2>12
      <4> QED BY <4>3, <4>4
    <3>3. \/ own = LostOf(v, out, shape) /\ answered = 1 .. M
          \/ own = {} /\ LostOf(v, out, shape) = UNION {Part(i) : i \in (1 .. M) \ answered}
      <4>1. CASE shape.kind # "object"
        <5>1. answered = 1 .. M /\ K = M
          BY <2>9, <2>11, <4>1
        <5>2. LostOf(v, out, shape) = IF M < Len(v.items) THEN {Cut(<<>>, Len(v.items), M)} ELSE {}
          BY <2>12, <4>1, <5>1 DEF LostOf
        <5>3. own = IF M < Len(v.items) THEN {Cut(<<>>, Len(v.items), M)} ELSE {}
          BY <4>1
        <5>4. own = LostOf(v, out, shape)
          BY <5>2, <5>3
        <5> HIDE DEF own
        <5> QED BY <5>1, <5>4
      <4>2. CASE shape.kind = "object"
        <5> DEFINE One(name) == Cut(<<name>>, Len(Field(v, name).items), 0)
                   lost == (Keys(v) \cap DOMAIN shape.fields) \ Keys(out)
        <5>1. own = {} /\ LostOf(v, out, shape) = {One(name) : name \in lost}
          BY <4>2 DEF LostOf
        <5>2. ASSUME NEW i \in 1 .. M, i \notin answered
              PROVE  Part(i) = {One(kept[i].key)}
          <6>1. /\ child(i).cuts = {Cut(<<>>, Len(kept[i].value.items), 0)}
                /\ Field(v, kept[i].key) = kept[i].value
            BY <2>3, <2>8, <5>2 DEF LeftOut
          <6>2. Part(i) = Under(kept[i].key, {Cut(<<>>, Len(kept[i].value.items), 0)})
            BY <2>7, <4>2, <6>1 DEF NameOf
          <6>3. ASSUME NEW name, NEW total
                PROVE  Under(name, {Cut(<<>>, total, 0)}) = {Cut(<<name>>, total, 0)}
            <7>1. <<name>> \o <<>> = <<name>>
              OBVIOUS
            <7> DEFINE cut == Cut(<<>>, total, 0)
            <7>2. cut.path = <<>> /\ cut.total = total /\ cut.count = 0
              BY DEF Cut
            <7> HIDE DEF cut
            <7>3. Under(name, {cut}) = {Cut(<<name>> \o cut.path, cut.total, cut.count)}
              BY DEF Under
            <7> QED BY <7>1, <7>2, <7>3 DEF cut
          <6> QED BY <6>1, <6>2, <6>3
        <5>3. lost = {kept[i].key : i \in (1 .. M) \ answered}
          <6>1. ASSUME NEW name \in lost PROVE \E i \in (1 .. M) \ answered : kept[i].key = name
            <7>1. PICK k \in DOMAIN v.items : v.items[k].key = name
              BY DEF Keys
            <7>2. PICK i \in 1 .. M : at[i] = k
              BY <2>2, <4>2, <7>1
            <7> QED BY <2>2, <2>15, <7>1, <7>2
          <6>2. ASSUME NEW i \in (1 .. M) \ answered PROVE kept[i].key \in lost
            <7>1. kept[i].key \notin Keys(out)
              BY <2>4, <2>7, <2>15
            <7> QED BY <2>3, <4>2, <7>1
          <6> QED BY <6>1, <6>2
        <5> HIDE DEF One, lost, Part, own
        <5>4. {One(name) : name \in lost} = UNION {Part(i) : i \in (1 .. M) \ answered}
          BY <5>2, <5>3
        <5> QED BY <5>1, <5>4
      <4> QED BY <4>1, <4>2
    <3> HIDE DEF tells, own, Of, Part
    <3>4. answered \subseteq 1 .. M
      BY <2>7
    <3> QED BY <3>1, <3>2, <3>3, <3>4
  <2>21. /\ r.value = out /\ r.cuts = tells
    BY <1>3 DEF Projected
  <2> HIDE DEF tells, r, Of
  <2>22. r.value.type # "omitted" /\ r.cuts = MissingTo[n][v][r.value][shape]
    BY <2>12, <2>18, <2>20, <2>21
  <2>23. r.value \in Trees[n] /\ KeepsTo[n][v][r.value][shape]
    BY <2>14, <2>17, <2>21
  <2>24. Sound(n, v, shape, r)
    BY <2>22, <2>23 DEF Sound
  <2> QED BY <2>24 DEF r
<1> QED BY <1>1, <1>2, <1>3

\* All there is to know of a value projected.
LEMMA Projects ==
    ASSUME NEW v \in Trees[Height], NEW shape \in Shape, NEW depth \in Nat
    PROVE  Sound(Height, v, shape, NormalizeTo[Height][v][shape][depth])
<1> DEFINE S == {n \in 0 .. Height : \A w \in Trees[n], s \in Shape, d \in Nat :
                    Sound(n, w, s, NormalizeTo[n][w][s][d])}
<1>0. Height \in Nat
  BY DocumentsAssumption
<1>1. ASSUME NEW n \in 0 .. Height, n = 0 \/ n - 1 \in S PROVE n \in S
  <2>1. ASSUME NEW w \in Trees[n], NEW s \in Shape, NEW d \in Nat
        PROVE  Sound(n, w, s, NormalizeTo[n][w][s][d])
    <3>1. NormalizeTo[n][w][s][d] = Projection(w, s, d, NormalizeTo[n - 1])
      BY Projections
    <3>2. Sound(n, w, s, Failed)
      BY DEF Sound, Failed
    <3>3. CASE w.type # "collection"
      <4>1. Sound(n, w, s, Leaf(w, s))
        BY <3>3, LeafValues
      <4> QED BY <3>1, <3>2, <3>3, <4>1 DEF Projection
    <3>4. CASE w.type = "collection" /\ TooDeep(w, s, d)
      <4>1. s.kind = "encap"
        BY <3>4 DEF TooDeep
      <4> DEFINE r == Projected([type |-> "omitted"], {Cut(<<>>, Len(w.items), 0)})
      <4>2. r.value.type = "omitted" /\ r.cuts = {Cut(<<>>, Len(w.items), 0)}
        BY DEF Projected
      <4>3. Sound(n, w, s, r)
        BY <3>4, <4>1, <4>2 DEF Sound
      <4> QED BY <3>1, <3>4, <4>1, <4>3 DEF Projection, Collections
    <3>5. CASE w.type = "collection" /\ ~TooDeep(w, s, d)
      <4>1. CASE (s.kind = "json" /\ s.depth > MaxDepth) \/ s.kind \notin Collections
        BY <3>1, <3>2, <3>5, <4>1 DEF Projection
      <4>2. CASE ~(s.kind = "json" /\ s.depth > MaxDepth) /\ s.kind \in Collections
        <5>1. n # 0
          BY <3>5, Flat
        <5>2. \A u \in Trees[n - 1], t \in Shape, e \in Nat :
                 Sound(n - 1, u, t, NormalizeTo[n - 1][u][t][e])
          BY <1>1, <5>1
        <5> DEFINE project == NormalizeTo[n - 1]
        <5>3. NormalizeTo[n][w][s][d] = Normalized(w, s, d, project)
          BY <3>1, <3>5, <4>2 DEF Projection
        <5> HIDE DEF project
        <5>4. Sound(n, w, s, Normalized(w, s, d, project))
          BY <3>5, <4>2, <5>2, Collected DEF project
        <5> QED BY <5>3, <5>4
      <4> QED BY <4>1, <4>2
    <3> QED BY <3>3, <3>4, <3>5
  <2> QED BY <2>1
<1> HIDE DEF S
<1>2. 0 \in 0 .. Height /\ Height \in 0 .. Height /\ \A n \in 1 .. Height : n \in 0 .. Height
  BY <1>0
<1>3. 0 .. Height \subseteq S
  <2>1. 0 \in S
    BY <1>1, <1>2
  <2>2. \A n \in 1 .. Height : n - 1 \in S => n \in S
    BY <1>1, <1>2
  <2> QED BY <1>0, <2>1, <2>2, InductionTo
<1> QED BY <1>2, <1>3 DEF S

-----------------------------------------------------------------------------
\* The blocks projected so far.
Past ==
    {name \in Block :
        \/ stage \in {"encode", "answered"}
        \/ stage = "status" /\ name # "status"
        \/ stage = "monitor" /\ name = "config"}

\* What is missed of a block, and told.
OfBlock(name) == Under(name, MissingTo[Height][source[name]][blocks[name]][Shapes[name]])

\* The cuts told are those of the blocks projected so far, and the others are
\* null as at first.
StatusInv ==
    /\ source \in [Block -> Trees[Height]]
    /\ blocks \in [Block -> Trees[Height]]
    /\ stage # "error" =>
          /\ cuts = UNION {OfBlock(name) : name \in Past}
          /\ \A name \in Past : KeepsTo[Height][source[name]][blocks[name]][Shapes[name]]

LEMMA StatusInitially == StatusInit => StatusInv
<1> SUFFICES ASSUME StatusInit PROVE StatusInv
  OBVIOUS
<1>1. Height \in 0 .. Height
  BY DocumentsAssumption
<1>2. Null \in Trees[Height]
  BY <1>1, Composed
<1>3. source \in [Block -> Trees[Height]] /\ blocks \in [Block -> Trees[Height]]
  BY <1>2, DocumentsAssumption DEF StatusInit
<1>4. Past = {} /\ cuts = {}
  BY DEF StatusInit, Past
<1> QED BY <1>3, <1>4 DEF StatusInv

\* A block more, its cuts added: those before are as they were.
LEMMA BlockStep ==
    ASSUME StatusInv, NEW name \in Block, NEW following, following # "error", NormalizeBlock(name, following),
           stage # "error", name \notin Past,
           stage' # "error" => Past' = Past \cup {name}
    PROVE  StatusInv'
<1> DEFINE result == IF source[name] = Null THEN Projected(Null, {})
                     ELSE NormalizeTo[Height][source[name]][Shapes[name]][0]
           all == cuts \cup Under(name, result.cuts)
           value == result.value
<1>1. source \in [Block -> Trees[Height]] /\ blocks \in [Block -> Trees[Height]] /\ source' = source
  BY DEF StatusInv, NormalizeBlock
<1>2. Height \in 0 .. Height
  BY DocumentsAssumption
<1>3. source[name] \in Trees[Height] /\ Shapes[name] \in Shape /\ Shapes[name].kind = "object"
  BY <1>1, ShapesAssumption
<1>4. \/ stage' = "error" /\ blocks' = blocks
      \/ /\ stage' # "error" /\ result.failed # "failed"
         /\ cuts' = all /\ blocks' = [blocks EXCEPT ![name] = value]
  BY DEF NormalizeBlock
<1>5. CASE stage' = "error" /\ blocks' = blocks
  BY <1>1, <1>5 DEF StatusInv
<1>6. CASE /\ stage' # "error" /\ result.failed # "failed"
           /\ cuts' = all /\ blocks' = [blocks EXCEPT ![name] = value]
  <2>1. /\ value \in Trees[Height]
        /\ result.cuts = MissingTo[Height][source[name]][value][Shapes[name]]
        /\ KeepsTo[Height][source[name]][value][Shapes[name]]
    <3>1. CASE source[name] # Null
      <4>1. result = NormalizeTo[Height][source[name]][Shapes[name]][0]
        BY <3>1
      <4>2. Sound(Height, source[name], Shapes[name], result)
        BY <1>3, <4>1, Projects
      <4> HIDE DEF result
      <4> QED BY <1>3, <1>6, <4>2 DEF Sound
    <3>2. CASE source[name] = Null
      <4>1. result.value = Null /\ result.cuts = {}
        BY <3>2 DEF Projected
      <4> HIDE DEF result
      <4>2. Null \in Trees[Height]
        BY <1>2, Composed
      <4>3. MissingTo[Height][Null][Null][Shapes[name]] = Misses(Null, Null, Shapes[name], MissingTo[Height - 1])
        BY <1>2, <1>3, <4>2, Missings
      <4>4. KeepsTo[Height][Null][Null][Shapes[name]] = Keeps(Null, Null, Shapes[name], KeepsTo[Height - 1])
        BY <1>2, <1>3, <4>2, Keepings
      <4>5. Null.type = "null"
        BY DEF Null
      <4>6. Misses(Null, Null, Shapes[name], MissingTo[Height - 1]) = {}
        BY <4>5 DEF Misses
      <4>7. Keeps(Null, Null, Shapes[name], KeepsTo[Height - 1])
        BY <4>5 DEF Keeps
      <4> QED BY <3>2, <4>1, <4>2, <4>3, <4>4, <4>6, <4>7
    <3> QED BY <3>1, <3>2
  <2> HIDE DEF value, result
  <2>2. /\ blocks' \in [Block -> Trees[Height]] /\ blocks'[name] = value
        /\ \A other \in Block \ {name} : blocks'[other] = blocks[other]
    BY <1>1, <1>6, <2>1
  <2>3. \A other \in Past : OfBlock(other)' = OfBlock(other)
    BY <1>1, <2>2 DEF OfBlock, Past
  <2>4. OfBlock(name)' = Under(name, result.cuts)
    BY <1>1, <2>1, <2>2 DEF OfBlock
  <2>5. cuts = UNION {OfBlock(other) : other \in Past}
    BY DEF StatusInv
  <2>6. Past' = Past \cup {name}
    BY <1>6
  <2>7. cuts' = UNION {OfBlock(other)' : other \in Past'}
    <3> DEFINE new(other) == OfBlock(other)'
               old(other) == OfBlock(other)
    <3>1. \A other \in Past : new(other) = old(other)
      BY <2>3
    <3>2. cuts' = cuts \cup new(name)
      BY <1>6, <2>4
    <3>3. cuts = UNION {old(other) : other \in Past}
      BY <2>5
    <3> HIDE DEF new, old
    <3>4. cuts' = UNION {new(other) : other \in Past \cup {name}}
      BY <3>1, <3>2, <3>3
    <3> QED BY <2>6, <3>4 DEF new
  <2>8. ASSUME NEW other \in Past'
        PROVE  KeepsTo[Height][source'[other]][blocks'[other]][Shapes[other]]
    <3>1. CASE other = name
      BY <1>1, <2>1, <2>2, <3>1
    <3>2. CASE other # name
      <4>1. other \in Past /\ other \in Block
        BY <2>6, <3>2 DEF Past
      <4>2. KeepsTo[Height][source[other]][blocks[other]][Shapes[other]]
        BY <4>1 DEF StatusInv
      <4> QED BY <1>1, <2>2, <3>2, <4>1, <4>2
    <3> QED BY <3>1, <3>2
  <2> QED BY <1>1, <2>2, <2>7, <2>8 DEF StatusInv
<1> QED BY <1>4, <1>5, <1>6

LEMMA StatusStep == StatusInv /\ [StatusNext]_statusVars => StatusInv'
<1> SUFFICES ASSUME StatusInv, [StatusNext]_statusVars PROVE StatusInv'
  OBVIOUS
<1>1. ASSUME UNCHANGED <<source, blocks, cuts>>, Past' = Past \/ stage' = "error", stage # "error"
      PROVE  StatusInv'
  BY <1>1 DEF StatusInv, OfBlock
<1>2. CASE ReadInstance
  BY <1>1, <1>2 DEF ReadInstance, Past
<1>3. CASE ReadInstanceFails
  BY <1>1, <1>3 DEF ReadInstanceFails
<1>4. CASE NormalizeBlock("config", "monitor")
  <2>1. stage = "config" /\ stage' \in {"error", "monitor"}
    BY <1>4 DEF NormalizeBlock
  <2>2. "config" \in Block /\ "config" \notin Past /\ (stage' # "error" => Past' = Past \cup {"config"})
    BY <2>1 DEF Block, Past
  <2> QED BY <1>4, <2>1, <2>2, BlockStep
<1>5. CASE NormalizeBlock("monitor", "status")
  <2>1. stage = "monitor" /\ stage' \in {"error", "status"}
    BY <1>5 DEF NormalizeBlock
  <2>2. "monitor" \in Block /\ "monitor" \notin Past /\ (stage' # "error" => Past' = Past \cup {"monitor"})
    BY <2>1 DEF Block, Past
  <2> QED BY <1>5, <2>1, <2>2, BlockStep
<1>6. CASE NormalizeBlock("status", "encode")
  <2>1. stage = "status" /\ stage' \in {"error", "encode"}
    BY <1>6 DEF NormalizeBlock
  <2>2. "status" \in Block /\ "status" \notin Past /\ (stage' # "error" => Past' = Past \cup {"status"})
    BY <2>1 DEF Block, Past
  <2> QED BY <1>6, <2>1, <2>2, BlockStep
<1>7. CASE Encode
  <2>1. stage = "encode" /\ stage' \in {"error", "answered"} /\ UNCHANGED <<source, blocks, cuts>>
    BY <1>7 DEF Encode
  <2>2. Past' = Past \/ stage' = "error"
    BY <2>1 DEF Past
  <2> QED BY <1>1, <2>1, <2>2
<1>8. CASE UNCHANGED statusVars
  <2>1. UNCHANGED <<source, blocks, cuts, stage>> /\ Past' = Past
    BY <1>8 DEF statusVars, Past
  <2> QED BY <2>1 DEF StatusInv, OfBlock
<1> QED BY <1>2, <1>3, <1>4, <1>5, <1>6, <1>7, <1>8 DEF StatusNext

\* An instance answered is what the daemon published but for the cuts told:
\* however deep it nests and whatever its shapes, each cut made is told, at its
\* path and with what it had, no other is, and where a collection is sorted
\* what is left out comes after what is kept (GetInstanceStatus, normalize).
THEOREM ReductionsTold == StatusSpec => []ReductionsAreTold
<1>1. ASSUME StatusInv PROVE ReductionsAreTold
  <2>1. stage = "answered" => Past = Block
    BY DEF Past
  <2> QED BY <1>1, <2>1 DEF StatusInv, ReductionsAreTold, OfBlock
<1>2. StatusInv => ReductionsAreTold
  BY <1>1
<1>3. StatusSpec => []StatusInv
  BY StatusInitially, StatusStep, DocumentsAssumption, ShapesAssumption, PTL DEF StatusSpec
<1> QED BY <1>2, <1>3, PTL

-----------------------------------------------------------------------------
(* The calls together.                                                     *)

\* A call of one of the tools is, of each module, a behaviour of its own.
LEMMA CallsApart == CallSpec => Spec /\ StatusSpec /\ RereadSpec /\ WriteSpec
<1>1. CallInit => Init /\ StatusInit /\ RereadInit /\ WriteInit
  BY DEF CallInit
<1>2. ASSUME [CallNext]_callVars
      PROVE  /\ [Next]_vars /\ [StatusNext]_statusVars
             /\ [RereadNext]_rereadVars /\ [WriteNext]_writeVars
  <2>1. CASE CallNext
    BY <2>1, Zenon DEF CallNext
  <2>2. CASE UNCHANGED callVars
    BY <2>2, Zenon DEF callVars
  <2> QED BY <1>2, <2>1, <2>2
<1> QED BY <1>1, <1>2, PTL DEF CallSpec, Spec, StatusSpec, RereadSpec, WriteSpec

\* Whichever tool is called, its call tells what it left out, what it read again
\* and what it wrote as they were: what each module promises holds of the calls
\* of all (CallSpec is what TLC runs).
THEOREM CallsTellTheTruth ==
    CallSpec => [](/\ NewestLogsTold /\ WholeUnlessTold /\ ReductionsAreTold
                   /\ RunsToldAreOwn /\ ConfirmedByHumans /\ SecondReadsAreNewer
                   /\ DoneIsWritten /\ ReadBackIsOfTheWrite)
  BY CallsApart, NewestAndTold, ContentsAreTold, ReductionsTold, RunsAreOwn, HumansConfirm,
     ReadsAreNewer, WritesDone, ReadBacksAreOwn, PTL
=============================================================================
