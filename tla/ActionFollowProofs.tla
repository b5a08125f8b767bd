-------------------------- MODULE ActionFollowProofs --------------------------
(***************************************************************************)
(* ActionFollow for every set of calls and every way an action may end:    *)
(* types, the agreement of the answers with the actions, and the safety    *)
(* part of the promise.                                                    *)
(***************************************************************************)
EXTENDS ActionFollow, TLAPS

LEMMA InitType == Init => TypeOK
BY DEF Init, TypeOK, Unread, Outcomes

LEMMA OutcomeUpdate ==
    ASSUME NEW o \in Outcomes,
           NEW seen \in {"unread", "running"} \cup Endings,
           NEW why \in {"none"} \cup NoNews,
           NEW after \in {"none", "read", "failed"}
    PROVE  /\ [o EXCEPT !.readError = why] \in Outcomes
           /\ [o EXCEPT !.after = after] \in Outcomes
           /\ [o EXCEPT !.seen = seen, !.readError = why] \in Outcomes
BY DEF Outcomes

LEMMA CallStepType ==
    ASSUME TypeOK, NEW c \in Calls, CallStep(c)
    PROVE  TypeOK'
<1> USE DEF TypeOK, Goto, Terminal, NoNews
<1>1. CASE CheckPasses(c) \/ CheckRefuses(c)
  BY <1>1 DEF CheckPasses, CheckRefuses
<1>2. CASE PostAccepted(c) \/ PostRefused(c) \/ PostFails(c)
  BY <1>2 DEF PostAccepted, PostRefused, PostFails
<1>3. CASE Poll(c)
  BY <1>3 DEF Poll
<1>4. CASE WaitEnds(c)
  BY <1>4 DEF WaitEnds, AfterWait
<1>5. CASE ReadFails(c)
  <2>1. \/ UNCHANGED outcome
        \/ \E why \in NoNews : outcome' = [outcome EXCEPT ![c].readError = why]
    BY <1>5 DEF ReadFails
  <2>2. outcome' \in [Calls -> Outcomes]
    <3>1. CASE UNCHANGED outcome
      BY <3>1
    <3>2. ASSUME NEW why \in NoNews, outcome' = [outcome EXCEPT ![c].readError = why]
          PROVE  outcome' \in [Calls -> Outcomes]
      <4>1. [outcome[c] EXCEPT !.readError = why] \in Outcomes
        BY OutcomeUpdate
      <4>2. QED
        BY <3>2, <4>1
    <3>3. QED
      BY <2>1, <3>1, <3>2
  <2>3. pc' \in [Calls -> {"start", "posting", "waiting", "reading", "closing"}
                         \cup Terminal]
    BY <1>5 DEF ReadFails, AfterWait
  <2>4. QED
    BY <1>5, <2>2, <2>3 DEF ReadFails
<1>6. CASE ReadInvalid(c)
  BY <1>6, OutcomeUpdate DEF ReadInvalid, AfterWait
<1>7. CASE ReadRunning(c)
  <2>1. outcome' \in [Calls -> Outcomes]
    BY <1>7, OutcomeUpdate DEF ReadRunning
  <2>2. QED
    BY <1>7, <2>1 DEF ReadRunning
<1>8. CASE ReadEnded(c)
  <2>1. outcome' \in [Calls -> Outcomes]
    BY <1>8, OutcomeUpdate DEF ReadEnded
  <2>2. QED
    BY <1>8, <2>1 DEF ReadEnded, AfterWait
<1>9. CASE Close(c)
  <2>1. PICK read \in {"read", "failed"} :
           outcome' = [outcome EXCEPT ![c].after = read]
    BY <1>9 DEF Close
  <2>2. [outcome[c] EXCEPT !.after = read] \in Outcomes
    BY OutcomeUpdate
  <2>3. outcome' \in [Calls -> Outcomes]
    BY <2>1, <2>2
  <2>4. QED
    BY <1>9, <2>3 DEF Close
<1>10. QED
  BY <1>1, <1>2, <1>3, <1>4, <1>5, <1>6, <1>7, <1>8, <1>9 DEF CallStep

LEMMA DaemonStepType ==
    ASSUME TypeOK, AnswerMatchesAction, NEW c \in Calls, DaemonStep(c)
    PROVE  TypeOK'
<1> USE DEF TypeOK, NoNews, Forked
<1>1. CASE DaemonRuns(c)
  BY <1>1 DEF DaemonRuns
<1>2. CASE DaemonRefuses(c)
  BY <1>2 DEF DaemonRefuses
<1>3. CASE DaemonLearns(c)
  BY <1>3 DEF DaemonLearns
<1>4. CASE ActionEnds(c)
  BY <1>4 DEF ActionEnds
<1>5. CASE DaemonDrops(c)
  BY <1>5 DEF DaemonDrops
<1>6. CASE DaemonAnswers(c)
  <2>1. Forked(c)
    BY <1>6 DEF DaemonAnswers, AnswerMatchesAction
  <2>2. QED
    BY <1>6, <2>1 DEF DaemonAnswers
<1>7. QED
  BY <1>1, <1>2, <1>3, <1>4, <1>5, <1>6 DEF DaemonStep

-----------------------------------------------------------------------------
(* The agreement of the answers with the actions is inductive: an action    *)
(* that ended never changes, so an answer in flight that says it ended is   *)
(* never stale, however late it is used.                                    *)

\* The endings are none of the other values of exec, reply and seen.
LEMMA EndingsApart ==
    /\ "none" \notin Endings /\ "refused" \notin Endings
    /\ "running" \notin Endings /\ "unread" \notin Endings
    /\ Endings \cap NoNews = {}
BY EndingsAssumption

LEMMA InitMatches == Init => AnswerMatchesAction
<1> SUFFICES ASSUME Init, NEW c \in Calls
             PROVE  /\ pc[c] = "start" /\ exec[c] = "none" /\ reply[c] = "none"
                    /\ outcome[c].seen = "unread"
  BY EndingsApart DEF AnswerMatchesAction, Completed
<1>1. QED
  BY DEF Init, Unread

LEMMA CallStepMatches ==
    ASSUME TypeOK, AnswerMatchesAction, NEW c \in Calls, CallStep(c)
    PROVE  AnswerMatchesAction'
<1> USE EndingsApart
    DEF TypeOK, AnswerMatchesAction, Goto, Terminal, Completed, Forked, AfterWait
<1>1. CASE CheckPasses(c) \/ CheckRefuses(c)
  BY <1>1 DEF CheckPasses, CheckRefuses
<1>2. CASE PostAccepted(c) \/ PostRefused(c) \/ PostFails(c)
  BY <1>2 DEF PostAccepted, PostRefused, PostFails
<1>3. CASE Poll(c)
  BY <1>3 DEF Poll
<1>4. CASE WaitEnds(c)
  BY <1>4 DEF WaitEnds
<1>5. CASE ReadFails(c)
  <2>1. /\ pc[c] = "reading" /\ UNCHANGED <<exec, reply>>
        /\ \E place \in {"lost", "waiting", "closing", "done"} : Goto(c, place)
        /\ outcome'[c].seen = outcome[c].seen
        /\ \A d \in Calls \ {c} : outcome'[d] = outcome[d]
    <3>1. outcome[c] \in Outcomes
      OBVIOUS
    <3>2. QED
      BY <1>5, <3>1 DEF ReadFails, Outcomes
  <2>2. QED
    BY <2>1
<1>6. CASE ReadInvalid(c)
  BY <1>6 DEF ReadInvalid
<1>7. CASE ReadRunning(c)
  BY <1>7 DEF ReadRunning
<1>8. CASE ReadEnded(c)
  BY <1>8 DEF ReadEnded
<1>9. CASE Close(c)
  BY <1>9 DEF Close
<1>10. QED
  BY <1>1, <1>2, <1>3, <1>4, <1>5, <1>6, <1>7, <1>8, <1>9 DEF CallStep

LEMMA DaemonStepMatches ==
    ASSUME TypeOK, AnswerMatchesAction, NEW c \in Calls, DaemonStep(c)
    PROVE  AnswerMatchesAction'
<1> USE EndingsApart
    DEF TypeOK, AnswerMatchesAction, Terminal, Completed, Forked
<1>1. CASE DaemonRuns(c)
  BY <1>1 DEF DaemonRuns
<1>2. CASE DaemonRefuses(c)
  BY <1>2 DEF DaemonRefuses
<1>3. CASE DaemonLearns(c)
  BY <1>3 DEF DaemonLearns
<1>4. CASE ActionEnds(c)
  BY <1>4 DEF ActionEnds
<1>5. CASE DaemonDrops(c)
  BY <1>5 DEF DaemonDrops
<1>6. CASE DaemonAnswers(c)
  BY <1>6 DEF DaemonAnswers, NoNews
<1>7. QED
  BY <1>1, <1>2, <1>3, <1>4, <1>5, <1>6 DEF DaemonStep

LEMMA StepKeeps ==
    ASSUME TypeOK, AnswerMatchesAction, [Next]_vars
    PROVE  TypeOK' /\ AnswerMatchesAction'
<1>1. CASE UNCHANGED vars
  BY <1>1 DEF vars, TypeOK, AnswerMatchesAction, Completed, Forked
<1>2. ASSUME NEW c \in Calls, CallStep(c)
      PROVE  TypeOK' /\ AnswerMatchesAction'
  BY <1>2, CallStepType, CallStepMatches
<1>3. ASSUME NEW c \in Calls, DaemonStep(c)
      PROVE  TypeOK' /\ AnswerMatchesAction'
  BY <1>3, DaemonStepType, DaemonStepMatches
<1>4. ASSUME NEW c \in Calls, RequestEnds(c) \/ WaitExpires(c)
      PROVE  TypeOK' /\ AnswerMatchesAction'
  BY <1>4 DEF RequestEnds, WaitExpires, TypeOK, AnswerMatchesAction,
              Completed, Forked
<1>5. QED
  BY <1>1, <1>2, <1>3, <1>4 DEF Next

\* The type of every variable, and the answers that agree with what the node
\* did, whatever the calls and the ways an action may end.
THEOREM AnswersAreTrue == Spec => [](TypeOK /\ AnswerMatchesAction)
<1>1. Init => TypeOK /\ AnswerMatchesAction
  BY InitType, InitMatches
<1>2. (TypeOK /\ AnswerMatchesAction) /\ [Next]_vars
      => (TypeOK /\ AnswerMatchesAction)'
  BY StepKeeps
<1>3. QED
  BY <1>1, <1>2, PTL DEF Spec, SafeSpec

-----------------------------------------------------------------------------
(* Why a call ended as it did, and what a completed answer holds, followed  *)
(* through the read that comes after the wait.                              *)

CauseInv ==
    \A c \in Calls :
        /\ pc[c] = "lost" => request[c] = "over"
        /\ pc[c] \in {"closing", "done"} /\ ~Completed(c) =>
              \/ waitOver[c]
              \/ /\ outcome[c].readError # "none"
                 /\ c \in Orchestrations => outcome[c].readError # "gone"

WholeInv ==
    \A c \in Calls :
        /\ pc[c] # "done" => outcome[c].after = "none"
        /\ pc[c] \in {"closing", "done"} /\ Completed(c) =>
              outcome[c].readError = "none"
        /\ pc[c] = "closing" =>
              \/ c \in Rereads
              \/ c \in Executions /\ Completed(c) /\ outcome[c].seen \notin Successes
        /\ pc[c] = "done" /\ Completed(c) /\ c \in Executions =>
              (outcome[c].after = "none" <=> outcome[c].seen \in Successes)
        /\ pc[c] = "done" /\ c \in Rereads => outcome[c].after # "none"

EndInv == CauseInv /\ WholeInv

\* The tools are told apart by their kind.
LEMMA KindsApart ==
    ASSUME NEW c \in Calls
    PROVE  /\ c \in Executions => c \notin Rereads /\ c \notin Orchestrations
           /\ c \in Rereads => c \in Orchestrations
BY DEF Executions, Rereads, Orchestrations

\* A step of one call that keeps the kinds, and leaves the other calls alone,
\* keeps the invariant if it keeps it of that call.
LEMMA EndInvOfOne ==
    ASSUME EndInv, NEW c \in Calls, UNCHANGED kind,
           \A d \in Calls \ {c} : /\ pc'[d] = pc[d] /\ outcome'[d] = outcome[d]
                                 /\ request'[d] = request[d]
                                 /\ waitOver'[d] = waitOver[d],
           pc'[c] = "lost" => request'[c] = "over",
           pc'[c] \in {"closing", "done"} /\ ~Completed(c)' =>
              \/ waitOver'[c]
              \/ /\ outcome'[c].readError # "none"
                 /\ c \in Orchestrations => outcome'[c].readError # "gone",
           pc'[c] # "done" => outcome'[c].after = "none",
           pc'[c] \in {"closing", "done"} /\ Completed(c)' =>
              outcome'[c].readError = "none",
           pc'[c] = "closing" =>
              \/ c \in Rereads
              \/ c \in Executions /\ Completed(c)' /\ outcome'[c].seen \notin Successes,
           pc'[c] = "done" /\ Completed(c)' /\ c \in Executions =>
              (outcome'[c].after = "none" <=> outcome'[c].seen \in Successes),
           pc'[c] = "done" /\ c \in Rereads => outcome'[c].after # "none"
    PROVE  EndInv'
<1>1. /\ Executions' = Executions /\ Rereads' = Rereads
      /\ Orchestrations' = Orchestrations
  BY DEF Executions, Rereads, Orchestrations
<1>2. CauseInv'
  BY <1>1 DEF EndInv, CauseInv, Completed
<1>3. WholeInv'
  BY <1>1 DEF EndInv, WholeInv, Completed
<1>4. QED
  BY <1>2, <1>3 DEF EndInv

LEMMA CallStepEnds ==
    ASSUME TypeOK, AnswerMatchesAction, EndInv, NEW c \in Calls, CallStep(c)
    PROVE  EndInv'
<1> USE DEF Goto
<1>1. outcome[c] \in Outcomes
  BY DEF TypeOK
<1>2. CASE \/ CheckPasses(c) \/ CheckRefuses(c) \/ PostAccepted(c)
           \/ PostRefused(c) \/ PostFails(c) \/ Poll(c)
  <2>1. /\ pc' = [pc EXCEPT ![c] = pc'[c]] /\ pc[c] # "done"
        /\ pc'[c] \in {"posting", "refused", "waiting", "failed", "reading"}
        /\ UNCHANGED <<kind, request, waitOver, outcome>>
    BY <1>2 DEF CheckPasses, CheckRefuses, PostAccepted, PostRefused,
                PostFails, Poll, TypeOK
  <2>2. outcome[c].after = "none"
    BY <2>1 DEF EndInv, WholeInv
  <2>3. QED
    BY <2>1, <2>2, EndInvOfOne DEF TypeOK
<1>3. CASE WaitEnds(c)
  <2>1. outcome[c].after = "none" /\ ~Completed(c)
    BY <1>3 DEF WaitEnds, EndInv, WholeInv, AnswerMatchesAction
  <2>2. QED
    BY <1>3, <2>1, KindsApart, EndInvOfOne DEF WaitEnds, AfterWait, TypeOK, Completed
<1>4. CASE ReadFails(c)
  <2>1. outcome[c].after = "none" /\ ~Completed(c)
    BY <1>4 DEF ReadFails, EndInv, WholeInv, AnswerMatchesAction
  <2>2. outcome'[c].after = "none" /\ outcome'[c].seen = outcome[c].seen
    BY <1>1, <1>4, <2>1 DEF ReadFails, Outcomes, TypeOK
  <2>3. ~Completed(c)'
    BY <2>1, <2>2 DEF Completed
  <2>4. CASE request[c] = "over" \/ waitOver[c]
    BY <1>4, <2>1, <2>2, <2>3, <2>4, KindsApart, EndInvOfOne
       DEF ReadFails, AfterWait, TypeOK
  <2>5. CASE request[c] = "live" /\ ~waitOver[c]
    <3> DEFINE why == IF reply[c] = "none" THEN "broken" ELSE reply[c]
    <3>1. /\ outcome'[c].readError = why /\ why # "none"
          /\ pc'[c] = IF why = "gone" /\ c \in Orchestrations
                      THEN "waiting" ELSE AfterWait(c)
      BY <1>1, <1>4, <2>5 DEF ReadFails, Outcomes, TypeOK
    <3>2. QED
      BY <1>4, <2>2, <2>3, <3>1, KindsApart, EndInvOfOne
         DEF ReadFails, AfterWait, TypeOK
  <2>6. QED
    BY <2>4, <2>5 DEF TypeOK
<1>5. CASE ReadInvalid(c)
  <2>1. outcome[c].after = "none" /\ ~Completed(c)
    BY <1>5 DEF ReadInvalid, EndInv, WholeInv, AnswerMatchesAction
  <2>2. /\ outcome'[c].after = "none" /\ outcome'[c].seen = outcome[c].seen
        /\ outcome'[c].readError = "invalid"
    BY <1>1, <1>5, <2>1 DEF ReadInvalid, Outcomes, TypeOK
  <2>3. ~Completed(c)'
    BY <2>1, <2>2 DEF Completed
  <2>4. QED
    BY <1>5, <2>2, <2>3, KindsApart, EndInvOfOne DEF ReadInvalid, AfterWait, TypeOK
<1>6. CASE ReadRunning(c)
  <2>1. outcome[c].after = "none"
    BY <1>6 DEF ReadRunning, EndInv, WholeInv
  <2>2. outcome'[c].after = "none"
    BY <1>1, <1>6, <2>1 DEF ReadRunning, Outcomes, TypeOK
  <2>3. QED
    BY <1>6, <2>2, EndInvOfOne DEF ReadRunning, TypeOK
<1>7. CASE ReadEnded(c)
  <2>1. outcome[c].after = "none"
    BY <1>7 DEF ReadEnded, EndInv, WholeInv
  <2>2. /\ outcome'[c].after = "none" /\ outcome'[c].readError = "none"
        /\ outcome'[c].seen = reply[c]
    BY <1>1, <1>7, <2>1 DEF ReadEnded, Outcomes, TypeOK
  <2>3. Completed(c)'
    BY <1>7, <2>2 DEF ReadEnded, Completed
  <2>4. QED
    BY <1>7, <2>2, <2>3, KindsApart, EndInvOfOne DEF ReadEnded, AfterWait, TypeOK
<1>8. CASE Close(c)
  <2>1. /\ outcome'[c].after # "none" /\ outcome'[c].seen = outcome[c].seen
        /\ outcome'[c].readError = outcome[c].readError
    BY <1>1, <1>8 DEF Close, Outcomes, TypeOK
  <2>2. /\ Completed(c)' = Completed(c)
        /\ pc[c] = "closing" /\ pc'[c] = "done" /\ waitOver'[c] = waitOver[c]
    BY <1>8, <2>1 DEF Close, Completed, TypeOK
  <2>3. /\ ~Completed(c) =>
              \/ waitOver[c]
              \/ /\ outcome[c].readError # "none"
                 /\ c \in Orchestrations => outcome[c].readError # "gone"
        /\ Completed(c) => outcome[c].readError = "none"
        /\ c \in Executions => outcome[c].seen \notin Successes
    BY <2>2, KindsApart DEF EndInv, CauseInv, WholeInv
  <2>4. QED
    BY <1>8, <2>1, <2>2, <2>3, EndInvOfOne DEF Close, TypeOK
<1>9. QED
  BY <1>2, <1>3, <1>4, <1>5, <1>6, <1>7, <1>8 DEF CallStep

LEMMA EnvironmentEnds ==
    ASSUME TypeOK, AnswerMatchesAction, EndInv, NEW c \in Calls,
           DaemonStep(c) \/ RequestEnds(c) \/ WaitExpires(c)
    PROVE  EndInv'
<1>1. /\ UNCHANGED <<kind, pc, outcome>>
      /\ \A d \in Calls : request[d] = "over" => request'[d] = "over"
      /\ \A d \in Calls : waitOver[d] => waitOver'[d]
  BY DEF DaemonStep, DaemonRuns, DaemonRefuses, DaemonLearns, ActionEnds,
         DaemonDrops, DaemonAnswers, RequestEnds, WaitExpires, TypeOK
<1>2. QED
  BY <1>1 DEF EndInv, CauseInv, WholeInv, Completed, Executions, Rereads,
              Orchestrations

LEMMA EndInvKept == Spec => []EndInv
<1>1. Init => EndInv
  BY EndingsApart DEF Init, EndInv, CauseInv, WholeInv, Completed, Unread
<1>2. TypeOK /\ AnswerMatchesAction /\ EndInv /\ [Next]_vars => EndInv'
  <2> SUFFICES ASSUME TypeOK, AnswerMatchesAction, EndInv, [Next]_vars
               PROVE  EndInv'
    OBVIOUS
  <2>1. CASE UNCHANGED vars
    BY <2>1 DEF vars, EndInv, CauseInv, WholeInv, Completed, Executions,
                Rereads, Orchestrations
  <2>2. ASSUME NEW c \in Calls, CallStep(c)
        PROVE  EndInv'
    BY <2>2, CallStepEnds
  <2>3. ASSUME NEW c \in Calls, DaemonStep(c) \/ RequestEnds(c) \/ WaitExpires(c)
        PROVE  EndInv'
    BY <2>3, EnvironmentEnds
  <2>4. QED
    BY <2>1, <2>2, <2>3 DEF Next
<1>3. QED
  BY <1>1, <1>2, AnswersAreTrue, PTL DEF Spec, SafeSpec

\* An accepted action comes back as an error only when the context of the
\* caller ended, as unfinished only when the wait expired or a read failed.
THEOREM CausesAreReal == Spec => []AnswerHasItsCause
<1>1. EndInv => AnswerHasItsCause
  BY DEF EndInv, CauseInv, AnswerHasItsCause
<1>2. QED
  BY <1>1, EndInvKept, PTL

\* A completed answer has no read error and the journal of its failure.
THEOREM CompletedAreWhole == Spec => []CompletedAnswerIsWhole
<1>1. EndInv => CompletedAnswerIsWhole
  BY DEF EndInv, WholeInv, CompletedAnswerIsWhole
<1>2. QED
  BY <1>1, EndInvKept, PTL

-----------------------------------------------------------------------------
(* The safety part of the promise: every step is one of FollowedAction, or  *)
(* changes nothing it speaks of.                                           *)

\* A step that answers c, with an answer its action allows, is a Tell.
LEMMA TellStep ==
    ASSUME NEW c \in Calls, UNCHANGED exec,
           \A d \in Calls \ {c} : pc'[d] = pc[d] /\ outcome'[d] = outcome[d],
           pc[c] \notin Terminal,
           AnswerOf(c)' \in Followed!Tellable(c) \cup {"nothing"}
    PROVE  Followed!Tell(c) \/ UNCHANGED <<Ran, Told>>
<1>1. UNCHANGED Ran
  BY DEF Ran, Forked
<1>2. Told[c] = "nothing"
  BY DEF Told, AnswerOf, Terminal
<1>3. Told' = [Told EXCEPT ![c] = AnswerOf(c)']
  BY DEF Told, AnswerOf, Completed
<1>4. CASE AnswerOf(c)' = "nothing"
  <2>1. Told = [d \in Calls |-> Told[d]]
    BY DEF Told
  <2>2. QED
    BY <1>1, <1>2, <1>3, <1>4, <2>1
<1>5. CASE AnswerOf(c)' \in Followed!Tellable(c)
  BY <1>1, <1>2, <1>3, <1>5 DEF Followed!Tell
<1>6. QED
  BY <1>4, <1>5

LEMMA TellableHere ==
    ASSUME TypeOK, NEW c \in Calls
    PROVE  /\ "unknown" \in Followed!Tellable(c)
           /\ ~Forked(c) => "refused" \in Followed!Tellable(c)
           /\ Forked(c) => "accepted" \in Followed!Tellable(c)
           /\ exec[c] \in Endings => exec[c] \in Followed!Tellable(c)
<1>1. Ran[c] = IF Forked(c) THEN exec[c] ELSE "no"
  BY DEF Ran
<1>2. "no" \notin Endings /\ "running" \notin Endings
  BY EndingsAssumption
<1>3. QED
  BY <1>1, <1>2 DEF Followed!Tellable, Forked

LEMMA CallStepRefines ==
    ASSUME TypeOK, AnswerMatchesAction, AnswerMatchesAction',
           NEW c \in Calls, CallStep(c)
    PROVE  Followed!Tell(c) \/ UNCHANGED <<Ran, Told>>
<1>1. /\ UNCHANGED exec /\ pc[c] \notin Terminal /\ pc'[c] # pc[c]
      /\ \A d \in Calls \ {c} : pc'[d] = pc[d] /\ outcome'[d] = outcome[d]
      /\ pc'[c] \in {"posting", "waiting", "reading", "closing"} \cup Terminal
  BY DEF CallStep, CheckPasses, CheckRefuses, PostAccepted, PostRefused,
         PostFails, Poll, WaitEnds, ReadFails, ReadInvalid, ReadRunning,
         ReadEnded, Close, Goto, AfterWait, Terminal, TypeOK
<1>2. AnswerOf(c)' \in Followed!Tellable(c) \cup {"nothing"}
  <2>1. CASE pc'[c] = "refused"
    <3>1. ~Forked(c)
      BY <1>1, <2>1, EndingsApart DEF AnswerMatchesAction, Forked
    <3>2. QED
      BY <2>1, <3>1, TellableHere DEF AnswerOf
  <2>2. CASE pc'[c] \in {"failed", "lost"}
    BY <2>2, TellableHere DEF AnswerOf
  <2>3. CASE pc'[c] = "done"
    <3>1. Forked(c)
      BY <1>1, <2>3 DEF AnswerMatchesAction, Forked
    <3>2. Completed(c)' => outcome'[c].seen = exec[c] /\ exec[c] \in Endings
      BY <1>1 DEF AnswerMatchesAction, Completed
    <3>3. QED
      BY <2>3, <3>1, <3>2, TellableHere DEF AnswerOf
  <2>4. CASE pc'[c] \in {"posting", "waiting", "reading", "closing"}
    BY <2>4 DEF AnswerOf
  <2>5. QED
    BY <1>1, <2>1, <2>2, <2>3, <2>4 DEF Terminal
<1>3. QED
  BY <1>1, <1>2, TellStep

LEMMA DaemonStepRefines ==
    ASSUME TypeOK, AnswerMatchesAction, NEW c \in Calls, DaemonStep(c)
    PROVE  Followed!Run(c) \/ Followed!Finish(c) \/ UNCHANGED <<Ran, Told>>
<1>1. UNCHANGED Told
  BY DEF DaemonStep, DaemonRuns, DaemonRefuses, DaemonLearns, ActionEnds,
         DaemonDrops, DaemonAnswers, Told, AnswerOf, Completed
<1>2. CASE DaemonRuns(c)
  <2>1. Ran[c] = "no"
    BY <1>2, EndingsApart DEF DaemonRuns, Ran, Forked
  <2>2. Told[c] \in {"nothing", "unknown"}
    BY <1>2 DEF DaemonRuns, Told, AnswerOf
  <2>3. Ran' = [Ran EXCEPT ![c] = "running"]
    BY <1>2 DEF DaemonRuns, Ran, Forked, TypeOK
  <2>4. QED
    BY <1>1, <2>1, <2>2, <2>3 DEF Followed!Run
<1>3. CASE ActionEnds(c)
  <2>1. PICK end \in Endings : exec' = [exec EXCEPT ![c] = end]
    BY <1>3 DEF ActionEnds
  <2>2. Ran[c] = "running"
    BY <1>3 DEF ActionEnds, Ran, Forked
  <2>3. Ran' = [Ran EXCEPT ![c] = end]
    BY <2>1 DEF Ran, Forked, TypeOK
  <2>4. QED
    BY <1>1, <2>2, <2>3 DEF Followed!Finish
<1>4. CASE DaemonRefuses(c)
  BY <1>1, <1>4, EndingsApart DEF DaemonRefuses, Ran, Forked, TypeOK
<1>5. CASE DaemonLearns(c) \/ DaemonDrops(c) \/ DaemonAnswers(c)
  BY <1>1, <1>5 DEF DaemonLearns, DaemonDrops, DaemonAnswers, Ran, Forked
<1>6. QED
  BY <1>2, <1>3, <1>4, <1>5 DEF DaemonStep

\* Nothing runs for a call that was refused, an ending reported is the ending
\* of the action, and a call is answered once: the calls implement the safety
\* part of FollowedAction.
THEOREM KeepsThePromise == Spec => Followed!SafeSpec
<1>1. Init => Followed!Init
  BY EndingsApart DEF Init, Followed!Init, Ran, Told, AnswerOf, Forked
<1>2. (TypeOK /\ AnswerMatchesAction) /\ (TypeOK /\ AnswerMatchesAction)'
      /\ [Next]_vars => [Followed!Next]_(Followed!vars)
  <2> SUFFICES ASSUME TypeOK, AnswerMatchesAction, AnswerMatchesAction', [Next]_vars
               PROVE  Followed!Next \/ UNCHANGED <<Ran, Told>>
    BY DEF Followed!vars
  <2>1. CASE UNCHANGED vars
    BY <2>1 DEF vars, Ran, Told, AnswerOf, Forked, Completed
  <2>2. ASSUME NEW c \in Calls, CallStep(c)
        PROVE  Followed!Next \/ UNCHANGED <<Ran, Told>>
    BY <2>2, CallStepRefines DEF Followed!Next
  <2>3. ASSUME NEW c \in Calls, DaemonStep(c)
        PROVE  Followed!Next \/ UNCHANGED <<Ran, Told>>
    BY <2>3, DaemonStepRefines DEF Followed!Next
  <2>4. ASSUME NEW c \in Calls, RequestEnds(c) \/ WaitExpires(c)
        PROVE  UNCHANGED <<Ran, Told>>
    BY <2>4 DEF RequestEnds, WaitExpires, Ran, Told, AnswerOf, Forked, Completed
  <2>5. QED
    BY <2>1, <2>2, <2>3, <2>4 DEF Next
<1>3. QED
  BY <1>1, <1>2, AnswersAreTrue, PTL DEF Spec, SafeSpec, Followed!SafeSpec
=============================================================================
