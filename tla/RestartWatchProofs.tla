------------------------- MODULE RestartWatchProofs -------------------------
(***************************************************************************)
(* A restart told completed is the one asked, for any number of calls and  *)
(* events.  The argument (OnlyOwnNews): as long as nothing casts doubt on  *)
(* a call, a component it acts on, on the node or in the view of it, is    *)
(* the one it read before its action, or the action ran and it is newer.   *)
(***************************************************************************)
EXTENDS RestartWatch, TLAPS

\* The component that was read before, as far as the tool compares it.
Unmoved(c, k, component) ==
    /\ component.created = before[c][k].created
    /\ k = "listener" => component.updated = before[c][k].updated

Newer(c, k, component) ==
    /\ action[c] = "ran"
    /\ StartOf(k, component) > StartOf(k, before[c][k])

\* The node was read, and may be read again.
Following(c) == pc[c] \in {"posting", "waiting", "reading"}

OnlyOwnNews ==
    \A c \in Calls : Following(c) /\ kind[c] # "start" /\ ~doubt[c] =>
        \A k \in Addressed(c) :
            /\ Unmoved(c, k, status[k]) \/ Newer(c, k, status[k])
            /\ Unmoved(c, k, view[k]) \/ Newer(c, k, view[k])

\* No time is later than the last event, and the listener in the view is the
\* present one, or an earlier one.
TimesPast ==
    /\ \A k \in Components :
          /\ status[k].created <= clock /\ status[k].updated <= clock
          /\ view[k].created <= clock /\ view[k].updated <= clock
    /\ \A c \in Calls, k \in Components :
          before[c][k].created <= clock /\ before[c][k].updated <= clock
    /\ view["listener"].updated = status["listener"].updated =>
          view["listener"].created = status["listener"].created

CompletedIsNews ==
    \A c \in Calls : poll[c].completed /\ kind[c] # "start" /\ ~doubt[c] =>
        \A k \in Addressed(c) : Newer(c, k, poll[c].last[k])

\* Once completed the call is over.
CompletedAtTheEnd ==
    \A c \in Calls : poll[c].completed => pc[c] = "done"

WatchInv == TypeOK /\ TimesPast /\ OnlyOwnNews /\ CompletedIsNews /\ CompletedAtTheEnd

-----------------------------------------------------------------------------
LEMMA StepCases ==
    ASSUME NEW P, [Next]_vars,
           ASSUME NEW c \in Calls, Runs(c) PROVE P,
           ASSUME OtherRestarts PROVE P,
           ASSUME PeerChanges PROVE P,
           ASSUME ViewArrives PROVE P,
           ASSUME NEW c \in Calls, ReadBefore(c) PROVE P,
           ASSUME NEW c \in Calls, ReadAnswers(c) PROVE P,
           ASSUME NEW c \in Calls, Refuse(c) \/ Posted(c) \/ PostFails(c) \/ Poll(c)
                                   \/ WaitEnds(c) \/ ReadFails(c) PROVE P,
           ASSUME NEW c \in Calls, Queues(c) \/ RequestEnds(c) \/ WaitExpires(c) PROVE P,
           ASSUME UNCHANGED vars PROVE P
    PROVE  P
  BY DEF Next, CallStep

\* The components a restart registers again, and the others.
LEMMA Renewal ==
    ASSUME TypeOK, clock < MaxEvents, clock' = clock + 1, NEW ks \in SUBSET Components,
           NEW ends \in [Components -> {"running", "failed"}],
           status' = Restamped(ks, ends)
    PROVE  /\ status' \in [Components -> States]
           /\ clock' \in 1 .. MaxEvents
           /\ \A k \in Components \ ks : status'[k] = status[k]
           /\ \A k \in ks : /\ status'[k].updated = clock'
                            /\ status'[k].created = IF ks = {"listener"} THEN status[k].created
                                                    ELSE clock'
<1>1. clock' \in Times /\ clock' \in 1 .. MaxEvents
  BY MaxEventsAssumption DEF TypeOK, Times
<1>2. \A k \in Components : status[k] \in States /\ ends[k] \in {"running", "failed"}
  BY DEF TypeOK
<1> DEFINE New(k) == [state   |-> ends[k],
                      created |-> IF ks = {"listener"} THEN status[k].created ELSE clock',
                      updated |-> clock']
<1>3. \A k \in Components : New(k) \in States
  BY <1>1, <1>2 DEF States
<1>4. status' = [k \in Components |-> IF k \notin ks THEN status[k] ELSE New(k)]
  BY DEF Restamped
<1>8. \A k \in Components :
         /\ New(k).updated = clock'
         /\ New(k).created = IF ks = {"listener"} THEN status[k].created ELSE clock'
  OBVIOUS
<1> HIDE DEF New
<1>5. status' \in [Components -> States]
  BY <1>2, <1>3, <1>4
<1>6. \A k \in ks : status'[k] = New(k)
  BY <1>4
<1>7. \A k \in Components \ ks : status'[k] = status[k]
  BY <1>4
<1> QED BY <1>1, <1>5, <1>6, <1>7, <1>8

LEMMA AddressedComponents ==
    \A c \in Calls : Addressed(c) \subseteq Components /\ Renews(c) \subseteq Components
  BY DEF Addressed, Renews, Components, Streams

LEMMA ReadType ==
    ASSUME TypeOK, NEW c \in Calls
    PROVE  /\ Read(c) \in [Components -> States]
           /\ \A k \in Addressed(c) : Read(c)[k] = view[k]
<1>1. Absent \in States
  BY MaxEventsAssumption DEF Absent, States, Times
<1> QED BY <1>1, AddressedComponents DEF Read, TypeOK

-----------------------------------------------------------------------------
LEMMA TypeStep ==
    ASSUME TypeOK, [Next]_vars
    PROVE  TypeOK'
<1> USE DEF TypeOK
<1>1. ASSUME NEW c \in Calls, Runs(c) PROVE TypeOK'
  <2>1. PICK ends \in [Components -> {"running", "failed"}] : status' = Restamped(Renews(c), ends)
    BY <1>1 DEF Runs
  <2>2. status' \in [Components -> States] /\ clock' \in 1 .. MaxEvents
    BY <1>1, <2>1, Renewal, AddressedComponents DEF Runs
  <2>3. action' \in [Calls -> {"none", "queued", "ran"}]
    BY <1>1 DEF Runs
  <2>4. doubt' \in [Calls -> BOOLEAN]
    BY <1>1 DEF Runs, Doubted
  <2> QED BY <1>1, <2>2, <2>3, <2>4 DEF Runs
<1>2. ASSUME OtherRestarts PROVE TypeOK'
  <2>1. PICK ks \in {Components} \cup {{k} : k \in Components \ {"daemon"}} :
            /\ status' = Restamped(ks, [k \in Components |-> "running"])
            /\ doubt' = Doubted(ks, Calls)
    BY <1>2 DEF OtherRestarts
  <2>4. [k \in Components |-> "running"] \in [Components -> {"running", "failed"}]
    OBVIOUS
  <2>5. ks \in SUBSET Components
    OBVIOUS
  <2>2. status' \in [Components -> States] /\ clock' \in 1 .. MaxEvents
    BY <1>2, <2>1, <2>4, <2>5, Renewal DEF OtherRestarts
  <2>3. doubt' \in [Calls -> BOOLEAN]
    BY <2>1 DEF Doubted
  <2> QED BY <1>2, <2>2, <2>3 DEF OtherRestarts
<1>3. ASSUME PeerChanges PROVE TypeOK'
  <2>1. clock' \in 1 .. MaxEvents /\ clock' \in Times
    BY <1>3, MaxEventsAssumption DEF PeerChanges, Times
  <2>2. PICK k \in Streams : status' = [status EXCEPT ![k].updated = clock']
    BY <1>3 DEF PeerChanges
  <2>5. k \in Components /\ status[k] \in States
    BY DEF Components
  <2>3. [status[k] EXCEPT !.updated = clock'] \in States
    BY <2>1, <2>5 DEF States
  <2>4. status' \in [Components -> States]
    BY <2>2, <2>3
  <2> QED BY <1>3, <2>1, <2>4 DEF PeerChanges
<1>4. ASSUME ViewArrives PROVE TypeOK'
  BY <1>4 DEF ViewArrives
<1>5. ASSUME NEW c \in Calls, ReadBefore(c) PROVE TypeOK'
  <2>1. before' \in [Calls -> [Components -> States]]
    BY <1>5, ReadType DEF ReadBefore
  <2>2. asked' \in [Calls -> 0 .. MaxEvents]
    BY <1>5 DEF ReadBefore
  <2>3. doubt' \in [Calls -> BOOLEAN] /\ pc' \in [Calls -> {"start", "posting", "waiting", "reading", "error", "done"}]
    BY <1>5 DEF ReadBefore, Goto
  <2> QED BY <1>5, <2>1, <2>2, <2>3 DEF ReadBefore
<1>6. ASSUME NEW c \in Calls, ReadAnswers(c) PROVE TypeOK'
  <2>1. Seen(c, Read(c)) \in BOOLEAN
    BY DEF Seen
  <2>2. [error |-> FALSE, completed |-> Seen(c, Read(c)), last |-> Read(c)]
            \in [error : BOOLEAN, completed : BOOLEAN, last : [Components -> States]]
    BY <2>1, ReadType
  <2>3. poll' \in [Calls -> [error : BOOLEAN, completed : BOOLEAN, last : [Components -> States]]]
    BY <1>6, <2>2 DEF ReadAnswers
  <2>4. pc' \in [Calls -> {"start", "posting", "waiting", "reading", "error", "done"}]
    BY <1>6 DEF ReadAnswers, Goto
  <2> QED BY <1>6, <2>3, <2>4 DEF ReadAnswers
<1>7. ASSUME NEW c \in Calls, Refuse(c) \/ Posted(c) \/ PostFails(c) \/ Poll(c)
                              \/ WaitEnds(c) \/ ReadFails(c)
      PROVE  TypeOK'
  <2>1. pc' \in [Calls -> {"start", "posting", "waiting", "reading", "error", "done"}]
    <3>1. Answer(c, FALSE) \in {"error", "done"}
      BY DEF Answer
    <3>2. CASE Refuse(c) \/ Posted(c) \/ Poll(c)
      <4>1. PICK place \in {"error", "waiting", "reading"} : pc' = [pc EXCEPT ![c] = place]
        BY <3>2 DEF Refuse, Posted, Poll, Goto
      <4> QED BY <4>1
    <3>5. CASE PostFails(c)
      <4>1. PICK place \in {"waiting", "error"} : pc' = [pc EXCEPT ![c] = place]
        BY <3>5 DEF PostFails, Goto
      <4> QED BY <4>1
    <3>3. CASE WaitEnds(c)
      BY <3>1, <3>3 DEF WaitEnds, Goto
    <3>4. CASE ReadFails(c)
      BY <3>1, <3>4 DEF ReadFails, Goto
    <3> QED BY <1>7, <3>2, <3>3, <3>4, <3>5
  <2>5. poll[c] \in [error : BOOLEAN, completed : BOOLEAN, last : [Components -> States]]
    OBVIOUS
  <2>2. [poll[c] EXCEPT !.error = TRUE]
            \in [error : BOOLEAN, completed : BOOLEAN, last : [Components -> States]]
    BY <2>5
  <2>6. poll' \in {poll, [poll EXCEPT ![c].error = TRUE]}
    BY <1>7 DEF Refuse, Posted, PostFails, Poll, WaitEnds, ReadFails
  <2>3. poll' \in [Calls -> [error : BOOLEAN, completed : BOOLEAN, last : [Components -> States]]]
    BY <2>2, <2>6
  <2>4. postError' \in [Calls -> BOOLEAN]
    BY <1>7 DEF Refuse, Posted, PostFails, Poll, WaitEnds, ReadFails
  <2> QED BY <1>7, <2>1, <2>3, <2>4 DEF Refuse, Posted, PostFails, Poll, WaitEnds, ReadFails
<1>8. ASSUME NEW c \in Calls, Queues(c) \/ RequestEnds(c) \/ WaitExpires(c) PROVE TypeOK'
  BY <1>8 DEF Queues, RequestEnds, WaitExpires
<1>9. ASSUME UNCHANGED vars PROVE TypeOK'
  BY <1>9 DEF vars
<1> QED BY <1>1, <1>2, <1>3, <1>4, <1>5, <1>6, <1>7, <1>8, <1>9, StepCases

-----------------------------------------------------------------------------
LEMMA TimesStep ==
    ASSUME TypeOK, TimesPast, [Next]_vars
    PROVE  TimesPast'
<1> USE DEF TypeOK, TimesPast
<1>a. clock \in Nat /\ {"listener"} \subseteq Components
  BY DEF Components
<1>b. \A k \in Components : /\ status[k].created \in Nat /\ status[k].updated \in Nat
                            /\ view[k].created \in Nat /\ view[k].updated \in Nat
  BY DEF States, Times
<1>c. \A c \in Calls, k \in Components :
          before[c][k].created \in Nat /\ before[c][k].updated \in Nat
  BY DEF States, Times
<1>1. ASSUME NEW ks \in SUBSET Components, NEW ends \in [Components -> {"running", "failed"}],
             clock < MaxEvents, clock' = clock + 1, status' = Restamped(ks, ends),
             view' = view, before' = before
      PROVE  TimesPast'
  <2>0. /\ \A k \in Components \ ks : status'[k] = status[k]
        /\ \A k \in ks : /\ status'[k].updated = clock'
                         /\ status'[k].created = IF ks = {"listener"} THEN status[k].created
                                                 ELSE clock'
    BY <1>1, Renewal
  <2>1. ASSUME NEW k \in Components
        PROVE  status'[k].created <= clock' /\ status'[k].updated <= clock'
    <3>1. CASE k \in ks
      BY <1>1, <1>a, <1>b, <2>0, <3>1
    <3>2. CASE k \notin ks
      BY <1>1, <1>a, <1>b, <2>0, <3>2
    <3> QED BY <3>1, <3>2
  <2>2. view'["listener"].updated = status'["listener"].updated =>
            view'["listener"].created = status'["listener"].created
    <3>1. CASE "listener" \in ks
      <4>1. view["listener"].updated <= clock /\ view["listener"].updated \in Nat
        BY <1>a, <1>b
      <4>2. status'["listener"].updated = clock + 1
        BY <1>1, <2>0, <3>1
      <4> QED BY <1>1, <1>a, <4>1, <4>2
    <3>2. CASE "listener" \notin ks
      BY <1>1, <1>a, <2>0, <3>2
    <3> QED BY <3>1, <3>2
  <2> QED BY <1>1, <1>a, <1>b, <1>c, <2>1, <2>2
<1>2. ASSUME NEW c \in Calls, Runs(c) PROVE TimesPast'
  BY <1>1, <1>2, AddressedComponents DEF Runs
<1>3. ASSUME OtherRestarts PROVE TimesPast'
  <2>1. PICK ks \in {Components} \cup {{k} : k \in Components \ {"daemon"}} :
            status' = Restamped(ks, [k \in Components |-> "running"])
    BY <1>3 DEF OtherRestarts
  <2>2. /\ ks \in SUBSET Components
        /\ [k \in Components |-> "running"] \in [Components -> {"running", "failed"}]
    OBVIOUS
  <2> QED BY <1>1, <1>3, <2>1, <2>2 DEF OtherRestarts
<1>4. ASSUME PeerChanges PROVE TimesPast'
  <2>1. PICK k \in Streams : status' = [status EXCEPT ![k].updated = clock']
    BY <1>4 DEF PeerChanges
  <2>2. k \in Components /\ k # "listener"
    BY DEF Components, Streams
  <2>3. /\ \A j \in Components : j # k => status'[j] = status[j]
        /\ status'[k].created = status[k].created /\ status'[k].updated = clock'
    BY <2>1, <2>2 DEF States
  <2> QED BY <1>4, <1>a, <1>b, <1>c, <2>2, <2>3 DEF PeerChanges
<1>5. ASSUME ViewArrives PROVE TimesPast'
  BY <1>5 DEF ViewArrives
<1>6. ASSUME NEW c \in Calls, ReadBefore(c) PROVE TimesPast'
  <2>1. \A k \in Components : Read(c)[k].created <= clock /\ Read(c)[k].updated <= clock
    BY <1>a DEF Read, Absent
  <2> QED BY <1>6, <2>1 DEF ReadBefore
<1>7. ASSUME UNCHANGED <<clock, status, view, before>> PROVE TimesPast'
  BY <1>7
<1> QED BY <1>2, <1>3, <1>4, <1>5, <1>6, <1>7, StepCases DEF ReadAnswers, Refuse, Posted,
    PostFails, Poll, WaitEnds, ReadFails, Queues, RequestEnds, WaitExpires, vars

-----------------------------------------------------------------------------
\* What the tool compares does not depend on the components of other times.
LEMMA SameNews ==
    ASSUME NEW d \in Calls, NEW k \in Components,
           before'[d] = before[d], action[d] = "ran" => action'[d] = "ran",
           NEW old \in States, NEW new \in States, new.created = old.created,
           k = "listener" => new.updated = old.updated,
           Unmoved(d, k, old) \/ Newer(d, k, old)
    PROVE  \/ /\ new.created = before'[d][k].created
              /\ k = "listener" => new.updated = before'[d][k].updated
           \/ action'[d] = "ran" /\ StartOf(k, new) > StartOf(k, before'[d][k])
  BY DEF Unmoved, Newer, StartOf

\* OnlyOwnNews of one call and one component, after a step.
OwnNewsNext(d, k) ==
    /\ \/ /\ status'[k].created = before'[d][k].created
          /\ k = "listener" => status'[k].updated = before'[d][k].updated
       \/ action'[d] = "ran" /\ StartOf(k, status'[k]) > StartOf(k, before'[d][k])
    /\ \/ /\ view'[k].created = before'[d][k].created
          /\ k = "listener" => view'[k].updated = before'[d][k].updated
       \/ action'[d] = "ran" /\ StartOf(k, view'[k]) > StartOf(k, before'[d][k])

LEMMA KeptNews ==
    ASSUME TypeOK, NEW d \in Calls, NEW k \in Components,
           before'[d] = before[d], action[d] = "ran" => action'[d] = "ran",
           Unmoved(d, k, status[k]) \/ Newer(d, k, status[k]),
           Unmoved(d, k, view[k]) \/ Newer(d, k, view[k]),
           status'[k] \in States, status'[k].created = status[k].created,
           k = "listener" => status'[k].updated = status[k].updated,
           view'[k] \in {view[k], status[k]}
    PROVE  OwnNewsNext(d, k)
<1>1. status[k] \in States /\ view[k] \in States /\ view'[k] \in States
  BY DEF TypeOK
<1>2. \/ /\ status'[k].created = before'[d][k].created
         /\ k = "listener" => status'[k].updated = before'[d][k].updated
      \/ action'[d] = "ran" /\ StartOf(k, status'[k]) > StartOf(k, before'[d][k])
  BY <1>1, SameNews
<1>3. \/ /\ view'[k].created = before'[d][k].created
         /\ k = "listener" => view'[k].updated = before'[d][k].updated
      \/ action'[d] = "ran" /\ StartOf(k, view'[k]) > StartOf(k, before'[d][k])
  BY <1>1, SameNews
<1> QED BY <1>2, <1>3 DEF OwnNewsNext

LEMMA KindsStay ==
    ASSUME [Next]_vars
    PROVE  kind' = kind
  BY StepCases DEF Runs, OtherRestarts, PeerChanges, ViewArrives, ReadBefore, ReadAnswers,
     Refuse, Posted, PostFails, Poll, WaitEnds, ReadFails, Queues, RequestEnds, WaitExpires, vars

LEMMA NewsStep ==
    ASSUME WatchInv, [Next]_vars
    PROVE  OnlyOwnNews'
<1> USE DEF WatchInv
<1>k. kind' = kind /\ TypeOK'
  BY KindsStay, TypeStep
<1>0. SUFFICES ASSUME NEW d \in Calls, pc'[d] \in {"posting", "waiting", "reading"},
                      kind[d] # "start", ~doubt'[d], NEW k \in Addressed(d)
               PROVE  OwnNewsNext(d, k)
  BY <1>k DEF OnlyOwnNews, Following, Addressed, Unmoved, Newer, OwnNewsNext, StartOf
<1> USE <1>0
<1>a. k \in Components
  BY AddressedComponents
<1>b. status'[k] \in States
  BY <1>k, <1>a DEF TypeOK
<1>c. ASSUME Following(d), ~doubt[d]
      PROVE  /\ Unmoved(d, k, status[k]) \/ Newer(d, k, status[k])
             /\ Unmoved(d, k, view[k]) \/ Newer(d, k, view[k])
  BY <1>c DEF OnlyOwnNews
<1>1. ASSUME NEW c \in Calls, Runs(c) PROVE OwnNewsNext(d, k)
  <2>1. Following(d) /\ before' = before /\ view' = view /\ pc[d] # "start"
    BY <1>1 DEF Runs, Following
  <2>2. /\ ~doubt[d]
        /\ d # c => k \notin Renews(c)
    BY <1>1, <2>1 DEF Runs, Doubted
  <2>3. action[d] = "ran" => action'[d] = "ran"
    BY <1>1 DEF Runs, TypeOK
  <2>4. PICK ends \in [Components -> {"running", "failed"}] : status' = Restamped(Renews(c), ends)
    BY <1>1 DEF Runs
  <2>5. /\ \A j \in Components \ Renews(c) : status'[j] = status[j]
        /\ \A j \in Renews(c) :
              /\ status'[j].updated = clock'
              /\ status'[j].created = IF Renews(c) = {"listener"} THEN status[j].created ELSE clock'
    BY <1>1, <2>4, Renewal, AddressedComponents DEF Runs
  <2>6. CASE d # c
    BY <1>a, <1>b, <1>c, <2>1, <2>2, <2>3, <2>5, <2>6, KeptNews
  <2>7. CASE d = c
    <3>1. k \in Renews(c)
      BY <1>a, <2>7 DEF Renews
    <3>2. StartOf(k, status'[k]) = clock + 1
      BY <1>1, <2>5, <3>1 DEF StartOf, Runs
    <3>3. StartOf(k, before'[d][k]) <= clock /\ StartOf(k, before'[d][k]) \in Nat /\ clock \in Nat
      BY <1>a, <2>1 DEF TimesPast, StartOf, TypeOK, States, Times
    <3>4. action'[d] = "ran" /\ action[d] # "ran"
      BY <1>1, <2>7 DEF Runs, TypeOK
    <3>5. Unmoved(d, k, view[k])
      BY <1>c, <2>1, <2>2, <3>4 DEF Newer
    <3> QED BY <2>1, <3>2, <3>3, <3>4, <3>5 DEF OwnNewsNext, Unmoved
  <2> QED BY <2>6, <2>7
<1>2. ASSUME OtherRestarts PROVE OwnNewsNext(d, k)
  <2>1. Following(d) /\ before' = before /\ view' = view /\ action' = action /\ pc[d] # "start"
    BY <1>2 DEF OtherRestarts, Following
  <2>2. PICK ks \in {Components} \cup {{j} : j \in Components \ {"daemon"}} :
            /\ status' = Restamped(ks, [j \in Components |-> "running"])
            /\ doubt' = Doubted(ks, Calls)
    BY <1>2 DEF OtherRestarts
  <2>3. ~doubt[d] /\ k \notin ks
    BY <2>1, <2>2 DEF Doubted
  <2>4. status'[k] = status[k]
    <3>1. [j \in Components |-> "running"] \in [Components -> {"running", "failed"}]
      OBVIOUS
    <3>2. ks \in SUBSET Components
      OBVIOUS
    <3> QED BY <1>2, <1>a, <2>2, <2>3, <3>1, <3>2, Renewal DEF OtherRestarts
  <2> QED BY <1>a, <1>b, <1>c, <2>1, <2>3, <2>4, KeptNews
<1>3. ASSUME PeerChanges PROVE OwnNewsNext(d, k)
  <2>1. /\ Following(d) /\ before' = before /\ view' = view /\ action' = action
        /\ doubt' = doubt
    BY <1>3 DEF PeerChanges, Following
  <2>2. PICK j \in Streams : status' = [status EXCEPT ![j].updated = clock']
    BY <1>3 DEF PeerChanges
  <2>3. /\ status'[k].created = status[k].created
        /\ k = "listener" => status'[k].updated = status[k].updated
    BY <1>a, <2>2 DEF Streams, TypeOK, States
  <2> QED BY <1>a, <1>b, <1>c, <2>1, <2>3, KeptNews
<1>4. ASSUME ViewArrives PROVE OwnNewsNext(d, k)
  BY <1>4, <1>a, <1>b, <1>c, KeptNews DEF ViewArrives, Following
<1>5. ASSUME NEW c \in Calls, ReadBefore(c) PROVE OwnNewsNext(d, k)
  <2>1. CASE d # c
    BY <1>5, <1>a, <1>b, <1>c, <2>1, KeptNews DEF ReadBefore, Goto, Following, TypeOK
  <2>2. CASE d = c
    <3>1. before'[d][k] = view[k] /\ status' = status /\ view' = view
      BY <1>5, <2>2, ReadType DEF ReadBefore, TypeOK
    <3>2. StartOf(k, view[k]) = StartOf(k, status[k])
      BY <1>5, <2>2 DEF ReadBefore, TypeOK
    <3> QED BY <3>1, <3>2 DEF OwnNewsNext, StartOf, TimesPast
  <2> QED BY <2>1, <2>2
<1>6. ASSUME /\ UNCHANGED <<status, view, before, doubt>>
             /\ action[d] = "ran" => action'[d] = "ran"
             /\ Following(d)
      PROVE  OwnNewsNext(d, k)
  BY <1>6, <1>a, <1>b, <1>c, KeptNews
<1>7. ASSUME NEW c \in Calls, Refuse(c) \/ Posted(c) \/ PostFails(c) \/ Poll(c)
                              \/ WaitEnds(c) \/ ReadFails(c)
      PROVE  OwnNewsNext(d, k)
  BY <1>6, <1>7 DEF Refuse, Posted, PostFails, Poll, WaitEnds, ReadFails, Goto, Following, TypeOK
<1>8. ASSUME NEW c \in Calls, Queues(c) \/ RequestEnds(c) \/ WaitExpires(c)
      PROVE  OwnNewsNext(d, k)
  BY <1>6, <1>8 DEF Queues, RequestEnds, WaitExpires, Following, TypeOK
<1>9. ASSUME NEW c \in Calls, ReadAnswers(c) PROVE OwnNewsNext(d, k)
  BY <1>6, <1>9 DEF ReadAnswers, Goto, Following, TypeOK
<1>10. ASSUME UNCHANGED vars PROVE OwnNewsNext(d, k)
  BY <1>6, <1>10 DEF vars, Following
<1> QED BY <1>1, <1>2, <1>3, <1>4, <1>5, <1>7, <1>8, <1>9, <1>10, StepCases

LEMMA CompletedStep ==
    ASSUME WatchInv, [Next]_vars
    PROVE  CompletedIsNews' /\ CompletedAtTheEnd'
<1> USE DEF WatchInv
<1>k. kind' = kind
  BY KindsStay
<1> DEFINE News(d) == \A k \in Addressed(d) :
               action'[d] = "ran" /\ StartOf(k, poll'[d].last[k]) > StartOf(k, before'[d][k])
           Goal(d) == /\ kind[d] # "start" /\ ~doubt'[d] => News(d)
                      /\ pc'[d] = "done"
<1>0. SUFFICES ASSUME NEW d \in Calls, poll'[d].completed PROVE Goal(d)
  BY <1>k DEF CompletedIsNews, CompletedAtTheEnd, Newer, Addressed, StartOf
<1> USE <1>0
\* A call completed before the step.
<1>1. ASSUME poll[d].completed, poll'[d].last = poll[d].last, before'[d] = before[d],
             action[d] = "ran" => action'[d] = "ran", doubt[d] => doubt'[d], pc'[d] = pc[d]
      PROVE  Goal(d)
  BY <1>1 DEF CompletedIsNews, CompletedAtTheEnd, Newer
<1>d. poll[d].completed => pc[d] = "done"
  BY DEF CompletedAtTheEnd
<1>2. ASSUME NEW c \in Calls, Runs(c) PROVE Goal(d)
  BY <1>1, <1>2 DEF Runs, Doubted, TypeOK
<1>3. ASSUME OtherRestarts PROVE Goal(d)
  BY <1>1, <1>3 DEF OtherRestarts, Doubted
<1>4. ASSUME PeerChanges \/ ViewArrives PROVE Goal(d)
  BY <1>1, <1>4 DEF PeerChanges, ViewArrives
<1>5. ASSUME NEW c \in Calls, ReadBefore(c) PROVE Goal(d)
  BY <1>1, <1>5, <1>d DEF ReadBefore, Goto, TypeOK
<1>6. ASSUME NEW c \in Calls, ReadAnswers(c) PROVE Goal(d)
  <2>1. CASE d # c
    BY <1>1, <1>6, <1>d, <2>1 DEF ReadAnswers, Goto, TypeOK
  <2>2. CASE d = c
    <3>1. /\ poll'[d].completed = Seen(d, Read(d)) /\ poll'[d].last = Read(d)
          /\ pc[d] = "reading" /\ pc'[d] = IF Seen(d, Read(d)) THEN "done" ELSE "waiting"
          /\ UNCHANGED <<before, action, doubt>>
      BY <1>6, <2>2 DEF ReadAnswers, Goto, TypeOK
    <3>2. ASSUME kind[d] # "start", ~doubt[d], NEW k \in Addressed(d)
          PROVE  action[d] = "ran" /\ StartOf(k, Read(d)[k]) > StartOf(k, before[d][k])
      <4>1. Renewed(d, k, Read(d)) /\ Read(d)[k] = view[k]
        BY <3>1, <3>2, ReadType DEF Seen
      <4>2. Unmoved(d, k, view[k]) \/ Newer(d, k, view[k])
        BY <3>1, <3>2 DEF OnlyOwnNews, Following
      <4> QED BY <4>1, <4>2 DEF Renewed, Unmoved, Newer
    <3> QED BY <3>1, <3>2
  <2> QED BY <2>1, <2>2
<1>7. ASSUME NEW c \in Calls, Refuse(c) \/ Posted(c) \/ PostFails(c) \/ Poll(c)
                              \/ WaitEnds(c) \/ ReadFails(c)
      PROVE  Goal(d)
  <2>1. pc[c] # "done" /\ UNCHANGED <<before, action, doubt>> /\ (d # c => pc'[d] = pc[d])
    BY <1>7 DEF Refuse, Posted, PostFails, Poll, WaitEnds, ReadFails, Goto, TypeOK
  <2>2. poll'[d].completed = poll[d].completed /\ poll'[d].last = poll[d].last
    <3>1. poll' \in {poll, [poll EXCEPT ![c].error = TRUE]}
      BY <1>7 DEF Refuse, Posted, PostFails, Poll, WaitEnds, ReadFails
    <3>2. /\ poll \in [Calls -> [error : BOOLEAN, completed : BOOLEAN,
                                 last : [Components -> States]]]
          /\ poll[d] \in [error : BOOLEAN, completed : BOOLEAN, last : [Components -> States]]
      BY DEF TypeOK
    <3>3. CASE poll' = poll
      BY <3>3
    <3>4. CASE poll' = [poll EXCEPT ![c].error = TRUE]
      <4>1. poll'[d] = IF d = c THEN [poll[d] EXCEPT !.error = TRUE] ELSE poll[d]
        BY <3>2, <3>4
      <4> QED BY <3>2, <4>1
    <3> QED BY <3>1, <3>3, <3>4
  <2> QED BY <1>1, <1>d, <2>1, <2>2
<1>8. ASSUME NEW c \in Calls, Queues(c) \/ RequestEnds(c) \/ WaitExpires(c) PROVE Goal(d)
  BY <1>1, <1>8 DEF Queues, RequestEnds, WaitExpires, TypeOK
<1>9. ASSUME UNCHANGED vars PROVE Goal(d)
  BY <1>1, <1>9 DEF vars
<1> QED BY <1>2, <1>3, <1>4, <1>5, <1>6, <1>7, <1>8, <1>9, StepCases

LEMMA WatchInvariant == SafeSpec => []WatchInv
<1>1. Init => WatchInv
  <2>1. ASSUME Init
        PROVE  TypeOK
    <3>1. Absent \in States /\ Fresh \in States /\ [Fresh EXCEPT !.state = "failed"] \in States
      BY MaxEventsAssumption DEF Absent, Fresh, States, Times
    <3>2. status \in [Components -> States] /\ view \in [Components -> States]
      BY <2>1, <3>1 DEF Init
    <3>3. NothingRead \in [error : BOOLEAN, completed : BOOLEAN, last : [Components -> States]]
      BY <3>1 DEF NothingRead
    <3> QED BY <2>1, <3>1, <3>2, <3>3, MaxEventsAssumption DEF Init, TypeOK
  <2>2. ASSUME Init
        PROVE  TimesPast
    BY <2>2 DEF Init, TimesPast, Absent, Fresh, Components
  <2>3. ASSUME Init
        PROVE  OnlyOwnNews /\ CompletedIsNews /\ CompletedAtTheEnd
    BY <2>3 DEF Init, OnlyOwnNews, Following, CompletedIsNews, CompletedAtTheEnd, NothingRead
  <2> QED BY <2>1, <2>2, <2>3 DEF WatchInv
<1>2. WatchInv /\ [Next]_vars => WatchInv'
  BY TypeStep, TimesStep, NewsStep, CompletedStep DEF WatchInv
<1> QED BY <1>1, <1>2, PTL DEF SafeSpec

\* The type invariant, for any calls and events.
THEOREM Typed == Spec => []TypeOK
<1>1. WatchInv => TypeOK
  BY DEF WatchInv
<1> QED BY <1>1, WatchInvariant, PTL DEF Spec

\* For any calls and events: a restart told completed is the one asked, of each
\* component addressed, unless another actor restarted one of them since the
\* tool read the node, or its first read was of a late view (pollNodeStatus).
THEOREM RestartsAreOwn == Spec => []CompletedIsOwnRestart
<1>1. WatchInv => CompletedIsOwnRestart
  <2>1. ASSUME WatchInv, NEW c \in Calls, Completed(c), kind[c] # "start", ~doubt[c]
        PROVE  /\ action[c] = "ran"
               /\ \A k \in Addressed(c) :
                     StartOf(k, poll[c].last[k]) > StartOf(k, before[c][k])
    <3>1. \A k \in Addressed(c) : Newer(c, k, poll[c].last[k])
      BY <2>1 DEF WatchInv, CompletedIsNews, Completed
    <3>2. PICK k \in Addressed(c) : TRUE
      BY DEF Addressed, Streams
    <3>3. action[c] = "ran"
      BY <3>1, <3>2 DEF Newer
    <3> QED BY <3>1, <3>3 DEF Newer
  <2> QED BY <2>1 DEF WatchInv, CompletedIsOwnRestart
<1> QED BY <1>1, WatchInvariant, PTL DEF Spec

-----------------------------------------------------------------------------
\* Of a call: what a post that failed leaves of it, on its way and at its end.
PostTold(c) ==
    /\ pc[c] \in {"start", "posting"} => ~postError[c]
    /\ pc[c] = "start" => action[c] = "none"
    /\ postError[c] => pc[c] = "error" \/ kind[c] = "listener"
    /\ pc[c] = "error" /\ action[c] # "none" => postError[c]
    /\ pc[c] = "done" /\ postError[c] => poll[c].completed
    /\ pc[c] = "done" /\ ~poll[c].completed => waitOver[c] \/ request[c] = "over"

PostsTold == \A c \in Calls : PostTold(c)

LEMMA PostsToldStep ==
    ASSUME TypeOK, PostsTold, CompletedAtTheEnd, [Next]_vars
    PROVE  PostsTold'
<1>k. kind' = kind
  BY KindsStay
<1>0. SUFFICES ASSUME NEW d \in Calls PROVE PostTold(d)'
  BY DEF PostsTold
<1> USE <1>0
<1>d. PostTold(d)
  BY DEF PostsTold
<1>2. ASSUME NEW c \in Calls, Runs(c) PROVE PostTold(d)'
  <2>1. /\ UNCHANGED <<pc, postError, poll, waitOver, request>>
        /\ action'[d] = action[d] \/ action[d] = "queued"
    BY <1>2 DEF Runs, TypeOK
  <2> QED BY <1>d, <1>k, <2>1 DEF PostTold
<1>3. ASSUME OtherRestarts \/ PeerChanges \/ ViewArrives \/ UNCHANGED vars PROVE PostTold(d)'
  <2>1. UNCHANGED <<pc, postError, poll, waitOver, request, action>>
    BY <1>3 DEF OtherRestarts, PeerChanges, ViewArrives, vars
  <2> QED BY <1>d, <1>k, <2>1 DEF PostTold
<1>4. ASSUME NEW c \in Calls, Queues(c) PROVE PostTold(d)'
  <2>1. /\ UNCHANGED <<pc, postError, poll, waitOver, request>>
        /\ action'[d] = action[d] \/ pc[d] = "posting" \/ postError[d]
    BY <1>4 DEF Queues, TypeOK
  <2> QED BY <1>d, <1>k, <2>1 DEF PostTold
<1>5. ASSUME NEW c \in Calls, RequestEnds(c) \/ WaitExpires(c) PROVE PostTold(d)'
  <2>1. /\ UNCHANGED <<pc, postError, poll, action>>
        /\ waitOver[d] => waitOver'[d]
        /\ request[d] = "over" => request'[d] = "over"
    BY <1>5 DEF RequestEnds, WaitExpires, TypeOK
  <2> QED BY <1>d, <1>k, <2>1 DEF PostTold
<1>6. ASSUME NEW c \in Calls, CallStep(c), d # c PROVE PostTold(d)'
  <2>1. /\ pc'[d] = pc[d] /\ postError'[d] = postError[d] /\ poll'[d] = poll[d]
        /\ UNCHANGED <<action, waitOver, request>>
    BY <1>6 DEF CallStep, Refuse, ReadBefore, Posted, PostFails, Poll, WaitEnds, ReadAnswers, ReadFails,
                Goto, TypeOK
  <2> QED BY <1>d, <1>k, <2>1 DEF PostTold
<1>7. ASSUME Refuse(d) \/ ReadBefore(d) \/ Posted(d) \/ Poll(d) PROVE PostTold(d)'
  BY <1>7, <1>d, <1>k DEF Refuse, ReadBefore, Posted, Poll, Goto, TypeOK, PostTold
<1>8. ASSUME PostFails(d) PROVE PostTold(d)'
  BY <1>8, <1>d, <1>k DEF PostFails, Goto, TypeOK, PostTold
<1>e. pc[d] # "done" => ~poll[d].completed
  BY DEF CompletedAtTheEnd
<1>9. ASSUME WaitEnds(d) \/ (ReadFails(d) /\ request[d] = "over") PROVE PostTold(d)'
  <2>1. /\ UNCHANGED <<action, waitOver, request, postError>>
        /\ pc'[d] = IF postError[d] THEN "error" ELSE "done"
        /\ request[d] = "over" \/ waitOver[d]
    BY <1>9 DEF WaitEnds, ReadFails, Goto, TypeOK, Answer
  <2> QED BY <1>d, <1>k, <2>1 DEF PostTold
<1>10. ASSUME ReadFails(d), request[d] # "over" PROVE PostTold(d)'
  <2>1. /\ UNCHANGED <<action, waitOver, request, postError>>
        /\ pc[d] = "reading" /\ pc'[d] = "waiting"
    BY <1>10 DEF ReadFails, Goto, TypeOK
  <2> QED BY <1>d, <1>k, <2>1 DEF PostTold
<1>11. ASSUME ReadAnswers(d) PROVE PostTold(d)'
  <2>1. /\ UNCHANGED <<action, waitOver, request, postError>> /\ pc[d] = "reading"
        /\ poll'[d].completed = Seen(d, Read(d))
        /\ pc'[d] = IF Seen(d, Read(d)) THEN "done" ELSE "waiting"
    BY <1>11 DEF ReadAnswers, Goto, TypeOK
  <2> QED BY <1>d, <1>k, <2>1 DEF PostTold
<1>12. ASSUME NEW c \in Calls, CallStep(c) PROVE PostTold(d)'
  BY <1>6, <1>7, <1>8, <1>9, <1>10, <1>11, <1>12 DEF CallStep
<1> QED BY <1>2, <1>3, <1>4, <1>5, <1>12 DEF Next

\* For any calls and events: a call told an error, its action accepted, is one
\* whose post had no answer; one whose post failed is answered only when its
\* restart was seen; one answered without it had its whole wait, or no caller
\* left to wait (RestartDaemonListener, pollNodeStatus).
THEOREM ErrorsAreRight == Spec => []ErrorsAreOfThePost
<1>1. Init => PostsTold
  BY DEF Init, PostsTold, PostTold
<1>2. TypeOK /\ CompletedAtTheEnd /\ PostsTold /\ [Next]_vars => PostsTold'
  BY PostsToldStep
<1>3. PostsTold => ErrorsAreOfThePost
  <2> SUFFICES ASSUME PostsTold, NEW c \in Calls
               PROVE  /\ pc[c] = "error" /\ action[c] # "none" => postError[c]
                      /\ pc[c] = "done" /\ postError[c] => kind[c] = "listener" /\ poll[c].completed
                      /\ pc[c] = "done" /\ ~poll[c].completed => waitOver[c] \/ request[c] = "over"
    BY DEF ErrorsAreOfThePost
  <2>1. PostTold(c)
    BY DEF PostsTold
  <2> QED BY <2>1 DEF PostTold
<1>4. WatchInv => TypeOK /\ CompletedAtTheEnd
  BY DEF WatchInv
<1> QED BY <1>1, <1>2, <1>3, <1>4, WatchInvariant, PTL DEF Spec, SafeSpec
=============================================================================
