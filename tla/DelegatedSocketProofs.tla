----------------------- MODULE DelegatedSocketProofs -----------------------
(***************************************************************************)
(* The socket at the path, for any number of processes.  The argument:     *)
(* without doubt one process at most is starting (StartsAlone), and what   *)
(* it learned of the path still holds when it acts on it (WhatAStartKnows):*)
(* the one who starts is alone to change the path, but for a file put      *)
(* where there is none.                                                    *)
(***************************************************************************)
EXTENDS DelegatedSocket, TLAPS

StartsAlone == ~doubt => \A p, q \in Starting : p = q

\* Who listens serves or is about to, and who serves listens.
ListenersServe ==
    \A p \in Processes :
        /\ listening[p] => pc[p] \in {"restrict", "serving", "stopping"}
        /\ pc[p] \in {"serving", "stopping"} => listening[p]

NobodyListens == \A q \in Processes : ~listening[q]

\* What the path is at each step of a start.
WhatAStartKnows ==
    ~doubt => \A p \in Processes :
        /\ pc[p] \in {"dial", "remove"} => path \in Processes
        /\ pc[p] \in {"remove", "bind", "listen"} => NobodyListens
        /\ pc[p] = "bind" => path \in {"absent", "file"}
        /\ pc[p] \in {"listen", "restrict"} => path = p

SocketInv ==
    TypeOK /\ StartsAlone /\ ListenersServe /\ WhatAStartKnows /\ LiveSocketIsReached

-----------------------------------------------------------------------------
LEMMA StepCases ==
    ASSUME NEW P, [Next]_vars,
           ASSUME NEW p \in Processes, Start(p) PROVE P,
           ASSUME NEW p \in Processes, StartStep(p) PROVE P,
           ASSUME NEW p \in Processes, Signal(p) PROVE P,
           ASSUME NEW p \in Processes, Close(p) PROVE P,
           ASSUME NEW p \in Processes, Drained(p) \/ Crash(p) PROVE P,
           ASSUME FilePut PROVE P,
           ASSUME UNCHANGED vars PROVE P
    PROVE  P
  BY DEF Next

LEMMA TypeStep ==
    ASSUME TypeOK, [Next]_vars
    PROVE  TypeOK'
<1> USE DEF TypeOK, StartingPlaces
<1>1. ASSUME NEW p \in Processes, Start(p) PROVE TypeOK'
  BY <1>1 DEF Start, Goto
<1>2. ASSUME NEW p \in Processes, StartStep(p) PROVE TypeOK'
  <2>1. CASE Inspect(p)
    BY <2>1 DEF Inspect, Goto
  <2>2. CASE Dial(p)
    BY <2>2 DEF Dial, Goto, Answers
  <2>3. CASE Remove(p)
    BY <2>3 DEF Remove, Goto
  <2>4. CASE Bind(p)
    BY <2>4 DEF Bind, Goto
  <2>5. CASE Listen(p)
    BY <2>5 DEF Listen, Goto
  <2>6. CASE RestrictMode(p)
    BY <2>6 DEF RestrictMode, Goto
  <2> QED BY <1>2, <2>1, <2>2, <2>3, <2>4, <2>5, <2>6 DEF StartStep
<1>3. ASSUME NEW p \in Processes, Signal(p) \/ Close(p) PROVE TypeOK'
  BY <1>3 DEF Signal, Close, Goto
<1>4. ASSUME NEW p \in Processes, Drained(p) \/ Crash(p) PROVE TypeOK'
  BY <1>4 DEF Drained, Crash, Goto
<1>5. ASSUME FilePut PROVE TypeOK'
  BY <1>5 DEF FilePut
<1>6. ASSUME UNCHANGED vars PROVE TypeOK'
  BY <1>6 DEF vars
<1> QED BY <1>1, <1>2, <1>3, <1>4, <1>5, <1>6, StepCases

LEMMA StartsAloneStep ==
    ASSUME TypeOK, StartsAlone, [Next]_vars
    PROVE  StartsAlone'
<1> USE DEF StartsAlone, Starting, StartingPlaces, TypeOK
<1>1. ASSUME NEW p \in Processes, Start(p) PROVE StartsAlone'
  BY <1>1 DEF Start, Goto
<1>2. ASSUME NEW p \in Processes, StartStep(p) PROVE StartsAlone'
  BY <1>2 DEF StartStep, Inspect, Dial, Remove, Bind, Listen, RestrictMode, Goto
<1>3. ASSUME NEW p \in Processes, Signal(p) \/ Close(p) PROVE StartsAlone'
  BY <1>3 DEF Signal, Close, Goto
<1>4. ASSUME NEW p \in Processes, Drained(p) \/ Crash(p) PROVE StartsAlone'
  BY <1>4 DEF Drained, Crash, Goto
<1>5. ASSUME FilePut PROVE StartsAlone'
  BY <1>5 DEF FilePut
<1>6. ASSUME UNCHANGED vars PROVE StartsAlone'
  BY <1>6 DEF vars
<1> QED BY <1>1, <1>2, <1>3, <1>4, <1>5, <1>6, StepCases

LEMMA ListenersServeStep ==
    ASSUME TypeOK, ListenersServe, [Next]_vars
    PROVE  ListenersServe'
<1> USE DEF ListenersServe, TypeOK, StartingPlaces
<1>1. ASSUME NEW p \in Processes, Start(p) PROVE ListenersServe'
  BY <1>1 DEF Start, Goto
<1>2. ASSUME NEW p \in Processes, StartStep(p) PROVE ListenersServe'
  BY <1>2 DEF StartStep, Inspect, Dial, Remove, Bind, Listen, RestrictMode, Goto
<1>3. ASSUME NEW p \in Processes, Signal(p) \/ Close(p) PROVE ListenersServe'
  BY <1>3 DEF Signal, Close, Goto
<1>4. ASSUME NEW p \in Processes, Drained(p) \/ Crash(p) PROVE ListenersServe'
  BY <1>4 DEF Drained, Crash, Goto
<1>5. ASSUME FilePut PROVE ListenersServe'
  BY <1>5 DEF FilePut
<1>6. ASSUME UNCHANGED vars PROVE ListenersServe'
  BY <1>6 DEF vars
<1> QED BY <1>1, <1>2, <1>3, <1>4, <1>5, <1>6, StepCases

-----------------------------------------------------------------------------
\* Nobody listens at a path that does not answer.
LEMMA SilentPath ==
    ASSUME TypeOK, LiveSocketIsReached, ~doubt, ~Answers
    PROVE  NobodyListens
  BY DEF LiveSocketIsReached, Answers, NobodyListens, TypeOK

LEMMA KnowledgeStep ==
    ASSUME SocketInv, [Next]_vars
    PROVE  WhatAStartKnows' /\ LiveSocketIsReached'
<1> DEFINE Goal == WhatAStartKnows' /\ LiveSocketIsReached'
<1>0. SUFFICES ASSUME ~doubt', ~doubt PROVE Goal
  <2>1. doubt => doubt'
    <3>1. ASSUME NEW p \in Processes, StartStep(p) PROVE doubt => doubt'
      BY <3>1 DEF StartStep, Inspect, Dial, Remove, Bind, Listen, RestrictMode
    <3> QED BY <3>1, StepCases DEF Start, Signal, Close, Drained, Crash, FilePut, vars
  <2> QED BY <2>1 DEF WhatAStartKnows, LiveSocketIsReached
<1> USE <1>0
<1> USE DEF SocketInv, TypeOK, StartingPlaces
<1>a. \A p \in Processes, q \in Processes : p \in Starting /\ q \in Starting => p = q
  BY DEF StartsAlone, Starting
<1>1. ASSUME NEW p \in Processes, Start(p) PROVE Goal
  BY <1>1 DEF Start, Goto, WhatAStartKnows, LiveSocketIsReached, NobodyListens
<1>2. ASSUME NEW p \in Processes, StartStep(p) PROVE Goal
  <2>0. \A q \in Processes : q # p => pc[q] \notin StartingPlaces /\ pc'[q] = pc[q]
    BY <1>2, <1>a DEF StartStep, Inspect, Dial, Remove, Bind, Listen, RestrictMode, Goto, Starting
  <2>1. CASE Inspect(p)
    <3>1. path = "absent" => NobodyListens
      BY ProcessesAssumption, SilentPath DEF Answers
    <3> QED BY <2>0, <2>1, <3>1 DEF Inspect, Goto, WhatAStartKnows, LiveSocketIsReached, NobodyListens
  <2>2. CASE Dial(p)
    <3>1. ~Answers => NobodyListens
      BY SilentPath
    <3> QED BY <2>0, <2>2, <3>1 DEF Dial, Goto, WhatAStartKnows, LiveSocketIsReached, NobodyListens
  <2>3. CASE Remove(p)
    BY <2>0, <2>3, ProcessesAssumption DEF Remove, Goto, WhatAStartKnows, LiveSocketIsReached, NobodyListens
  <2>4. CASE Bind(p)
    BY <2>0, <2>4, ProcessesAssumption DEF Bind, Goto, WhatAStartKnows, LiveSocketIsReached, NobodyListens
  <2>5. CASE Listen(p)
    BY <2>0, <2>5, ProcessesAssumption DEF Listen, Goto, WhatAStartKnows, LiveSocketIsReached, NobodyListens
  <2>6. CASE RestrictMode(p)
    BY <2>0, <2>6, ProcessesAssumption DEF RestrictMode, Goto, WhatAStartKnows, LiveSocketIsReached, NobodyListens
  <2> QED BY <1>2, <2>1, <2>2, <2>3, <2>4, <2>5, <2>6 DEF StartStep
<1>3. ASSUME NEW p \in Processes, Close(p) PROVE Goal
  <2>1. Starting = {}
    BY <1>3 DEF Close
  <2>2. \A q \in Processes : listening[q] => q = p
    BY <1>3 DEF Close, LiveSocketIsReached, ListenersServe
  <2> QED BY <1>3, <2>1, <2>2 DEF Close, Goto, Starting, WhatAStartKnows, LiveSocketIsReached
<1>4. ASSUME NEW p \in Processes, Signal(p) \/ Drained(p) \/ Crash(p) PROVE Goal
  BY <1>4 DEF Signal, Drained, Crash, Goto, WhatAStartKnows, LiveSocketIsReached, NobodyListens
<1>5. ASSUME FilePut PROVE Goal
  BY <1>5, ProcessesAssumption DEF FilePut, WhatAStartKnows, LiveSocketIsReached, NobodyListens
<1>6. ASSUME UNCHANGED vars PROVE Goal
  BY <1>6 DEF vars, WhatAStartKnows, LiveSocketIsReached, NobodyListens
<1> QED BY <1>1, <1>2, <1>3, <1>4, <1>5, <1>6, StepCases

LEMMA SocketInvariant == Spec => []SocketInv
<1>1. Init => SocketInv
  BY DEF Init, SocketInv, TypeOK, StartsAlone, Starting, StartingPlaces, ListenersServe,
     WhatAStartKnows, LiveSocketIsReached
<1>2. SocketInv /\ [Next]_vars => SocketInv'
  BY TypeStep, StartsAloneStep, ListenersServeStep, KnowledgeStep DEF SocketInv
<1> QED BY <1>1, <1>2, PTL DEF Spec

-----------------------------------------------------------------------------
\* For any processes: one that listens is the one reached at the path, unless
\* another was starting while the path changed, or its dial was not answered
\* (listenDelegated).
THEOREM LiveIsReached == Spec => [](TypeOK /\ LiveSocketIsReached)
<1>1. SocketInv => TypeOK /\ LiveSocketIsReached
  BY DEF SocketInv
<1> QED BY <1>1, SocketInvariant, PTL

\* For any processes: no start and no stop removes a file of another kind
\* (listenDelegated, the shutdown of main).
THEOREM FilesAreKept == Spec => OtherFilesAreKept
<1>1. ASSUME SocketInv, [Next]_vars, path = "file", ~doubt
      PROVE  path' = "file"
  <2> USE <1>1, ProcessesAssumption DEF SocketInv
  <2>1. ASSUME NEW p \in Processes, StartStep(p) PROVE path' = "file"
    BY <2>1 DEF StartStep, Inspect, Dial, Remove, Bind, Listen, RestrictMode, WhatAStartKnows
  <2>2. ASSUME NEW p \in Processes, Close(p) PROVE path' = "file"
    BY <2>2 DEF Close, ListenersServe, LiveSocketIsReached
  <2> QED BY <2>1, <2>2, StepCases DEF Start, Signal, Drained, Crash, FilePut, vars
<1> DEFINE Keeps == path = "file" /\ ~doubt => path' = "file"
<1>2. SocketInv /\ [Next]_vars => [Keeps]_vars
  BY <1>1
<1> QED BY <1>2, SocketInvariant, PTL DEF Spec, OtherFilesAreKept

\* For any processes: a start is refused for somebody who listens or for a
\* file, never for the socket a process left (listenDelegated).
THEOREM RefusalsHaveTheirCause == Spec => RefusedForCause
<1> DEFINE Caused == \A p \in Processes :
              pc[p] # "refused" /\ pc'[p] = "refused" /\ ~doubt' => Answers \/ path = "file"
<1>1. ASSUME SocketInv, [Next]_vars, NEW p \in Processes,
             pc[p] # "refused", pc'[p] = "refused", ~doubt'
      PROVE  Answers \/ path = "file"
  <2> USE <1>1, ProcessesAssumption DEF SocketInv, TypeOK
  <2>1. ASSUME NEW q \in Processes, StartStep(q) PROVE Answers \/ path = "file"
    <3>1. q = p
      BY <2>1 DEF StartStep, Inspect, Dial, Remove, Bind, Listen, RestrictMode, Goto
    <3> QED BY <2>1, <3>1 DEF StartStep, Inspect, Dial, Remove, Bind, Listen, RestrictMode,
            Goto, WhatAStartKnows
  <2>2. ASSUME NEW q \in Processes, Start(q) \/ Signal(q) \/ Close(q) \/ Drained(q) \/ Crash(q)
        PROVE  FALSE
    BY <2>2 DEF Start, Signal, Close, Drained, Crash, Goto
  <2> QED BY <2>1, <2>2, StepCases DEF FilePut, vars
<1>2. SocketInv /\ [Next]_vars => [Caused]_vars
  BY <1>1
<1> QED BY <1>2, SocketInvariant, PTL DEF Spec, RefusedForCause
=============================================================================
