-------------------------- MODULE DelegationProofs --------------------------
(***************************************************************************)
(* The calls on the delegated socket, for any number of calls, clusters    *)
(* and providers.  The argument: a call past the middleware is verified    *)
(* with the provider of its cluster (Verified), and only such calls send;  *)
(* a call whose daemon was asked has its own token among those sent        *)
(* (AskedIsSent), so that the bridge vouches for nobody else.              *)
(***************************************************************************)
EXTENDS Delegation, TLAPS

Inside(c) == pc[c] \in {"handling", "selected", "asking", "confirming", "returning"}

Verified ==
    \A c \in Calls :
        /\ pc[c] = "verifying" \/ Inside(c) => header[c] \in Clusters
        /\ Inside(c) => signer[c] = ProviderOf[header[c]]
        /\ pc[c] = "selected" => requests[c] < MaxRequests

\* A call has no line until it is done, and then at most one.
LinesAtTheEnd ==
    \A c \in Calls :
        /\ pc[c] # "done" => audit[c] = <<>>
        /\ pc[c] = "returning" => route[c] = "tool" /\ outcome[c] \in {"ok", "error"}
        /\ audit[c] # <<>> =>
              /\ route[c] = "tool" /\ outcome[c] \in {"ok", "error"}
              /\ \/ audit[c] = <<c>>
                 \/ audit[c] = <<"nobody">> /\ (expired[c] \/ caller[c] = "gone")

\* A call waiting for an answer, or for its last check, did ask the daemon.
AskedIsSent ==
    \A c \in Calls :
        pc[c] \in {"asking", "confirming"} => \E s \in sent : s.by = c /\ s.token = c

CallInv == TypeOK /\ Verified /\ TokensStayWithTheirCall /\ LinesAtTheEnd /\ AskedIsSent

-----------------------------------------------------------------------------
\* The steps that send nothing.
LEMMA QuietType ==
    ASSUME TypeOK, NEW c \in Calls, NEW place \in Places, NEW answer \in Outcomes,
           pc' = [pc EXCEPT ![c] = place],
           outcome' = [outcome EXCEPT ![c] = answer] \/ outcome' = outcome,
           UNCHANGED <<route, signer, header, expired, caller, requests, sent, audit>>
    PROVE  TypeOK'
  BY DEF TypeOK

LEMMA TypeStep ==
    ASSUME TypeOK, Verified, [Next]_vars
    PROVE  TypeOK'
<1> USE DEF Places, Outcomes
<1>1. ASSUME NEW c \in Calls, MiddlewareStep(c) \/ ToolStep(c) \/ WhoAmIStep(c)
      PROVE  TypeOK'
  BY <1>1, QuietType DEF MiddlewareStep, ToolStep, WhoAmIStep, Check, Verify, Unauthorized,
     Unavailable, ToolAnswered, ToolReturns, ToolFails, WhoAmIRefused, Confirmed,
     NotConfirmed, WhoAmIFails, Confirm, Goto, Leave
<1>2. ASSUME NEW c \in Calls, Select(c)
      PROVE  TypeOK'
  BY <1>2, QuietType DEF Select, Goto
<1>3. ASSUME NEW c \in Calls, Send(c)
      PROVE  TypeOK'
  <2>1. header[c] \in Clusters /\ requests[c] < MaxRequests /\ requests[c] \in 0 .. MaxRequests
    BY <1>3 DEF Send, Verified, Inside, TypeOK
  <2>2. requests[c] + 1 \in 0 .. MaxRequests
    BY <2>1, RequestsAssumption
  <2>3. [by |-> c, token |-> c, to |-> header[c], late |-> expired[c]]
            \in [by : Calls, token : Calls, to : Clusters, late : BOOLEAN]
    BY <2>1 DEF TypeOK
  <2> QED BY <1>3, <2>2, <2>3 DEF Send, Goto, TypeOK
<1>4. ASSUME NEW c \in Calls, Audit(c)
      PROVE  TypeOK'
  BY <1>4 DEF Audit, Goto, TypeOK
<1>5. ASSUME NEW c \in Calls, Expire(c) \/ CallerLeaves(c)
      PROVE  TypeOK'
  BY <1>5 DEF Expire, CallerLeaves, TypeOK
<1>6. CASE UNCHANGED vars
  BY <1>6 DEF vars, TypeOK
<1> QED BY <1>1, <1>2, <1>3, <1>4, <1>5, <1>6 DEF Next, CallStep

LEMMA VerifiedStep ==
    ASSUME TypeOK, Verified, [Next]_vars
    PROVE  Verified'
<1>1. ASSUME NEW c \in Calls, MiddlewareStep(c)
      PROVE  Verified'
  BY <1>1 DEF MiddlewareStep, Check, Verify, Unauthorized, Unavailable, Goto, Leave,
     TypeOK, Verified, Inside
<1>2. ASSUME NEW c \in Calls, Select(c)
      PROVE  Verified'
  <2>1. requests[c] < MaxRequests
    BY <1>2, RequestsAssumption DEF Select, TypeOK
  <2> QED BY <1>2, <2>1 DEF Select, Goto, TypeOK, Verified, Inside
<1>3. ASSUME NEW c \in Calls, Send(c)
      PROVE  Verified'
  BY <1>3 DEF Send, Goto, TypeOK, Verified, Inside
<1>4. ASSUME NEW c \in Calls, ToolStep(c) \/ WhoAmIStep(c)
      PROVE  Verified'
  BY <1>4 DEF ToolStep, WhoAmIStep, ToolAnswered, ToolReturns, ToolFails, WhoAmIRefused,
     Confirmed, NotConfirmed, WhoAmIFails, Confirm, Goto, Leave, TypeOK, Verified, Inside
<1>5. ASSUME NEW c \in Calls, Audit(c) \/ Expire(c) \/ CallerLeaves(c)
      PROVE  Verified'
  BY <1>5 DEF Audit, Expire, CallerLeaves, Goto, TypeOK, Verified, Inside
<1>6. CASE UNCHANGED vars
  BY <1>6 DEF vars, Verified, Inside
<1> QED BY <1>1, <1>2, <1>3, <1>4, <1>5, <1>6 DEF Next, CallStep

\* Only Send changes what the daemons received, and nothing changes whom a
\* token is of nor where its call goes.
LEMMA SendOnly ==
    ASSUME [Next]_vars
    PROVE  /\ sent' = sent \/ \E c \in Calls : Send(c)
           /\ UNCHANGED <<signer, header, route>>
  BY DEF Next, vars, CallStep, MiddlewareStep, ToolStep, WhoAmIStep, Check, Verify,
     Unauthorized, Unavailable, Select, Send, ToolAnswered, ToolReturns, ToolFails,
     WhoAmIRefused, Confirmed, NotConfirmed, WhoAmIFails, Confirm, Audit, Expire, CallerLeaves

LEMMA TokensStep ==
    ASSUME TypeOK, Verified, TokensStayWithTheirCall, [Next]_vars
    PROVE  TokensStayWithTheirCall'
<1>1. CASE sent' = sent
  BY <1>1, SendOnly DEF TokensStayWithTheirCall
<1>2. ASSUME NEW c \in Calls, Send(c)
      PROVE  TokensStayWithTheirCall'
  <2>1. signer[c] = ProviderOf[header[c]] /\ ~expired[c]
    BY <1>2 DEF Send, Credential, Verified, Inside
  <2> QED BY <1>2, <2>1, SendOnly DEF Send, TokensStayWithTheirCall
<1> QED BY <1>1, <1>2, SendOnly

LEMMA LinesStep ==
    ASSUME TypeOK, LinesAtTheEnd, [Next]_vars
    PROVE  LinesAtTheEnd'
<1>1. ASSUME NEW c \in Calls, MiddlewareStep(c) \/ Select(c) \/ Send(c) \/ WhoAmIStep(c)
      PROVE  LinesAtTheEnd'
  <2>1. pc[c] \notin {"done", "returning"} /\ pc'[c] # "returning"
    BY <1>1 DEF MiddlewareStep, WhoAmIStep, Check, Verify, Unauthorized, Unavailable, Select,
       Send, WhoAmIRefused, Confirmed, NotConfirmed, WhoAmIFails, Confirm, Goto, Leave, TypeOK
  <2>2. /\ \A d \in Calls \ {c} : pc'[d] = pc[d] /\ outcome'[d] = outcome[d]
        /\ UNCHANGED <<route, audit, expired, caller>>
    BY <1>1 DEF MiddlewareStep, WhoAmIStep, Check, Verify, Unauthorized, Unavailable, Select,
       Send, WhoAmIRefused, Confirmed, NotConfirmed, WhoAmIFails, Confirm, Goto, Leave, TypeOK
  <2>3. audit[c] = <<>>
    BY <2>1 DEF LinesAtTheEnd
  <2> QED BY <2>1, <2>2, <2>3 DEF LinesAtTheEnd
<1>2. ASSUME NEW c \in Calls, ToolStep(c)
      PROVE  LinesAtTheEnd'
  <2>1. /\ pc[c] # "done" /\ route[c] = "tool"
        /\ pc'[c] = "returning" => outcome'[c] \in {"ok", "error"}
    BY <1>2 DEF ToolStep, ToolAnswered, ToolReturns, ToolFails, Goto, Leave, TypeOK
  <2>2. /\ \A d \in Calls \ {c} : pc'[d] = pc[d] /\ outcome'[d] = outcome[d]
        /\ UNCHANGED <<route, audit, expired, caller>>
    BY <1>2 DEF ToolStep, ToolAnswered, ToolReturns, ToolFails, Goto, Leave, TypeOK
  <2>3. audit[c] = <<>>
    BY <2>1 DEF LinesAtTheEnd
  <2> QED BY <2>1, <2>2, <2>3 DEF LinesAtTheEnd
<1>3. ASSUME NEW c \in Calls, Audit(c)
      PROVE  LinesAtTheEnd'
  <2>1. audit[c] = <<>> /\ route[c] = "tool" /\ outcome[c] \in {"ok", "error"}
    BY <1>3 DEF Audit, LinesAtTheEnd
  <2>2. /\ audit'[c] = Append(<<>>, IF Credential(c) THEN c ELSE "nobody")
        /\ \A d \in Calls \ {c} : audit'[d] = audit[d] /\ pc'[d] = pc[d]
        /\ pc'[c] = "done" /\ UNCHANGED <<route, outcome, expired, caller>>
    BY <1>3, <2>1 DEF Audit, Goto, TypeOK
  <2>3. \/ audit'[c] = <<c>>
        \/ audit'[c] = <<"nobody">> /\ (expired[c] \/ caller[c] = "gone")
    <3>1. CASE Credential(c)
      BY <2>2, <3>1
    <3>2. CASE ~Credential(c)
      BY <2>2, <3>2 DEF Credential, TypeOK
    <3> QED BY <3>1, <3>2
  <2> QED BY <2>1, <2>2, <2>3 DEF LinesAtTheEnd
<1>4. ASSUME NEW c \in Calls, Expire(c) \/ CallerLeaves(c)
      PROVE  LinesAtTheEnd'
  <2>1. UNCHANGED <<pc, route, outcome, audit>>
    BY <1>4 DEF Expire, CallerLeaves
  <2>2. \A d \in Calls : /\ expired[d] => expired'[d]
                         /\ caller[d] = "gone" => caller'[d] = "gone"
    BY <1>4 DEF Expire, CallerLeaves, TypeOK
  <2> QED BY <2>1, <2>2 DEF LinesAtTheEnd
<1>5. CASE UNCHANGED vars
  BY <1>5 DEF vars, LinesAtTheEnd
<1> QED BY <1>1, <1>2, <1>3, <1>4, <1>5 DEF Next, CallStep

LEMMA AskedStep ==
    ASSUME TypeOK, AskedIsSent, [Next]_vars
    PROVE  AskedIsSent'
<1>1. ASSUME NEW c \in Calls, Send(c)
      PROVE  AskedIsSent'
  <2> DEFINE request == [by |-> c, token |-> c, to |-> header[c], late |-> expired[c]]
  <2>1. sent \subseteq sent' /\ request \in sent' /\ request.by = c /\ request.token = c
    BY <1>1 DEF Send
  <2> HIDE DEF request
  <2>2. \A d \in Calls \ {c} : pc'[d] = pc[d]
    BY <1>1 DEF Send, Goto, TypeOK
  <2> QED BY <2>1, <2>2 DEF AskedIsSent
<1>2. ASSUME NEW c \in Calls, MiddlewareStep(c) \/ Select(c) \/ ToolStep(c) \/ WhoAmIStep(c)
      PROVE  AskedIsSent'
  <2>1. /\ sent' = sent
        /\ \A d \in Calls \ {c} : pc'[d] = pc[d]
        /\ pc'[c] \in {"asking", "confirming"} => pc[c] = "asking"
    BY <1>2 DEF MiddlewareStep, ToolStep, WhoAmIStep, Check, Verify, Unauthorized, Unavailable,
       Select, ToolAnswered, ToolReturns, ToolFails, WhoAmIRefused, Confirmed, NotConfirmed,
       WhoAmIFails, Confirm, Goto, Leave, TypeOK
  <2> QED BY <2>1 DEF AskedIsSent
<1>3. ASSUME NEW c \in Calls, Audit(c) \/ Expire(c) \/ CallerLeaves(c)
      PROVE  AskedIsSent'
  BY <1>3 DEF Audit, Expire, CallerLeaves, Goto, TypeOK, AskedIsSent
<1>4. CASE UNCHANGED vars
  BY <1>4 DEF vars, AskedIsSent
<1> QED BY <1>1, <1>2, <1>3, <1>4 DEF Next, CallStep

\* Only the last check of the bridge answers a whoami "ok".
LEMMA OkOfWhoAmI ==
    ASSUME TypeOK, [Next]_vars, NEW c \in Calls,
           route[c] = "whoami", outcome[c] = "none", outcome'[c] = "ok"
    PROVE  pc[c] = "confirming" /\ ~expired[c]
<1>1. ASSUME NEW d \in Calls, CallStep(d), d # c
      PROVE  outcome'[c] = outcome[c]
  BY <1>1 DEF CallStep, MiddlewareStep, ToolStep, WhoAmIStep, Check, Verify, Unauthorized,
     Unavailable, Select, Send, ToolAnswered, ToolReturns, ToolFails, WhoAmIRefused, Confirmed,
     NotConfirmed, WhoAmIFails, Confirm, Audit, Goto, Leave, TypeOK
<1>2. ASSUME NEW d \in Calls, Expire(d) \/ CallerLeaves(d)
      PROVE  outcome'[c] = outcome[c]
  BY <1>2 DEF Expire, CallerLeaves
<1>3. CASE UNCHANGED vars
  BY <1>3 DEF vars
<1>4. CASE CallStep(c)
  BY <1>4 DEF CallStep, MiddlewareStep, ToolStep, WhoAmIStep, Check, Verify, Unauthorized,
     Unavailable, Select, Send, ToolAnswered, ToolReturns, ToolFails, WhoAmIRefused, Confirmed,
     NotConfirmed, WhoAmIFails, Confirm, Credential, Audit, Goto, Leave, TypeOK
<1> QED BY <1>1, <1>2, <1>3, <1>4 DEF Next

LEMMA LinesAreNamed == LinesAtTheEnd => LinesNameTheirCaller
<1> SUFFICES ASSUME LinesAtTheEnd, NEW c \in Calls
             PROVE  /\ Len(audit[c]) <= 1
                    /\ audit[c] # <<>> =>
                          /\ route[c] = "tool" /\ outcome[c] \in {"ok", "error"}
                          /\ audit[c][1] \in {c, "nobody"}
                          /\ audit[c][1] = "nobody" => expired[c] \/ caller[c] = "gone"
  BY DEF LinesNameTheirCaller
<1>1. CASE audit[c] = <<>>
  BY <1>1
<1>2. CASE audit[c] = <<c>>
  <2>1. audit[c][1] = c /\ Len(audit[c]) = 1
    BY <1>2
  <2>2. c # "nobody"
    BY CallsAssumption
  <2>3. audit[c] # <<>>
    BY <1>2
  <2> QED BY <2>1, <2>2, <2>3 DEF LinesAtTheEnd
<1>3. CASE audit[c] = <<"nobody">> /\ (expired[c] \/ caller[c] = "gone")
  <2>1. audit[c][1] = "nobody" /\ Len(audit[c]) = 1
    BY <1>3
  <2>2. audit[c] # <<>>
    BY <1>3
  <2> QED BY <1>3, <2>1, <2>2 DEF LinesAtTheEnd
<1> QED BY <1>1, <1>2, <1>3 DEF LinesAtTheEnd

LEMMA CallInit == Init => CallInv
<1> SUFFICES ASSUME Init PROVE CallInv
  OBVIOUS
<1>1. TypeOK
  <2>1. audit \in [Calls -> Seq(Calls \cup {"nobody"})]
    BY DEF Init
  <2>2. requests \in [Calls -> 0 .. MaxRequests]
    BY RequestsAssumption DEF Init
  <2> QED BY <2>1, <2>2 DEF Init, TypeOK, Places, Outcomes
<1>2. Verified
  BY DEF Init, Verified, Inside
<1>3. TokensStayWithTheirCall
  BY DEF Init, TokensStayWithTheirCall
<1>4. LinesAtTheEnd
  BY DEF Init, LinesAtTheEnd
<1>5. AskedIsSent
  BY DEF Init, AskedIsSent
<1> QED BY <1>1, <1>2, <1>3, <1>4, <1>5 DEF CallInv

LEMMA CallInvStep == CallInv /\ [Next]_vars => CallInv'
  BY TypeStep, VerifiedStep, TokensStep, LinesStep, AskedStep DEF CallInv

\* The type invariant, for any calls, clusters, providers and requests.
THEOREM Typed == Spec => []TypeOK
<1>1. CallInv => TypeOK
  BY DEF CallInv
<1> QED BY <1>1, CallInit, CallInvStep, PTL DEF Spec

\* Whatever the calls under way at once, a daemon receives the token of the
\* call that asks it, verified for its cluster, before it expired.
THEOREM TokensAreNotMixed == Spec => []TokensStayWithTheirCall
<1>1. CallInv => TokensStayWithTheirCall
  BY DEF CallInv
<1> QED BY <1>1, CallInit, CallInvStep, PTL DEF Spec

\* No audit line names another user, nor no one while the credential is there.
THEOREM LinesAreTrue == Spec => []LinesNameTheirCaller
<1>1. CallInv => LinesNameTheirCaller
  BY LinesAreNamed DEF CallInv
<1> QED BY <1>1, CallInit, CallInvStep, PTL DEF Spec

\* For any calls at once: the bridge answers that an identity is confirmed only
\* as the token has not expired, its own having been sent to a daemon
\* (serveWhoAmI).
THEOREM VouchesAreLive == Spec => WhoAmIVouchesLive
<1>1. CallInv /\ [Next]_vars =>
        [\A c \in Calls :
            route[c] = "whoami" /\ outcome[c] = "none" /\ outcome'[c] = "ok" =>
                /\ ~expired[c]
                /\ \E s \in sent : s.by = c /\ s.token = c]_vars
  BY OkOfWhoAmI DEF CallInv, AskedIsSent
<1> QED BY <1>1, CallInit, CallInvStep, PTL DEF Spec, WhoAmIVouchesLive
=============================================================================
