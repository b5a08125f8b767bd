----------------------------- MODULE Delegation -----------------------------
(***************************************************************************)
(* The calls on the delegated Unix socket.  Each carries the OpenID token  *)
(* of a user and the ID of a cluster.  The middleware verifies the token   *)
(* with the provider of that cluster, then the handler, a tool or the      *)
(* whoami bridge, sends daemon requests with that token, to that cluster,  *)
(* as long as the token has not expired and the caller is there.  The      *)
(* calls share the clients of the clusters, and no credential.             *)
(* A token is named by the call that carries it.                           *)
(***************************************************************************)
EXTENDS Naturals, Sequences

CONSTANTS
    Calls,        \* the calls, each with its token
    Clusters,     \* the clusters of the catalogue
    Providers,    \* the OpenID providers, with the audience they sign for
    ProviderOf,   \* ProviderOf[k]: the provider the catalogue names for k
    MaxRequests   \* bound: the daemon requests of one call

ASSUME CallsAssumption == "nobody" \notin Calls
ASSUME ProviderAssumption == ProviderOf \in [Clusters -> Providers]
ASSUME RequestsAssumption == MaxRequests \in Nat \ {0}

VARIABLES
    route,      \* route[c]: what is called
    signer,     \* signer[c]: the provider that signed the token of c
    header,     \* header[c]: the cluster named by the header of c
    expired,    \* expired[c]: whether the token of c expired
    caller,     \* caller[c]: whether the caller of c is connected
    pc,         \* pc[c]: where the call is
    requests,   \* requests[c]: the daemon requests of c so far
    outcome,    \* outcome[c]: what the caller is answered
    audit,      \* audit[c]: the identities on the audit lines of c
    sent        \* history: the tokens the daemons received

vars == <<route, signer, header, expired, caller, pc, requests, outcome, audit, sent>>

Places == {"start", "verifying", "handling", "selected", "asking", "confirming",
           "returning", "done"}
Outcomes == {"none", "unauthorized", "unavailable", "ok", "error", "expired",
             "bad_request", "mismatch", "daemon_refused", "daemon_failed"}

TypeOK ==
    /\ route \in [Calls -> {"tool", "whoami"}]
    /\ signer \in [Calls -> Providers \cup {"nobody"}]
    /\ header \in [Calls -> Clusters \cup {"unknown"}]
    /\ expired \in [Calls -> BOOLEAN]
    /\ caller \in [Calls -> {"there", "gone"}]
    /\ pc \in [Calls -> Places]
    /\ requests \in [Calls -> 0 .. MaxRequests]
    /\ outcome \in [Calls -> Outcomes]
    /\ audit \in [Calls -> Seq(Calls \cup {"nobody"})]
    /\ sent \in SUBSET [by : Calls, token : Calls, to : Clusters, late : BOOLEAN]

Init ==
    /\ route \in [Calls -> {"tool", "whoami"}]
    /\ signer \in [Calls -> Providers \cup {"nobody"}]
    /\ header \in [Calls -> Clusters \cup {"unknown"}]
    /\ expired \in [Calls -> BOOLEAN]
    /\ caller = [c \in Calls |-> "there"]
    /\ pc = [c \in Calls |-> "start"]
    /\ requests = [c \in Calls |-> 0]
    /\ outcome = [c \in Calls |-> "none"]
    /\ audit = [c \in Calls |-> <<>>]
    /\ sent = {}

Goto(c, place) == pc' = [pc EXCEPT ![c] = place]

\* The call leaves its handler, or its middleware.
Leave(c, place, answer) ==
    /\ Goto(c, place)
    /\ outcome' = [outcome EXCEPT ![c] = answer]

\* DelegationFromContext: the deadline of the context is the expiry of the
\* token, and the caller that leaves cancels it.
Credential(c) == ~expired[c] /\ caller[c] = "there"

-----------------------------------------------------------------------------
(* Bugs the actions below could have, for mutation runs.                    *)

\* The clients keep the credential of the last call they served.
SendShared(c) ==
    /\ pc[c] = "selected"
    /\ Credential(c)
    /\ \E d \in Calls :
          /\ pc[d] \notin {"start", "verifying"}
          /\ sent' = sent \cup {[by |-> c, token |-> d, to |-> header[c], late |-> FALSE]}
    /\ requests' = [requests EXCEPT ![c] = @ + 1]
    /\ Goto(c, "asking")
    /\ UNCHANGED <<route, signer, header, expired, caller, outcome, audit>>

\* The daemon answer is relayed without checking the token again.
ConfirmStale(c) ==
    /\ pc[c] = "confirming"
    /\ Leave(c, "done", "ok")
    /\ UNCHANGED <<route, signer, header, expired, caller, requests, audit, sent>>

\* A call with no credential left at its end is not audited.
AuditDelegatedOnly(c) ==
    /\ pc[c] = "returning"
    /\ audit' = IF Credential(c) THEN [audit EXCEPT ![c] = Append(@, c)] ELSE audit
    /\ Goto(c, "done")
    /\ UNCHANGED <<route, signer, header, expired, caller, requests, outcome, sent>>

\* The identity is left out of the line of a call that ended in error.
AuditAnonymousError(c) ==
    /\ pc[c] = "returning"
    /\ audit' = [audit EXCEPT ![c] = Append(@, IF outcome[c] = "ok" /\ Credential(c)
                                               THEN c ELSE "nobody")]
    /\ Goto(c, "done")
    /\ UNCHANGED <<route, signer, header, expired, caller, requests, outcome, sent>>

\* A daemon that authenticated another way gets an outcome that no reader of
\* the audit lines knows.
NotConfirmedOther(c) ==
    /\ pc[c] = "asking"
    /\ route[c] = "whoami"
    /\ Leave(c, "done", "method_mismatch")
    /\ UNCHANGED <<route, signer, header, expired, caller, requests, audit, sent>>

-----------------------------------------------------------------------------
(* The middleware.                                                         *)

\* Check: the headers and the claims read unverified.
Check(c) ==
    /\ pc[c] = "start"
    /\ header[c] \in Clusters
    /\ ~expired[c]
    /\ Goto(c, "verifying")
    /\ UNCHANGED <<route, signer, header, expired, caller, requests, outcome, audit, sent>>

\* verify: the token is signed by the provider of the cluster, and its lifetime
\* is looked at again.
Verify(c) ==
    /\ pc[c] = "verifying"
    /\ signer[c] = ProviderOf[header[c]]
    /\ ~expired[c]
    /\ Goto(c, "handling")
    /\ UNCHANGED <<route, signer, header, expired, caller, requests, outcome, audit, sent>>

Unauthorized(c) ==
    /\ \/ pc[c] = "start"
       \/ pc[c] = "verifying" /\ (signer[c] # ProviderOf[header[c]] \/ expired[c])
    /\ Leave(c, "done", "unauthorized")
    /\ UNCHANGED <<route, signer, header, expired, caller, requests, audit, sent>>

\* The keys of the provider cannot be loaded.
Unavailable(c) ==
    /\ pc[c] = "verifying"
    /\ Leave(c, "done", "unavailable")
    /\ UNCHANGED <<route, signer, header, expired, caller, requests, audit, sent>>

-----------------------------------------------------------------------------
(* The daemon requests of a handler.                                       *)

\* The client of the cluster is selected, with the credential still there.
\* The bridge asks the daemon once, a tool as often as it needs.
Select(c) ==
    /\ pc[c] = "handling"
    /\ requests[c] < IF route[c] = "whoami" THEN 1 ELSE MaxRequests
    /\ Credential(c)
    /\ Goto(c, "selected")
    /\ UNCHANGED <<route, signer, header, expired, caller, requests, outcome, audit, sent>>

\* RoundTrip reads the credential again, and sends it.
Send(c) ==
    /\ pc[c] = "selected"
    /\ Credential(c)
    /\ sent' = sent \cup {[by |-> c, token |-> c, to |-> header[c], late |-> expired[c]]}
    /\ requests' = [requests EXCEPT ![c] = @ + 1]
    /\ Goto(c, "asking")
    /\ UNCHANGED <<route, signer, header, expired, caller, outcome, audit>>

\* The daemon answers a tool, which goes on or returns.
ToolAnswered(c) ==
    /\ pc[c] = "asking"
    /\ route[c] = "tool"
    /\ Goto(c, "handling")
    /\ UNCHANGED <<route, signer, header, expired, caller, requests, outcome, audit, sent>>

ToolReturns(c) ==
    /\ pc[c] = "handling"
    /\ route[c] = "tool"
    /\ \E answer \in {"ok", "error"} : Leave(c, "returning", answer)
    /\ UNCHANGED <<route, signer, header, expired, caller, requests, audit, sent>>

\* The credential is gone, or the request fails: an error of the tool.
ToolFails(c) ==
    /\ route[c] = "tool"
    /\ \/ pc[c] \in {"handling", "selected"} /\ ~Credential(c)
       \/ pc[c] = "asking"
    /\ Leave(c, "returning", "error")
    /\ UNCHANGED <<route, signer, header, expired, caller, requests, audit, sent>>

-----------------------------------------------------------------------------
(* The whoami bridge.                                                      *)

\* A query or a body is refused, before the daemon is asked.
WhoAmIRefused(c) ==
    /\ pc[c] = "handling"
    /\ route[c] = "whoami"
    /\ Leave(c, "done", IF Credential(c) THEN "bad_request" ELSE "expired")
    /\ UNCHANGED <<route, signer, header, expired, caller, requests, audit, sent>>

\* The daemon authenticated the token as the user its claims name.
Confirmed(c) ==
    /\ pc[c] = "asking"
    /\ route[c] = "whoami"
    /\ Goto(c, "confirming")
    /\ UNCHANGED <<route, signer, header, expired, caller, requests, outcome, audit, sent>>

NotConfirmed(c) ==
    /\ pc[c] = "asking"
    /\ route[c] = "whoami"
    /\ Leave(c, "done", "mismatch")
    /\ UNCHANGED <<route, signer, header, expired, caller, requests, audit, sent>>

\* The request failed: a token that expired meanwhile is the cause given.
WhoAmIFails(c) ==
    /\ pc[c] \in {"selected", "asking"}
    /\ route[c] = "whoami"
    /\ pc[c] = "selected" => ~Credential(c)
    /\ \E failure \in IF pc[c] = "asking" THEN {"daemon_refused", "daemon_failed"}
                      ELSE {"daemon_failed"} :
          Leave(c, "done", IF expired[c] THEN "expired" ELSE failure)
    /\ UNCHANGED <<route, signer, header, expired, caller, requests, audit, sent>>

\* The credential is read once more before the identity is given.
Confirm(c) ==
    /\ pc[c] = "confirming"
    /\ Leave(c, "done", IF Credential(c) THEN "ok" ELSE "expired")
    /\ UNCHANGED <<route, signer, header, expired, caller, requests, audit, sent>>

-----------------------------------------------------------------------------
\* The audit line of a tool call, written once the tool returned.  The
\* identity is read then, from the context.
Audit(c) ==
    /\ pc[c] = "returning"
    /\ audit' = [audit EXCEPT ![c] = Append(@, IF Credential(c) THEN c ELSE "nobody")]
    /\ Goto(c, "done")
    /\ UNCHANGED <<route, signer, header, expired, caller, requests, outcome, sent>>

Expire(c) ==
    /\ ~expired[c]
    /\ pc[c] # "done"
    /\ expired' = [expired EXCEPT ![c] = TRUE]
    /\ UNCHANGED <<route, signer, header, caller, pc, requests, outcome, audit, sent>>

CallerLeaves(c) ==
    /\ caller[c] = "there"
    /\ pc[c] \notin {"start", "done"}
    /\ caller' = [caller EXCEPT ![c] = "gone"]
    /\ UNCHANGED <<route, signer, header, expired, pc, requests, outcome, audit, sent>>

MiddlewareStep(c) == Check(c) \/ Verify(c) \/ Unauthorized(c) \/ Unavailable(c)
ToolStep(c) == ToolAnswered(c) \/ ToolReturns(c) \/ ToolFails(c)
WhoAmIStep(c) ==
    WhoAmIRefused(c) \/ Confirmed(c) \/ NotConfirmed(c) \/ WhoAmIFails(c) \/ Confirm(c)

CallStep(c) ==
    MiddlewareStep(c) \/ Select(c) \/ Send(c) \/ ToolStep(c) \/ WhoAmIStep(c) \/ Audit(c)

Next == \E c \in Calls : CallStep(c) \/ Expire(c) \/ CallerLeaves(c)

\* Each request has the timeout of its cluster; a tool makes finitely many.
Spec == Init /\ [][Next]_vars /\ \A c \in Calls : WF_vars(CallStep(c))
-----------------------------------------------------------------------------
(* Properties.                                                             *)

\* A daemon receives no token but that of the call that asks it, verified with
\* the provider of that very cluster, and none after its expiry (Middleware,
\* DelegatedClient.selected, delegatedTransport.RoundTrip).
TokensStayWithTheirCall ==
    \A s \in sent :
        /\ s.token = s.by
        /\ s.to = header[s.by]
        /\ signer[s.token] = ProviderOf[s.to]
        /\ ~s.late

\* The bridge vouches for an identity only when the daemon was asked with that
\* token and the token is still valid as it answers (serveWhoAmI).
WhoAmIVouchesLive ==
    [][\A c \in Calls :
          route[c] = "whoami" /\ outcome[c] = "none" /\ outcome'[c] = "ok" =>
              /\ ~expired[c]
              /\ \E s \in sent : s.by = c /\ s.token = c]_vars

\* A line names nobody but the user of its call, and names no one only when
\* the credential was lost during the call; a call refused by the middleware,
\* or of the bridge, leaves none (auditToolCalls).
LinesNameTheirCaller ==
    \A c \in Calls :
        /\ Len(audit[c]) <= 1
        /\ audit[c] # <<>> =>
              /\ route[c] = "tool" /\ outcome[c] \in {"ok", "error"}
              /\ audit[c][1] \in {c, "nobody"}
              /\ audit[c][1] = "nobody" => expired[c] \/ caller[c] = "gone"

\* Every tool call that reached a tool leaves its line, however it ends.
EveryToolCallAudited ==
    \A c \in Calls :
        route[c] = "tool" /\ pc[c] = "handling" ~> Len(audit[c]) = 1

\* docs/delegation.md: each tool call emits the audit line with
\* exchange=delegated, its issuer and subject being the claims of the token.
LinesCarryTheIdentity ==
    \A c \in Calls : audit[c] # <<>> => audit[c][1] = c
=============================================================================
