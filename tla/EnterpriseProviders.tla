------------------------ MODULE EnterpriseProviders ------------------------
(***************************************************************************)
(* ProviderAbstractionService.invoke (packages/llm-gateway): the policy    *)
(* gate per kind of provider, and the adapter of local CLI providers, which *)
(* creates or resumes an invocation of the LocalAgentProtocol, awaits its  *)
(* dispatch and then completes it.  The invoke of a provider shares the    *)
(* protocol's state with every other caller.                               *)
(*                                                                         *)
(* calls[q].kind is "invoke" while the dispatch awaits the transport, and  *)
(* "complete" from the return of dispatchInvocation to the continuation.   *)
(***************************************************************************)
EXTENDS LocalAgentProtocol

P == INSTANCE Policy

VARIABLE answered    \* the invocations that an invoke has answered as completed

providerVars == <<vars, answered>>

ProviderKinds == {"cloud_api", "oauth_api", "workload_identity_api", "cloud_iam",
                  "local_cli", "pty_interactive_fallback"}

(* policyActionForProviderKind *)
PolicyActionForProviderKind(kind) ==
    CASE kind = "local_cli"                -> "provider.local_cli.invoke"
      [] kind = "pty_interactive_fallback" -> "provider.pty.invoke"
      [] kind = "cloud_api"                -> "provider.cloud_api.invoke"
      [] OTHER                             -> "provider.invoke"

PolicyAllows ==
    [kind \in ProviderKinds |->
        P!Allowed([P!Request(PolicyActionForProviderKind(kind), "llm_provider")
                     EXCEPT !.roles = {"system"}, !.provider = kind])]

(* The policy denies the kind, or its adapter answers without a call:      *)
(* createProviderAdapter has only the local CLI one that does anything.    *)
InertKinds == {kind \in ProviderKinds : ~PolicyAllows[kind] \/ kind # "local_cli"}

InvokeBlocked(q) ==
    /\ ~InFlight(q)
    /\ InertKinds # {}
    /\ UNCHANGED providerVars

-----------------------------------------------------------------------------
(* LocalCliProviderAdapter.invokeThroughProtocol                           *)

(* The agent asked for if it is connected, else findConnectedAgent: the    *)
(* first of the user's, else of anybody's, in the order of registration.   *)
Connected == {a \in Agents : registrations[a] = "connected"}

ChannelOf(a) ==
    GateChannels([agent |-> a, level |-> "read_only", admissible |-> TRUE, redaction |-> TRUE,
                  requireChannel |-> FALSE, channel |-> NoChannel])

LocalCli(q) == ~InFlight(q) /\ PolicyAllows["local_cli"]

(* No agent, or a fixture without an open channel *)
InvokeUnavailable(q) ==
    /\ LocalCli(q)
    /\ Connected = {} \/ \E a \in Connected \cap FixtureAgents : ChannelOf(a) = {}
    /\ UNCHANGED providerVars

(* checkCompatibility refuses the template of the provider: the fixture's  *)
(* last advertisement, which it may replace at any time, does not list it. *)
InvokeIncompatible(q) ==
    /\ LocalCli(q)
    /\ \E a \in Connected \cap FixtureAgents : ChannelOf(a) # {}
    /\ UNCHANGED providerVars

ReadyAgents == {a \in Connected : a \in FixtureAgents => ChannelOf(a) # {}}

(* The envelope that the adapter asks for.  It names the open channel.     *)
ProviderEnvelopes(a) ==
    {[agent |-> a, level |-> "read_only", admissible |-> TRUE, redaction |-> TRUE,
      requireChannel |-> a \in FixtureAgents, channel |-> c] :
        c \in IF ChannelOf(a) = {} THEN {NoChannel} ELSE ChannelOf(a)}

(* createInvocationEnvelope and the synchronous part of dispatchInvocation: *)
(* nobody has approved a new invocation, so it is never sent at once.      *)
InvokeNew(q, a) ==
    LET n        == Len(invocations) + 1
        Save(e, state) == invocations' = Append(invocations, [envelope |-> e, state |-> state])
    IN  /\ LocalCli(q)
        /\ a \in ReadyAgents
        /\ n <= MaxInvocations
        /\ streams' = Append(streams, "none")
        /\ \E e \in ProviderEnvelopes(a) :
              \/ /\ ~HasSession(a)
                 /\ Save(e, "local_agent_unavailable")
                 /\ sessions' = [s \in DOMAIN sessions |->
                       IF ActiveSessions(a) # {} /\ s = Max(ActiveSessions(a))
                         THEN [sessions[s] EXCEPT !.status = "expired"] ELSE sessions[s]]
                 /\ UNCHANGED consents
              \/ /\ HasSession(a)
                 /\ ~ChannelPasses(e)
                 /\ Save(e, "policy_blocked")
                 /\ UNCHANGED <<sessions, consents>>
              \/ /\ HasSession(a)
                 /\ ChannelPasses(e)
                 /\ Len(consents) < MaxConsents
                 /\ Save(e, "awaiting_consent")
                 /\ consents' = Append(consents, NewConsent(n))
                 /\ UNCHANGED sessions
        /\ UNCHANGED <<registrations, channels, calls, clock, answered>>

(* localAgentInvocationId: any invocation, of whatever agent and provider. *)
Resumes(q) == LocalCli(q) /\ ReadyAgents # {}

(* Its consent was denied, or it is over and dispatchInvocation throws.    *)
ResumeRefused(q, i) ==
    /\ Resumes(q)
    /\ ~Dispatchable(i)
    /\ UNCHANGED providerVars

(* dispatchInvocation ends before the transport. *)
ResumeUnavailable(q, i) == Resumes(q) /\ DispatchUnavailable(i) /\ UNCHANGED answered
ResumeBlocked(q, i)     == Resumes(q) /\ DispatchBlocked(i) /\ UNCHANGED answered

(* Consent is needed.  A request that is still undecided leaves the state  *)
(* as it is: an invocation that runs goes on to its completion.            *)
ResumeAsks(q, i) ==
    /\ Resumes(q)
    /\ Reachable(i) /\ ChannelPasses(Envelope(i)) /\ Admissible(Envelope(i)) /\ ~Approved(i)
    /\ RequestConsent(i)
    /\ \/ invocations'[i].state = "awaiting_consent" /\ UNCHANGED calls
       \/ invocations'[i].state # "awaiting_consent" /\ StartCall(q, "complete", i)
    /\ UNCHANGED <<registrations, sessions, channels, streams, clock, answered>>

(* Every gate passes; then the await of sendInvocation. *)
ResumeSends(q, i) ==
    /\ Resumes(q)
    /\ Reachable(i) /\ ChannelPasses(Envelope(i)) /\ Admissible(Envelope(i)) /\ Approved(i)
    /\ SetState(i, "dispatched")
    /\ EnsureStream(i)
    /\ StartCall(q, "invoke", i)
    /\ UNCHANGED <<registrations, sessions, channels, consents, clock, answered>>

(* The events that come with the result of a revoked agent are refused:    *)
(* dispatchInvocation then throws with the invocation running.             *)
InvokeReturns(q, result) ==
    LET i == calls[q].invocation
    IN  /\ calls[q].kind = "invoke"
        /\ \/ /\ result = "ok"
              /\ SetState(i, "running")
              /\ calls' = [calls EXCEPT ![q].kind = "complete"]
              /\ UNCHANGED streams
           \/ /\ result = "ok"
              /\ registrations[AgentOf(i)] = "revoked"
              /\ SetState(i, "running")
              /\ EndCall(q)
              /\ UNCHANGED streams
           \/ /\ result = "unavailable"
              /\ MarkUnavailable(i)
              /\ EndCall(q)
           \/ /\ result = "rejected"
              /\ EndCall(q)
              /\ UNCHANGED <<invocations, streams>>
        /\ UNCHANGED <<registrations, sessions, channels, consents, clock, answered>>

(* Mutant: the adapter answers without completing the invocation. *)
InvokeCompletesNothing(q) ==
    LET i == calls[q].invocation
    IN  /\ calls[q].kind = "complete"
        /\ answered' = answered \cup {i}
        /\ EndCall(q)
        /\ UNCHANGED <<invocations, streams, registrations, sessions, channels, consents, clock>>

(* completeInvocation with exit code 0.  It throws when the invocation was *)
(* ended between the return of dispatchInvocation and this continuation.   *)
InvokeCompletes(q) ==
    LET i == calls[q].invocation
    IN  /\ calls[q].kind = "complete"
        /\ \/ /\ invocations[i].state \in {"running", "dispatched"}
              /\ SetState(i, "completed")
              /\ CompleteStream(i, "completed")
              /\ answered' = answered \cup {i}
           \/ /\ invocations[i].state \notin {"running", "dispatched"}
              /\ UNCHANGED <<invocations, streams, answered>>
        /\ EndCall(q)
        /\ UNCHANGED <<registrations, sessions, channels, consents, clock>>

-----------------------------------------------------------------------------

ProviderInit == Init /\ answered = {}

InvokeStarts(q) ==
    \/ InvokeBlocked(q)
    \/ InvokeUnavailable(q)
    \/ InvokeIncompatible(q)
    \/ \E a \in Agents : InvokeNew(q, a)
    \/ \E i \in InvocationIds :
          \/ ResumeRefused(q, i)
          \/ ResumeUnavailable(q, i)
          \/ ResumeBlocked(q, i)
          \/ ResumeAsks(q, i)
          \/ ResumeSends(q, i)

InvokeContinues(q) == InvokeCompletes(q) \/ \E result \in TransportResults : InvokeReturns(q, result)

ProviderNext ==
    \/ Next /\ UNCHANGED answered
    \/ \E q \in Calls : InvokeStarts(q) \/ InvokeContinues(q)

ProviderSpec == ProviderInit /\ [][ProviderNext]_providerVars

-----------------------------------------------------------------------------
(* Properties                                                              *)

(* What a provider answers as completed was approved by the user, was sent *)
(* and has ended its stream, whoever else acts on the invocation while the *)
(* provider waits and afterwards.                                          *)
ResultsAreTrue ==
    \A i \in answered :
        /\ streams[i] \notin {"none", "streaming"}
        /\ \E k \in ConsentIds :
              /\ consents[k].invocation = i
              /\ \E d \in Range(consents[k].decisions) : d.value \in Approvals
=============================================================================
