------------------------- MODULE LocalAgentProtocol -------------------------
(***************************************************************************)
(* LocalAgentProtocolService (packages/llm-gateway): agents on users'      *)
(* machines with their sessions and channels, the consent a user gives to  *)
(* an invocation, and the invocations with their output streams.  A method *)
(* without an await is one action.  dispatchInvocation and cancelInvocation *)
(* await the transport and afterwards save a copy of the invocation they   *)
(* read before, so each is two actions with a call in flight between them, *)
(* for any implementation of LocalAgentTransport.  The default policy      *)
(* rules are part of the guards.                                           *)
(***************************************************************************)
EXTENDS Integers, Sequences, SequencesExt, FiniteSets, FiniteSetsExt

CONSTANTS
    Agents,
    FixtureAgents,   \* those started by startFixtureAgent
    Envelopes,       \* what createInvocationEnvelope is called with
    Calls,           \* slots for calls that await the transport
    TransportResults,  \* subset of {"ok", "unavailable", "rejected"}
    SessionTtl, HandshakeTtl, ConsentTtl,
    ChannelTtls,     \* lifetimes callers ask for
    MaxSessions, MaxChannels, MaxInvocations, MaxConsents, MaxDecisions, MaxClock

RegistrationStatuses == {"pending", "connected", "disconnected", "revoked", "unknown"}
SessionStatuses == {"active", "expired", "revoked", "disconnected"}
ChannelStatuses == {"pending", "established", "expired", "revoked", "disconnected"}
HandshakeStatuses == {"challenge_issued", "mock_verified", "failed"}
ConsentLevels == {"read_only", "workspace_write", "shell_execution",
                  "network_or_secret_access", "danger_full_access"}
Approvals == {"approved"}    \* approved_once and approved_for_session act alike
Decisions == Approvals \cup {"denied"}    \* and so do denied and expired
StreamStates == {"none", "streaming", "completed", "failed", "cancelled"}

(* isTerminalState *)
TerminalStates == {"completed", "failed", "cancelled", "timed_out", "consent_denied",
                   "policy_blocked", "local_agent_unavailable"}
InvocationStates == TerminalStates \cup {"requested", "awaiting_consent", "dispatched", "running"}

NoChannel == 0

(* admissible stands for the envelope's other references: its signature,   *)
(* secret scopes, sandbox profile and compatibility result.                *)
EnvelopeType ==
    [agent : Agents, level : ConsentLevels, admissible : BOOLEAN, redaction : BOOLEAN,
     requireChannel : BOOLEAN, channel : 0..MaxChannels]

ASSUME ProtocolAssumption ==
    /\ FixtureAgents \subseteq Agents
    /\ Envelopes \subseteq EnvelopeType
    /\ TransportResults \subseteq {"ok", "unavailable", "rejected"}
    /\ {SessionTtl, HandshakeTtl, ConsentTtl} \cup ChannelTtls \subseteq Nat
    /\ {MaxSessions, MaxChannels, MaxInvocations, MaxConsents, MaxDecisions, MaxClock}
          \subseteq Nat

VARIABLES
    registrations,  \* status of each agent, "absent" before registerAgent
    sessions,       \* in the order they were issued; the position is the id
    channels,       \* each with its one handshake
    invocations,    \* with their envelopes
    streams,        \* the stream of each invocation
    consents,       \* consent requests, each with its decisions in sort order
    calls,          \* calls awaiting the transport
    clock

vars == <<registrations, sessions, channels, invocations, streams, consents, calls, clock>>

InvocationIds == DOMAIN invocations
ConsentIds == DOMAIN consents
Envelope(i) == invocations[i].envelope
AgentOf(i) == Envelope(i).agent

(* isExpired: expiresAt <= now *)
IsExpired(from, ttl) == from + ttl <= clock

(***************************************************************************)
(* Agents and their sessions                                               *)
(***************************************************************************)

ActiveSessions(a) == {s \in DOMAIN sessions : sessions[s].agent = a /\ sessions[s].status = "active"}

NewSession(a) == [agent |-> a, status |-> "active", issuedAt |-> clock]

EndSessions(a, status) ==
    sessions' = [s \in DOMAIN sessions |->
                    IF s \in ActiveSessions(a) THEN [sessions[s] EXCEPT !.status = status]
                                               ELSE sessions[s]]

RegisterAgent(a, status) ==
    /\ registrations[a] = "absent"
    /\ a \in FixtureAgents => status = "connected"
    /\ registrations' = [registrations EXCEPT ![a] = status]
    /\ \/ /\ status = "connected"
          /\ Len(sessions) < MaxSessions
          /\ sessions' = Append(sessions, NewSession(a))
       \/ status # "connected" /\ UNCHANGED sessions
    /\ UNCHANGED <<channels, invocations, streams, consents, calls, clock>>

(* Mutant: a session is issued on every heartbeat. *)
HeartbeatAlwaysIssues(a) ==
    /\ registrations[a] \notin {"absent", "revoked"}
    /\ registrations' = [registrations EXCEPT ![a] = "connected"]
    /\ Len(sessions) < MaxSessions
    /\ sessions' = Append(sessions, NewSession(a))
    /\ UNCHANGED <<channels, invocations, streams, consents, calls, clock>>

(* heartbeat and reconnectAgent.  A session that is past its lifetime but  *)
(* still marked active is not replaced.                                    *)
Heartbeat(a) ==
    /\ registrations[a] \notin {"absent", "revoked"}
    /\ registrations' = [registrations EXCEPT ![a] = "connected"]
    /\ \/ /\ ActiveSessions(a) = {}
          /\ Len(sessions) < MaxSessions
          /\ sessions' = Append(sessions, NewSession(a))
       \/ ActiveSessions(a) # {} /\ UNCHANGED sessions
    /\ UNCHANGED <<channels, invocations, streams, consents, calls, clock>>

EndChannels(a, from, status) ==
    channels' = [c \in DOMAIN channels |->
                    IF channels[c].agent = a /\ channels[c].status \in from
                      THEN [channels[c] EXCEPT !.status = status] ELSE channels[c]]

(* Running invocations go on; only their events are refused later. *)
RevokeAgent(a) ==
    /\ registrations[a] # "absent"
    /\ registrations' = [registrations EXCEPT ![a] = "revoked"]
    /\ EndSessions(a, "revoked")
    /\ EndChannels(a, {"established", "pending"}, "revoked")
    /\ UNCHANGED <<invocations, streams, consents, calls, clock>>

(* disconnectAgent and stopFixtureAgent, of an agent in any status: what   *)
(* is dispatched or running fails (failInvocationForDisconnect).           *)
DisconnectAgent(a) ==
    LET lost == {i \in InvocationIds : /\ AgentOf(i) = a
                                       /\ invocations[i].state \in {"running", "dispatched"}}
    IN  /\ registrations[a] # "absent"
        /\ registrations' = [registrations EXCEPT ![a] = "disconnected"]
        /\ EndSessions(a, "disconnected")
        /\ EndChannels(a, {"established"}, "disconnected")
        /\ invocations' = [i \in InvocationIds |->
              IF i \in lost THEN [invocations[i] EXCEPT !.state = "failed"] ELSE invocations[i]]
        /\ streams' = [i \in InvocationIds |->
              IF i \in lost /\ streams[i] = "streaming" THEN "failed" ELSE streams[i]]
        /\ UNCHANGED <<consents, calls, clock>>

(***************************************************************************)
(* Channels.  Only mock_in_memory channels are created.                    *)
(***************************************************************************)

(* createChannel, of an agent in any status *)
CreateChannel(a, ttl) ==
    /\ registrations[a] # "absent"
    /\ Len(channels) < MaxChannels
    /\ channels' = Append(channels,
          [agent |-> a, status |-> "pending", handshake |-> "challenge_issued",
           createdAt |-> clock, ttl |-> ttl])
    /\ UNCHANGED <<registrations, sessions, invocations, streams, consents, calls, clock>>

(* verifyHandshake, of a channel in any status.  A wrong response leaves   *)
(* the status as it is.                                                    *)
VerifyHandshake(c, valid) ==
    LET old     == channels[c]
        expired == IsExpired(old.createdAt, HandshakeTtl) \/ IsExpired(old.createdAt, old.ttl)
    IN  /\ channels' = [channels EXCEPT ![c] =
              IF expired THEN [old EXCEPT !.status = "expired", !.handshake = "failed"]
              ELSE IF ~valid THEN [old EXCEPT !.handshake = "failed"]
              ELSE [old EXCEPT !.status = "established", !.handshake = "mock_verified"]]
        /\ UNCHANGED <<registrations, sessions, invocations, streams, consents, calls, clock>>

RevokeChannel(c) ==
    /\ channels' = [channels EXCEPT ![c].status = "revoked"]
    /\ UNCHANGED <<registrations, sessions, invocations, streams, consents, calls, clock>>

DisconnectChannel(c) ==
    /\ channels' = [channels EXCEPT ![c].status = "disconnected"]
    /\ UNCHANGED <<registrations, sessions, invocations, streams, consents, calls, clock>>

(***************************************************************************)
(* Invocations and consent                                                 *)
(***************************************************************************)

SetState(i, state) == invocations' = [invocations EXCEPT ![i].state = state]

(* completeStream: a stream that has ended, or never began, is left alone  *)
CompleteStream(i, state) ==
    streams' = [streams EXCEPT ![i] = IF @ = "streaming" THEN state ELSE @]

(* ensureInvocationStream *)
EnsureStream(i) == streams' = [streams EXCEPT ![i] = IF @ = "none" THEN "streaming" ELSE @]

PendingConsents(i) == {k \in ConsentIds : consents[k].invocation = i /\ consents[k].decisions = <<>>}

NewConsent(i) == [invocation |-> i, requestedAt |-> clock, decisions |-> <<>>]

(* requestConsent, for a level other than danger_full_access *)
RequestConsent(i) ==
    \/ PendingConsents(i) # {} /\ UNCHANGED <<consents, invocations>>
    \/ /\ PendingConsents(i) = {}
       /\ Len(consents) < MaxConsents
       /\ consents' = Append(consents, NewConsent(i))
       /\ SetState(i, "awaiting_consent")

(* POST /local-agents/invocations: createInvocationEnvelope and, unless    *)
(* the caller declines, requestConsent, which throws for an agent that is  *)
(* not registered and blocks danger_full_access.                           *)
CreateInvocation(e, ask) ==
    LET asked == ask /\ registrations[e.agent] # "absent"
        state == IF ~asked THEN "requested"
                 ELSE IF e.level = "danger_full_access" THEN "policy_blocked"
                 ELSE "awaiting_consent"
    IN  /\ Len(invocations) < MaxInvocations
        /\ invocations' = Append(invocations, [envelope |-> e, state |-> state])
        /\ streams' = Append(streams, "none")
        /\ \/ /\ state = "awaiting_consent"
              /\ Len(consents) < MaxConsents
              /\ consents' = Append(consents, NewConsent(Len(invocations) + 1))
           \/ state # "awaiting_consent" /\ UNCHANGED consents
        /\ UNCHANGED <<registrations, sessions, channels, calls, clock>>

(* recordConsentDecision.  A request may be decided again, whatever has    *)
(* become of its invocation, and the decision then sets the invocation's   *)
(* state.  Decisions are sorted by time and random id.                     *)
RecordConsentDecision(k, value) ==
    LET decision == [value |-> IF IsExpired(consents[k].requestedAt, ConsentTtl)
                                 THEN "denied" ELSE value,
                     at    |-> clock]
        made     == consents[k].decisions
    IN  /\ Len(made) < MaxDecisions
        /\ \E p \in 1..Len(made) + 1 :
              /\ \A j \in p..Len(made) : made[j].at = clock
              /\ consents' = [consents EXCEPT ![k].decisions = InsertAt(@, p, decision)]
        /\ SetState(consents[k].invocation,
                    IF decision.value \in Approvals THEN "awaiting_consent" ELSE "consent_denied")
        /\ UNCHANGED <<registrations, sessions, channels, streams, calls, clock>>

(* getApprovedConsent.  The session that approved_for_session asks for has *)
(* been checked in the same segment.                                       *)
UsableConsent(i, k) ==
    /\ consents[k].invocation = i
    /\ consents[k].decisions # <<>>
    /\ Last(consents[k].decisions).value \in Approvals
    /\ ~IsExpired(consents[k].requestedAt, ConsentTtl)

Approved(i) == \E k \in ConsentIds : UsableConsent(i, k)

(***************************************************************************)
(* dispatchInvocation                                                      *)
(***************************************************************************)

(* assertDispatchable *)
Dispatchable(i) == invocations[i].state \notin TerminalStates

(* getActiveSession *)
SessionExpired(a) == IsExpired(sessions[Max(ActiveSessions(a))].issuedAt, SessionTtl)
HasSession(a) == ActiveSessions(a) # {} /\ ~SessionExpired(a)

(* markUnavailable *)
MarkUnavailable(i) ==
    /\ SetState(i, "local_agent_unavailable")
    /\ CompleteStream(i, "failed")

(* markPolicyBlocked *)
MarkPolicyBlocked(i) ==
    /\ SetState(i, "policy_blocked")
    /\ CompleteStream(i, "failed")

ChannelRequired(e) == e.requireChannel \/ e.channel # NoChannel \/ e.agent \in FixtureAgents

(* The named channel, or getActiveChannel: the newest of the established   *)
(* ones; two of the same millisecond are ordered by random ids.            *)
GateChannels(e) ==
    LET open == {c \in DOMAIN channels : /\ channels[c].agent = e.agent
                                         /\ channels[c].status = "established"
                                         /\ ~IsExpired(channels[c].createdAt, channels[c].ttl)}
    IN  IF e.channel # NoChannel THEN {e.channel} \cap DOMAIN channels
        ELSE {c \in open : \A d \in open : channels[d].createdAt <= channels[c].createdAt}

(* Mutant: any channel of the agent that is not closed will do. *)
VerifiedOrPending(e, c) ==
    /\ channels[c].agent = e.agent
    /\ channels[c].status \in {"pending", "established"}

Verified(e, c) ==
    /\ channels[c].agent = e.agent
    /\ channels[c].status = "established"
    /\ channels[c].handshake = "mock_verified"

ChannelPasses(e) ==
    \/ ~ChannelRequired(e)
    \/ \E c \in GateChannels(e) :
          Verified(e, c) /\ ~IsExpired(channels[c].createdAt, channels[c].ttl)

(* evaluateChannelGate refuses; a verified channel past its lifetime is    *)
(* marked expired.                                                         *)
ChannelRefuses(e) ==
    /\ ChannelRequired(e)
    /\ \/ GateChannels(e) = {} /\ UNCHANGED channels
       \/ \E c \in GateChannels(e) : ~Verified(e, c) /\ UNCHANGED channels
       \/ \E c \in GateChannels(e) :
             /\ Verified(e, c)
             /\ IsExpired(channels[c].createdAt, channels[c].ttl)
             /\ channels' = [channels EXCEPT ![c].status = "expired"]

(* The gates of evaluateDispatchGates that only look at the envelope *)
Admissible(e) == e.level = "read_only" /\ e.admissible /\ e.redaction

(* No registered, connected agent with a live session.  A session past its *)
(* lifetime is marked expired.                                             *)
DispatchUnavailable(i) ==
    LET a == AgentOf(i)
    IN  /\ Dispatchable(i)
        /\ \/ registrations[a] # "connected" /\ UNCHANGED sessions
           \/ /\ registrations[a] = "connected"
              /\ ActiveSessions(a) = {}
              /\ UNCHANGED sessions
           \/ /\ registrations[a] = "connected"
              /\ ActiveSessions(a) # {}
              /\ SessionExpired(a)
              /\ sessions' = [sessions EXCEPT ![Max(ActiveSessions(a))].status = "expired"]
        /\ MarkUnavailable(i)
        /\ UNCHANGED <<registrations, channels, consents, calls, clock>>

Reachable(i) == Dispatchable(i) /\ registrations[AgentOf(i)] = "connected" /\ HasSession(AgentOf(i))

DispatchBlocked(i) ==
    /\ Reachable(i)
    /\ \/ ChannelRefuses(Envelope(i))
       \/ /\ ChannelPasses(Envelope(i))
          /\ ~Admissible(Envelope(i))
          /\ UNCHANGED channels
    /\ MarkPolicyBlocked(i)
    /\ UNCHANGED <<registrations, sessions, consents, calls, clock>>

(* The policy requires consent and there is none. *)
DispatchAsks(i) ==
    /\ Reachable(i)
    /\ ChannelPasses(Envelope(i))
    /\ Admissible(Envelope(i))
    /\ ~Approved(i)
    /\ RequestConsent(i)
    /\ UNCHANGED <<registrations, sessions, channels, streams, calls, clock>>

InFlight(q) == calls[q].kind # "idle"

StartCall(q, kind, i) ==
    /\ ~InFlight(q)
    /\ calls' = [calls EXCEPT ![q] = [kind |-> kind, invocation |-> i]]

EndCall(q) == calls' = [calls EXCEPT ![q] = [kind |-> "idle", invocation |-> 0]]

(* Mutant: the invocation is sent without a consent. *)
DispatchSendsUnasked(q, i) ==
    /\ Reachable(i)
    /\ ChannelPasses(Envelope(i))
    /\ Admissible(Envelope(i))
    /\ SetState(i, "dispatched")
    /\ EnsureStream(i)
    /\ StartCall(q, "dispatch", i)
    /\ UNCHANGED <<registrations, sessions, channels, consents, clock>>

(* Every gate passes; then the await of sendInvocation.  An invocation     *)
(* that is already dispatched or running passes too.                       *)
DispatchSends(q, i) ==
    /\ Reachable(i)
    /\ ChannelPasses(Envelope(i))
    /\ Admissible(Envelope(i))
    /\ Approved(i)
    /\ SetState(i, "dispatched")
    /\ EnsureStream(i)
    /\ StartCall(q, "dispatch", i)
    /\ UNCHANGED <<registrations, sessions, channels, consents, clock>>

(* The copy read before the await is saved as running, or as unavailable,  *)
(* whatever happened to the invocation in between.  The events that come   *)
(* with the result go to the stream of dispatchInvocation.                 *)
DispatchReturns(q, result) ==
    LET i == calls[q].invocation
    IN  /\ calls[q].kind = "dispatch"
        /\ \/ result = "ok" /\ SetState(i, "running") /\ UNCHANGED streams
           \/ result = "unavailable" /\ MarkUnavailable(i)
           \/ result = "rejected" /\ UNCHANGED <<invocations, streams>>
        /\ EndCall(q)
        /\ UNCHANGED <<registrations, sessions, channels, consents, clock>>

(***************************************************************************)
(* The life of a dispatched invocation                                     *)
(***************************************************************************)

(* receiveInvocationEvent.  Without a redaction policy the event blocks    *)
(* the invocation.                                                         *)
ReceiveInvocationEvent(i) ==
    /\ invocations[i].state \notin TerminalStates
    /\ registrations[AgentOf(i)] # "revoked"
    /\ \/ Envelope(i).redaction /\ EnsureStream(i) /\ UNCHANGED invocations
       \/ ~Envelope(i).redaction /\ MarkPolicyBlocked(i)
    /\ UNCHANGED <<registrations, sessions, channels, consents, calls, clock>>

(* Mutant: the stream stays open. *)
CompleteInvocationOnly(i, state) ==
    /\ invocations[i].state \in {"running", "dispatched"}
    /\ SetState(i, state)
    /\ UNCHANGED <<streams, registrations, sessions, channels, consents, calls, clock>>

(* completeInvocation, by exit code *)
CompleteInvocation(i, state) ==
    /\ invocations[i].state \in {"running", "dispatched"}
    /\ SetState(i, state)
    /\ CompleteStream(i, state)
    /\ UNCHANGED <<registrations, sessions, channels, consents, calls, clock>>

Cancellable(i) == invocations[i].state \notin {"completed", "failed", "timed_out", "cancelled"}

SaveCancelled(i) == SetState(i, "cancelled") /\ CompleteStream(i, "cancelled")

(* cancelInvocation of one that has not been sent *)
CancelInvocation(i) ==
    /\ Cancellable(i)
    /\ invocations[i].state \notin {"dispatched", "running"}
    /\ SaveCancelled(i)
    /\ UNCHANGED <<registrations, sessions, channels, consents, calls, clock>>

(* Otherwise the await of the transport's cancelInvocation. *)
CancelSends(q, i) ==
    /\ invocations[i].state \in {"dispatched", "running"}
    /\ StartCall(q, "cancel", i)
    /\ UNCHANGED <<registrations, sessions, channels, invocations, streams, consents, clock>>

(* The transport's answer is not looked at. *)
CancelReturns(q, result) ==
    /\ calls[q].kind = "cancel"
    /\ \/ result # "rejected" /\ SaveCancelled(calls[q].invocation)
       \/ result = "rejected" /\ UNCHANGED <<invocations, streams>>
    /\ EndCall(q)
    /\ UNCHANGED <<registrations, sessions, channels, consents, clock>>

(* Mutant: finished invocations time out too. *)
TimeoutAnyInvocation(i) ==
    /\ SetState(i, "timed_out")
    /\ CompleteStream(i, "failed")
    /\ UNCHANGED <<registrations, sessions, channels, consents, calls, clock>>

TimeoutInvocation(i) ==
    /\ invocations[i].state \notin TerminalStates
    /\ SetState(i, "timed_out")
    /\ CompleteStream(i, "failed")
    /\ UNCHANGED <<registrations, sessions, channels, consents, calls, clock>>

Tick ==
    /\ clock < MaxClock
    /\ clock' = clock + 1
    /\ UNCHANGED <<registrations, sessions, channels, invocations, streams, consents, calls>>

(***************************************************************************)
(* Specification                                                           *)
(***************************************************************************)

Init ==
    /\ registrations = [a \in Agents |-> "absent"]
    /\ sessions = <<>>
    /\ channels = <<>>
    /\ invocations = <<>>
    /\ streams = <<>>
    /\ consents = <<>>
    /\ calls = [q \in Calls |-> [kind |-> "idle", invocation |-> 0]]
    /\ clock = 0

(* The routes of /local-agents.  An advertisement of capabilities decides   *)
(* only whether a template is compatible, which is an input of the model.  *)
AgentStep ==
    \E a \in Agents :
        \/ \E status \in RegistrationStatuses : RegisterAgent(a, status)
        \/ Heartbeat(a)
        \/ RevokeAgent(a)
        \/ DisconnectAgent(a)
        \/ \E ttl \in ChannelTtls : CreateChannel(a, ttl)

ChannelStep ==
    \E c \in DOMAIN channels :
        \/ \E valid \in BOOLEAN : VerifyHandshake(c, valid)
        \/ RevokeChannel(c)
        \/ DisconnectChannel(c)

InvocationStep ==
    \/ \E e \in Envelopes, ask \in BOOLEAN : CreateInvocation(e, ask)
    \/ \E k \in ConsentIds, value \in Decisions : RecordConsentDecision(k, value)
    \/ \E i \in InvocationIds :
          \/ DispatchUnavailable(i)
          \/ DispatchBlocked(i)
          \/ DispatchAsks(i)
          \/ ReceiveInvocationEvent(i)
          \/ \E state \in {"completed", "failed"} : CompleteInvocation(i, state)
          \/ CancelInvocation(i)
          \/ TimeoutInvocation(i)
          \/ \E q \in Calls : DispatchSends(q, i) \/ CancelSends(q, i)

CallReturns(q) == \E result \in TransportResults : DispatchReturns(q, result) \/ CancelReturns(q, result)

Next == AgentStep \/ ChannelStep \/ InvocationStep \/ (\E q \in Calls : CallReturns(q)) \/ Tick

Spec == Init /\ [][Next]_vars

(***************************************************************************)
(* Properties                                                              *)
(***************************************************************************)

SessionType == [agent : Agents, status : SessionStatuses, issuedAt : 0..MaxClock]

ChannelType == [agent : Agents, status : ChannelStatuses, handshake : HandshakeStatuses,
                createdAt : 0..MaxClock, ttl : ChannelTtls]

ConsentType == [invocation : Nat, requestedAt : 0..MaxClock,
                decisions : Seq([value : Decisions, at : 0..MaxClock])]

(* The shape of the repositories: every invocation has its stream slot,    *)
(* and consent requests and calls name invocations that exist.             *)
TypeOK ==
    /\ registrations \in [Agents -> RegistrationStatuses \cup {"absent"}]
    /\ sessions \in Seq(SessionType)
    /\ channels \in Seq(ChannelType)
    /\ invocations \in Seq([envelope : EnvelopeType, state : InvocationStates])
    /\ streams \in Seq(StreamStates)
    /\ Len(streams) = Len(invocations)
    /\ consents \in Seq(ConsentType)
    /\ \A k \in ConsentIds : consents[k].invocation \in InvocationIds
    /\ calls \in [Calls -> [kind : {"idle", "dispatch", "cancel", "invoke", "complete"},
                           invocation : Nat]]
    /\ \A q \in Calls : InFlight(q) => calls[q].invocation \in InvocationIds
    /\ clock \in 0..MaxClock

(* An agent has at most one active session, and only while it is           *)
(* connected, through any sequence of registration, heartbeats, revocation, *)
(* disconnection and expiry.                                               *)
SessionsFollowAgents ==
    \A a \in Agents :
        /\ \A s, t \in ActiveSessions(a) : s = t
        /\ ActiveSessions(a) # {} => registrations[a] = "connected"

Ran(i) == invocations[i].state \in {"dispatched", "running", "completed", "failed"}

(* Whatever is dispatched, runs or has run passes the gates on its         *)
(* envelope and was approved by the user, also after late decisions,       *)
(* reconnections and calls that return late.                               *)
RunsWereApproved ==
    \A i \in InvocationIds : Ran(i) =>
        /\ Admissible(Envelope(i))
        /\ \E k \in ConsentIds :
              /\ consents[k].invocation = i
              /\ \E d \in Range(consents[k].decisions) : d.value \in Approvals

(* ... and, where a channel is required, a channel of its agent, the named *)
(* one if there is a name, has had its handshake verified, whatever has    *)
(* become of the channel and the handshake since.                          *)
RunsHadChannel ==
    \A i \in InvocationIds : Ran(i) /\ ChannelRequired(Envelope(i)) =>
        \E c \in DOMAIN channels :
            /\ channels[c].agent = AgentOf(i)
            /\ Envelope(i).channel \in {c, NoChannel}
            /\ channels[c].status # "pending"
            /\ channels[c].handshake # "challenge_issued"

(* An invocation that has ended has no open stream.  (A consent denied     *)
(* during a run is the exception: recordConsentDecision closes no stream.) *)
StreamsEnd ==
    \A i \in InvocationIds :
        invocations[i].state \in TerminalStates \ {"consent_denied"} => streams[i] # "streaming"

(* A finished invocation changes its state only through a call that was    *)
(* already in flight, or through another decision on its consent.          *)
FinishedStatesHold ==
    [][\A i \in InvocationIds :
          (/\ ~Cancellable(i)
           /\ invocations'[i] # invocations[i])
          => \/ \E q \in Calls : calls[q].invocation = i /\ calls'[q] # calls[q]
             \/ \E k \in ConsentIds : consents[k].invocation = i /\ consents'[k] # consents[k]]_vars
=============================================================================
