--------------------------- MODULE ProviderProofs ---------------------------
(***************************************************************************)
(* The local agent protocol and the provider invokes that share it, for    *)
(* any number of agents, sessions, channels, invocations, consents and     *)
(* calls in flight, and any transport.                                     *)
(***************************************************************************)
EXTENDS EnterpriseProviders, TLAPS, SequenceTheorems

InvocationType == [envelope : EnvelopeType, state : InvocationStates]
DecisionType == [value : Decisions, at : 0..MaxClock]
CallType == [kind : {"idle", "dispatch", "cancel", "invoke", "complete"}, invocation : Nat]

(***************************************************************************)
(* Sequences                                                               *)
(***************************************************************************)

(* A sequence rewritten element by element. *)
LEMMA SeqRewritten ==
    ASSUME NEW T, NEW f \in Seq(T), NEW g, DOMAIN g = DOMAIN f,
           g = [i \in DOMAIN g |-> g[i]], \A i \in DOMAIN f : g[i] \in T
    PROVE  g \in Seq(T) /\ Len(g) = Len(f)
<1>1. Len(f) \in Nat /\ DOMAIN f = 1..Len(f)
  OBVIOUS
<1>2. g \in [1..Len(f) -> T]
  BY <1>1
<1> QED  BY <1>1, <1>2, SeqDef

(* Inserting a decision loses none. *)
LEMMA InsertKeeps ==
    ASSUME NEW T, NEW s \in Seq(T), NEW e \in T, NEW p \in 1..Len(s) + 1
    PROVE  /\ InsertAt(s, p, e) \in Seq(T)
           /\ Range(s) \subseteq Range(InsertAt(s, p, e))
           /\ InsertAt(s, p, e) # s
<1>1. /\ SubSeq(s, 1, p - 1) \in Seq(T) /\ Len(SubSeq(s, 1, p - 1)) = p - 1
      /\ \A i \in 1..p - 1 : SubSeq(s, 1, p - 1)[i] = s[i]
  OBVIOUS
<1>2. /\ SubSeq(s, p, Len(s)) \in Seq(T) /\ Len(SubSeq(s, p, Len(s))) = Len(s) - p + 1
      /\ \A i \in 1..Len(s) - p + 1 : SubSeq(s, p, Len(s))[i] = s[p + i - 1]
  OBVIOUS
<1> DEFINE a == SubSeq(s, 1, p - 1)
           b == SubSeq(s, p, Len(s))
           t == a \o <<e>> \o b
<1> HIDE DEF a, b
<1>3. /\ t \in Seq(T) /\ Len(t) = Len(s) + 1
      /\ \A i \in 1..p - 1 : t[i] = a[i]
      /\ \A i \in 1..Len(b) : t[p + i] = b[i]
  <2>1. a \in Seq(T) /\ Len(a) = p - 1 /\ b \in Seq(T) /\ Len(b) = Len(s) - p + 1
    BY <1>1, <1>2 DEF a, b
  <2>2. PICK c : c = a \o <<e>>
    OBVIOUS
  <2>3. c \in Seq(T) /\ Len(c) = p /\ \A i \in 1..p - 1 : c[i] = a[i]
    BY <2>1, <2>2
  <2>4. /\ c \o b \in Seq(T) /\ Len(c \o b) = p + Len(b)
        /\ \A i \in 1..p : (c \o b)[i] = c[i]
        /\ \A i \in 1..Len(b) : (c \o b)[p + i] = b[i]
    BY <2>1, <2>3
  <2> QED  BY <2>1, <2>2, <2>3, <2>4
<1>4. ASSUME NEW j \in 1..Len(s) PROVE \E i \in DOMAIN t : t[i] = s[j]
  <2>1. CASE j < p
    <3>1. t[j] = s[j] /\ j \in DOMAIN t
      BY <1>1, <1>3, <1>4, <2>1 DEF a
    <3> QED  BY <3>1
  <2>2. CASE j >= p
    <3>1. t[j + 1] = s[j] /\ j + 1 \in DOMAIN t
      <4>1. j - p + 1 \in 1..Len(b) /\ p + (j - p + 1) = j + 1
        BY <1>2, <1>4, <2>2 DEF b
      <4>2. t[p + (j - p + 1)] = b[j - p + 1]
        BY <1>3, <4>1
      <4>3. b[j - p + 1] = s[j]
        BY <1>2, <1>4, <2>2 DEF b
      <4> QED  BY <1>3, <1>4, <4>1, <4>2, <4>3
    <3> QED  BY <3>1
  <2> QED  BY <1>4, <2>1, <2>2
<1>5. InsertAt(s, p, e) = t
  BY DEF InsertAt, a, b
<1> HIDE DEF t
<1>6. Range(s) \subseteq Range(t)
  BY <1>4 DEF Range
<1> QED  BY <1>3, <1>5, <1>6

(***************************************************************************)
(* The operations on invocations, streams and calls                        *)
(***************************************************************************)

LEMMA TypeParts ==
    TypeOK <=> /\ registrations \in [Agents -> RegistrationStatuses \cup {"absent"}]
               /\ sessions \in Seq(SessionType)
               /\ channels \in Seq(ChannelType)
               /\ invocations \in Seq(InvocationType)
               /\ streams \in Seq(StreamStates)
               /\ Len(streams) = Len(invocations)
               /\ consents \in Seq(ConsentType)
               /\ \A k \in ConsentIds : consents[k].invocation \in InvocationIds
               /\ calls \in [Calls -> CallType]
               /\ \A q \in Calls : InFlight(q) => calls[q].invocation \in InvocationIds
               /\ clock \in 0..MaxClock
BY DEF TypeOK, InvocationType, CallType

LEMMA InvocationTyped ==
    ASSUME invocations \in Seq(InvocationType), NEW i \in InvocationIds
    PROVE  /\ invocations[i] \in InvocationType /\ AgentOf(i) \in Agents
           /\ Envelope(i) \in EnvelopeType /\ i \in Nat
<1>1. invocations[i] \in InvocationType /\ i \in Nat
  BY DEF InvocationIds
<1> QED  BY <1>1 DEF InvocationType, AgentOf, Envelope, EnvelopeType

(* SetState changes the state of one invocation and nothing else. *)
LEMMA SetStateEffect ==
    ASSUME invocations \in Seq(InvocationType), NEW i \in InvocationIds,
           NEW s \in InvocationStates, SetState(i, s)
    PROVE  /\ invocations' \in Seq(InvocationType)
           /\ Len(invocations') = Len(invocations) /\ InvocationIds' = InvocationIds
           /\ invocations'[i].state = s
           /\ \A j \in InvocationIds : invocations'[j].envelope = invocations[j].envelope
           /\ \A j \in InvocationIds \ {i} : invocations'[j] = invocations[j]
<1>1. invocations[i] \in InvocationType
  BY InvocationTyped
<1>2. PICK x : x = [invocations[i] EXCEPT !.state = s]
  OBVIOUS
<1>3. x \in InvocationType /\ x.state = s /\ x.envelope = invocations[i].envelope
  BY <1>1, <1>2 DEF InvocationType
<1>4. invocations' = [invocations EXCEPT ![i] = x]
  BY <1>2 DEF SetState
<1> QED  BY <1>3, <1>4 DEF InvocationIds

(* A stream that has ended stays as it is, and a stream is begun once. *)
LEMMA StreamEffect ==
    ASSUME streams \in Seq(StreamStates), NEW i \in DOMAIN streams,
           \/ EnsureStream(i)
           \/ \E s \in {"completed", "failed", "cancelled"} : CompleteStream(i, s)
    PROVE  /\ streams' \in Seq(StreamStates) /\ Len(streams') = Len(streams)
           /\ \A j \in DOMAIN streams :
                 /\ streams[j] # "none" => streams'[j] # "none"
                 /\ streams[j] \notin {"none", "streaming"} => streams'[j] = streams[j]
                 /\ j # i => streams'[j] = streams[j]
           /\ EnsureStream(i) => streams'[i] # "none"
           /\ (\E s \in {"completed", "failed", "cancelled"} : CompleteStream(i, s)) =>
                 streams'[i] # "streaming"
<1>0. \A j \in DOMAIN streams : streams[j] \in StreamStates
  OBVIOUS
<1>1. CASE EnsureStream(i)
  <2>1. /\ streams' = [streams EXCEPT ![i] = streams'[i]] /\ streams'[i] \in StreamStates
        /\ streams'[i] = IF streams[i] = "none" THEN "streaming" ELSE streams[i]
    BY <1>0, <1>1 DEF EnsureStream, StreamStates
  <2>2. ~\E s \in {"completed", "failed", "cancelled"} : CompleteStream(i, s) /\ streams'[i] = "streaming"
    BY <2>1 DEF CompleteStream
  <2> QED  BY <1>0, <2>1, <2>2
<1>2. ASSUME NEW s \in {"completed", "failed", "cancelled"}, CompleteStream(i, s)
      PROVE  /\ streams' = [streams EXCEPT ![i] = streams'[i]] /\ streams'[i] \in StreamStates
             /\ streams'[i] = IF streams[i] = "streaming" THEN s ELSE streams[i]
  BY <1>0, <1>2 DEF CompleteStream, StreamStates
<1>3. CASE \E s \in {"completed", "failed", "cancelled"} : CompleteStream(i, s)
  <2>1. PICK s \in {"completed", "failed", "cancelled"} : CompleteStream(i, s)
    BY <1>3
  <2>2. /\ streams' = [streams EXCEPT ![i] = streams'[i]] /\ streams'[i] \in StreamStates
        /\ streams'[i] = IF streams[i] = "streaming" THEN s ELSE streams[i]
    BY <1>2, <2>1
  <2>3. EnsureStream(i) => streams'[i] # "none"
    BY <1>1
  <2> QED  BY <1>0, <2>2, <2>3
<1> QED  BY <1>1, <1>3

LEMMA CallEffect ==
    ASSUME calls \in [Calls -> CallType], NEW q \in Calls, NEW x \in CallType,
           calls' = [calls EXCEPT ![q] = x]
    PROVE  /\ calls' \in [Calls -> CallType] /\ calls'[q] = x
           /\ \A p \in Calls \ {q} : calls'[p] = calls[p]
OBVIOUS
(***************************************************************************)
(* Which steps write which part of the state                               *)
(***************************************************************************)

AgentActions ==
    \/ \E a \in Agents : \/ \E status \in RegistrationStatuses : RegisterAgent(a, status)
                         \/ Heartbeat(a) \/ RevokeAgent(a) \/ DisconnectAgent(a)
    \/ \E i \in InvocationIds : DispatchUnavailable(i)
    \/ \E q \in Calls, a \in Agents : InvokeNew(q, a)

ChannelActions ==
    \/ \E a \in Agents : \/ \E ttl \in ChannelTtls : CreateChannel(a, ttl)
                         \/ RevokeAgent(a) \/ DisconnectAgent(a)
    \/ \E c \in DOMAIN channels : \/ \E valid \in BOOLEAN : VerifyHandshake(c, valid)
                                  \/ RevokeChannel(c) \/ DisconnectChannel(c)
    \/ \E i \in InvocationIds : DispatchBlocked(i)

ConsentActions ==
    \/ \E e \in Envelopes, ask \in BOOLEAN : CreateInvocation(e, ask)
    \/ \E k \in ConsentIds, value \in Decisions : RecordConsentDecision(k, value)
    \/ \E i \in InvocationIds : DispatchAsks(i)
    \/ \E q \in Calls, i \in InvocationIds : ResumeAsks(q, i)
    \/ \E q \in Calls, a \in Agents : InvokeNew(q, a)

InvocationActions ==
    \/ \E a \in Agents : DisconnectAgent(a)
    \/ \E e \in Envelopes, ask \in BOOLEAN : CreateInvocation(e, ask)
    \/ \E k \in ConsentIds, value \in Decisions : RecordConsentDecision(k, value)
    \/ \E i \in InvocationIds :
          \/ DispatchUnavailable(i) \/ DispatchBlocked(i) \/ DispatchAsks(i)
          \/ ReceiveInvocationEvent(i) \/ CancelInvocation(i) \/ TimeoutInvocation(i)
          \/ \E state \in {"completed", "failed"} : CompleteInvocation(i, state)
          \/ \E q \in Calls : \/ DispatchSends(q, i) \/ CancelSends(q, i)
                              \/ ResumeAsks(q, i) \/ ResumeSends(q, i)
    \/ \E q \in Calls, result \in TransportResults :
          DispatchReturns(q, result) \/ CancelReturns(q, result) \/ InvokeReturns(q, result)
    \/ \E q \in Calls, a \in Agents : InvokeNew(q, a)
    \/ \E q \in Calls : InvokeCompletes(q)

(* A step that changes a part of the state is one of its actions. *)
Framed ==
    /\ UNCHANGED <<registrations, sessions>> \/ AgentActions
    /\ UNCHANGED channels \/ ChannelActions
    /\ UNCHANGED consents \/ ConsentActions
    /\ UNCHANGED <<invocations, streams, calls>> \/ InvocationActions
    /\ UNCHANGED answered \/ \E q \in Calls : InvokeCompletes(q)
    /\ UNCHANGED clock \/ Tick

LEMMA Frames == [ProviderNext]_providerVars => Framed
<1> SUFFICES ASSUME [ProviderNext]_providerVars PROVE Framed
  OBVIOUS
<1>1. ASSUME NEW a \in Agents, NEW status \in RegistrationStatuses, RegisterAgent(a, status),
             UNCHANGED answered
      PROVE  Framed
  BY <1>1 DEF Framed, AgentActions, RegisterAgent
<1>2. ASSUME NEW a \in Agents, Heartbeat(a), UNCHANGED answered PROVE Framed
  BY <1>2 DEF Framed, AgentActions, Heartbeat
<1>3. ASSUME NEW a \in Agents, RevokeAgent(a), UNCHANGED answered PROVE Framed
  BY <1>3 DEF Framed, AgentActions, ChannelActions, RevokeAgent
<1>4. ASSUME NEW a \in Agents, DisconnectAgent(a), UNCHANGED answered PROVE Framed
  BY <1>4 DEF Framed, AgentActions, ChannelActions, InvocationActions, DisconnectAgent
<1>5. ASSUME NEW a \in Agents, NEW ttl \in ChannelTtls, CreateChannel(a, ttl),
             UNCHANGED answered
      PROVE  Framed
  BY <1>5 DEF Framed, ChannelActions, CreateChannel
<1>6. ASSUME NEW c \in DOMAIN channels,
             \/ \E valid \in BOOLEAN : VerifyHandshake(c, valid)
             \/ RevokeChannel(c) \/ DisconnectChannel(c),
             UNCHANGED answered
      PROVE  Framed
  BY <1>6 DEF Framed, ChannelActions, VerifyHandshake, RevokeChannel, DisconnectChannel
<1>7. ASSUME NEW e \in Envelopes, NEW ask \in BOOLEAN, CreateInvocation(e, ask),
             UNCHANGED answered
      PROVE  Framed
  BY <1>7 DEF Framed, ConsentActions, InvocationActions, CreateInvocation
<1>8. ASSUME NEW k \in ConsentIds, NEW value \in Decisions, RecordConsentDecision(k, value),
             UNCHANGED answered
      PROVE  Framed
  BY <1>8 DEF Framed, ConsentActions, InvocationActions, RecordConsentDecision
<1>9. ASSUME NEW i \in InvocationIds, DispatchUnavailable(i), UNCHANGED answered PROVE Framed
  BY <1>9 DEF Framed, AgentActions, InvocationActions, DispatchUnavailable
<1>10. ASSUME NEW i \in InvocationIds, DispatchBlocked(i), UNCHANGED answered PROVE Framed
  BY <1>10 DEF Framed, ChannelActions, InvocationActions, DispatchBlocked
<1>11. ASSUME NEW i \in InvocationIds, DispatchAsks(i), UNCHANGED answered PROVE Framed
  BY <1>11 DEF Framed, ConsentActions, InvocationActions, DispatchAsks
<1>12. ASSUME NEW i \in InvocationIds,
              \/ ReceiveInvocationEvent(i) \/ CancelInvocation(i) \/ TimeoutInvocation(i)
              \/ \E state \in {"completed", "failed"} : CompleteInvocation(i, state),
              UNCHANGED answered
       PROVE  Framed
  BY <1>12 DEF Framed, InvocationActions, ReceiveInvocationEvent, CancelInvocation,
               TimeoutInvocation, CompleteInvocation
<1>13. ASSUME NEW i \in InvocationIds, NEW q \in Calls, DispatchSends(q, i) \/ CancelSends(q, i),
              UNCHANGED answered
       PROVE  Framed
  BY <1>13 DEF Framed, InvocationActions, DispatchSends, CancelSends
<1>14. ASSUME NEW q \in Calls, NEW result \in TransportResults,
              DispatchReturns(q, result) \/ CancelReturns(q, result), UNCHANGED answered
       PROVE  Framed
  BY <1>14 DEF Framed, InvocationActions, DispatchReturns, CancelReturns
<1>15. ASSUME Tick, UNCHANGED answered PROVE Framed
  BY <1>15 DEF Framed, Tick
<1>16. ASSUME UNCHANGED providerVars PROVE Framed
  BY <1>16 DEF Framed, providerVars, vars
<1>17. ASSUME NEW q \in Calls, NEW a \in Agents, InvokeNew(q, a) PROVE Framed
  BY <1>17 DEF Framed, AgentActions, ConsentActions, InvocationActions, InvokeNew
<1>18. ASSUME NEW q \in Calls, NEW i \in InvocationIds, ResumeAsks(q, i) PROVE Framed
  BY <1>18 DEF Framed, ConsentActions, InvocationActions, ResumeAsks
<1>19. ASSUME NEW q \in Calls, NEW i \in InvocationIds, ResumeSends(q, i) PROVE Framed
  BY <1>19 DEF Framed, InvocationActions, ResumeSends
<1>20. ASSUME NEW q \in Calls, NEW result \in TransportResults, InvokeReturns(q, result)
       PROVE  Framed
  BY <1>20 DEF Framed, InvocationActions, InvokeReturns
<1>21. ASSUME NEW q \in Calls, InvokeCompletes(q) PROVE Framed
  BY <1>21 DEF Framed, InvocationActions, InvokeCompletes
<1>22. ASSUME NEW q \in Calls, InvokeStarts(q) PROVE Framed
  <2>1. ASSUME NEW i \in InvocationIds, ResumeUnavailable(q, i) \/ ResumeBlocked(q, i)
        PROVE  Framed
    BY <1>9, <1>10, <2>1 DEF ResumeUnavailable, ResumeBlocked
  <2>2. ASSUME \/ InvokeBlocked(q) \/ InvokeUnavailable(q) \/ InvokeIncompatible(q)
               \/ \E i \in InvocationIds : ResumeRefused(q, i)
        PROVE  Framed
    BY <1>16, <2>2 DEF InvokeBlocked, InvokeUnavailable, InvokeIncompatible, ResumeRefused
  <2> QED  BY <1>17, <1>18, <1>19, <1>22, <2>1, <2>2 DEF InvokeStarts
<1>23. ASSUME NEW q \in Calls, InvokeContinues(q) PROVE Framed
  BY <1>20, <1>21, <1>23 DEF InvokeContinues
<1>24. ASSUME AgentStep, UNCHANGED answered PROVE Framed
  BY <1>1, <1>2, <1>3, <1>4, <1>5, <1>24 DEF AgentStep
<1>25. ASSUME ChannelStep, UNCHANGED answered PROVE Framed
  BY <1>6, <1>25 DEF ChannelStep
<1>26. ASSUME InvocationStep, UNCHANGED answered PROVE Framed
  BY <1>7, <1>8, <1>9, <1>10, <1>11, <1>12, <1>13, <1>26 DEF InvocationStep
<1>27. ASSUME NEW q \in Calls, CallReturns(q), UNCHANGED answered PROVE Framed
  BY <1>14, <1>27 DEF CallReturns
<1> QED  BY <1>15, <1>16, <1>22, <1>23, <1>24, <1>25, <1>26, <1>27 DEF ProviderNext, Next
LEMMA ClockStep == TypeOK /\ Framed => clock' \in 0..MaxClock
BY ProtocolAssumption DEF TypeOK, Framed, Tick

(***************************************************************************)
(* Channels                                                                *)
(***************************************************************************)

ChannelsBounded == Len(channels) <= MaxChannels

(* A channel keeps its agent, and one whose handshake has been answered    *)
(* never goes back to waiting for the answer.                              *)
ChannelsKept ==
    \A c \in DOMAIN channels :
        /\ c \in DOMAIN channels'
        /\ channels'[c].agent = channels[c].agent
        /\ channels[c].status # "pending" => channels'[c].status # "pending"
        /\ channels[c].handshake # "challenge_issued" => channels'[c].handshake # "challenge_issued"

LEMMA ChannelChanged ==
    ASSUME channels \in Seq(ChannelType), ChannelsBounded,
           channels' = [c \in DOMAIN channels |-> channels'[c]],
           \A c \in DOMAIN channels :
               \/ channels'[c] = channels[c]
               \/ \E s \in ChannelStatuses \ {"pending"} :
                     channels'[c] = [channels[c] EXCEPT !.status = s]
    PROVE  channels' \in Seq(ChannelType) /\ ChannelsBounded' /\ ChannelsKept
<1>1. DOMAIN channels' = DOMAIN channels
  OBVIOUS
<1>2. ASSUME NEW c \in DOMAIN channels
      PROVE  /\ channels'[c] \in ChannelType
             /\ channels'[c].agent = channels[c].agent
             /\ channels'[c].handshake = channels[c].handshake
             /\ channels[c].status # "pending" => channels'[c].status # "pending"
  <2>1. channels[c] \in ChannelType
    BY <1>2
  <2>2. ASSUME NEW s \in ChannelStatuses \ {"pending"},
               channels'[c] = [channels[c] EXCEPT !.status = s]
        PROVE  /\ channels'[c] \in ChannelType
               /\ channels'[c].agent = channels[c].agent
               /\ channels'[c].handshake = channels[c].handshake
               /\ channels'[c].status # "pending"
    BY <2>1, <2>2 DEF ChannelType
  <2> QED  BY <1>2, <2>1, <2>2
<1>3. channels' \in Seq(ChannelType) /\ Len(channels') = Len(channels)
  BY <1>1, <1>2, SeqRewritten
<1> QED  BY <1>1, <1>2, <1>3 DEF ChannelsBounded, ChannelsKept

LEMMA ChannelsStep ==
    TypeOK /\ ChannelsBounded /\ Framed =>
        channels' \in Seq(ChannelType) /\ ChannelsBounded' /\ ChannelsKept
<1> SUFFICES ASSUME TypeOK, ChannelsBounded, Framed
             PROVE  channels' \in Seq(ChannelType) /\ ChannelsBounded' /\ ChannelsKept
  OBVIOUS
<1> DEFINE Kept == channels' \in Seq(ChannelType) /\ ChannelsBounded' /\ ChannelsKept
<1>0. channels \in Seq(ChannelType) /\ clock \in 0..MaxClock
  BY DEF TypeOK
<1>1. ASSUME NEW a, NEW from, NEW s \in ChannelStatuses \ {"pending"}, EndChannels(a, from, s)
      PROVE  Kept
  BY <1>0, <1>1, ChannelChanged DEF EndChannels
<1>2. ASSUME NEW c \in DOMAIN channels, NEW s \in ChannelStatuses \ {"pending"},
             channels' = [channels EXCEPT ![c].status = s]
      PROVE  Kept
  BY <1>0, <1>2, ChannelChanged
<1>3. ASSUME NEW a \in Agents, NEW ttl \in ChannelTtls, CreateChannel(a, ttl) PROVE Kept
  <2>1. PICK x : /\ x = [agent |-> a, status |-> "pending", handshake |-> "challenge_issued",
                         createdAt |-> clock, ttl |-> ttl]
                 /\ channels' = Append(channels, x) /\ Len(channels) < MaxChannels
    BY <1>3 DEF CreateChannel
  <2>2. x \in ChannelType
    BY <1>0, <2>1 DEF ChannelType, ChannelStatuses, HandshakeStatuses
  <2> QED  BY <1>0, <2>1, <2>2, ProtocolAssumption DEF ChannelsBounded, ChannelsKept
<1>4. ASSUME NEW c \in DOMAIN channels, NEW valid \in BOOLEAN, VerifyHandshake(c, valid)
      PROVE  Kept
  <2>1. channels[c] \in ChannelType
    BY <1>0
  <2>2. PICK x : /\ channels' = [channels EXCEPT ![c] = x]
                 /\ \/ x = [channels[c] EXCEPT !.status = "expired", !.handshake = "failed"]
                    \/ x = [channels[c] EXCEPT !.handshake = "failed"]
                    \/ x = [channels[c] EXCEPT !.status = "established",
                                               !.handshake = "mock_verified"]
    BY <1>4 DEF VerifyHandshake
  <2>3. /\ x \in ChannelType /\ x.agent = channels[c].agent /\ x.handshake # "challenge_issued"
        /\ x.status = channels[c].status \/ x.status # "pending"
    BY <2>1, <2>2 DEF ChannelType, ChannelStatuses, HandshakeStatuses
  <2>4. /\ channels' \in Seq(ChannelType) /\ Len(channels') = Len(channels)
        /\ channels'[c] = x /\ \A d \in DOMAIN channels \ {c} : channels'[d] = channels[d]
        /\ DOMAIN channels' = DOMAIN channels
    BY <1>0, <2>2, <2>3
  <2> QED  BY <2>3, <2>4 DEF ChannelsBounded, ChannelsKept
<1>5. CASE UNCHANGED channels
  BY <1>0, <1>5 DEF ChannelsBounded, ChannelsKept
<1>6. ASSUME NEW i \in InvocationIds, DispatchBlocked(i) PROVE Kept
  <2>1. \/ UNCHANGED channels
        \/ \E c \in GateChannels(Envelope(i)) :
              channels' = [channels EXCEPT ![c].status = "expired"]
    BY <1>6 DEF DispatchBlocked, ChannelRefuses
  <2>2. GateChannels(Envelope(i)) \subseteq DOMAIN channels
    BY DEF GateChannels
  <2> QED  BY <1>2, <1>5, <2>1, <2>2 DEF ChannelStatuses
<1>7. ASSUME NEW a \in Agents, RevokeAgent(a) \/ DisconnectAgent(a) PROVE Kept
  BY <1>1, <1>7 DEF RevokeAgent, DisconnectAgent, ChannelStatuses
<1>8. ASSUME NEW c \in DOMAIN channels, RevokeChannel(c) \/ DisconnectChannel(c) PROVE Kept
  BY <1>2, <1>8 DEF RevokeChannel, DisconnectChannel, ChannelStatuses
<1> QED  BY <1>3, <1>4, <1>5, <1>6, <1>7, <1>8 DEF Framed, ChannelActions
(***************************************************************************)
(* Agents and sessions                                                     *)
(***************************************************************************)

LEMMA OnlySession ==
    ASSUME SessionsFollowAgents, NEW a \in Agents, ActiveSessions(a) # {}
    PROVE  Max(ActiveSessions(a)) \in ActiveSessions(a) /\ ActiveSessions(a) = {Max(ActiveSessions(a))}
<1>1. PICK s : ActiveSessions(a) = {s} /\ s \in DOMAIN sessions
  BY DEF SessionsFollowAgents, ActiveSessions
<1>2. Max({s}) = s
  BY DEF Max
<1> QED  BY <1>1, <1>2

(* Sessions that only end, some of them, keep the invariant as long as     *)
(* their agents' registrations are kept or all of their sessions end.      *)
LEMMA SessionsEnd ==
    ASSUME TypeOK, SessionsFollowAgents,
           sessions' = [s \in DOMAIN sessions |-> sessions'[s]],
           \A s \in DOMAIN sessions :
               \/ sessions'[s] = sessions[s]
               \/ \E x \in SessionStatuses \ {"active"} :
                     sessions'[s] = [sessions[s] EXCEPT !.status = x],
           \A a \in Agents : registrations'[a] # registrations[a] =>
               \A s \in ActiveSessions(a) : sessions'[s].status # "active"
    PROVE  sessions' \in Seq(SessionType) /\ SessionsFollowAgents'
<1>1. DOMAIN sessions' = DOMAIN sessions /\ sessions \in Seq(SessionType)
  BY DEF TypeOK
<1>2. ASSUME NEW s \in DOMAIN sessions
      PROVE  /\ sessions'[s] \in SessionType /\ sessions'[s].agent = sessions[s].agent
             /\ sessions'[s].status = "active" => sessions[s].status = "active"
  <2>1. sessions[s] \in SessionType
    BY <1>1
  <2>2. ASSUME NEW x \in SessionStatuses \ {"active"},
               sessions'[s] = [sessions[s] EXCEPT !.status = x]
        PROVE  /\ sessions'[s] \in SessionType /\ sessions'[s].agent = sessions[s].agent
               /\ sessions'[s].status # "active"
    BY <2>1, <2>2 DEF SessionType
  <2> QED  BY <1>2, <2>1, <2>2
<1>3. sessions' \in Seq(SessionType)
  BY <1>1, <1>2, SeqRewritten
<1>4. ASSUME NEW a \in Agents
      PROVE  /\ ActiveSessions(a)' \subseteq ActiveSessions(a)
             /\ registrations'[a] # registrations[a] => ActiveSessions(a)' = {}
  BY <1>1, <1>2 DEF ActiveSessions
<1>5. SessionsFollowAgents'
  BY <1>4 DEF SessionsFollowAgents
<1> QED  BY <1>3, <1>5

(* A session is issued to an agent that has none and is now connected. *)
LEMMA SessionIssued ==
    ASSUME TypeOK, SessionsFollowAgents, NEW a \in Agents, ActiveSessions(a) = {},
           sessions' = Append(sessions, NewSession(a)),
           registrations'[a] = "connected",
           \A b \in Agents \ {a} : registrations'[b] = registrations[b]
    PROVE  sessions' \in Seq(SessionType) /\ SessionsFollowAgents'
<1>1. sessions \in Seq(SessionType) /\ NewSession(a) \in SessionType /\ NewSession(a).agent = a
  BY DEF TypeOK, NewSession, SessionType, SessionStatuses
<1>2. PICK n, x : n = Len(sessions) + 1 /\ x = NewSession(a)
  OBVIOUS
<1>3. /\ sessions' \in Seq(SessionType) /\ DOMAIN sessions' = DOMAIN sessions \cup {n}
      /\ sessions'[n] = x /\ \A s \in DOMAIN sessions : sessions'[s] = sessions[s]
  BY <1>1, <1>2
<1>4. ActiveSessions(a)' \subseteq {n}
  BY <1>3 DEF ActiveSessions
<1>5. \A b \in Agents \ {a} : ActiveSessions(b)' = ActiveSessions(b)
  BY <1>1, <1>2, <1>3 DEF ActiveSessions
<1>6. SessionsFollowAgents'
  BY <1>4, <1>5 DEF SessionsFollowAgents
<1> QED  BY <1>3, <1>6

LEMMA AgentsStep ==
    TypeOK /\ SessionsFollowAgents /\ Framed =>
        /\ registrations' \in [Agents -> RegistrationStatuses \cup {"absent"}]
        /\ sessions' \in Seq(SessionType)
        /\ SessionsFollowAgents'
<1> SUFFICES ASSUME TypeOK, SessionsFollowAgents, Framed
             PROVE  /\ registrations' \in [Agents -> RegistrationStatuses \cup {"absent"}]
                    /\ sessions' \in Seq(SessionType) /\ SessionsFollowAgents'
  OBVIOUS
<1> DEFINE Reg == registrations' \in [Agents -> RegistrationStatuses \cup {"absent"}]
           Ses == sessions' \in Seq(SessionType) /\ SessionsFollowAgents'
<1>0. /\ registrations \in [Agents -> RegistrationStatuses \cup {"absent"}]
      /\ sessions \in Seq(SessionType)
  BY DEF TypeOK
<1>1. ASSUME NEW a \in Agents, NEW s \in RegistrationStatuses,
             registrations' = [registrations EXCEPT ![a] = s]
      PROVE  /\ Reg /\ registrations'[a] = s
             /\ \A b \in Agents \ {a} : registrations'[b] = registrations[b]
  BY <1>0, <1>1
<1>2. CASE UNCHANGED <<registrations, sessions>>
  BY <1>0, <1>2 DEF SessionsFollowAgents, ActiveSessions
<1>3. ASSUME NEW a \in Agents, NEW s \in RegistrationStatuses,
             registrations' = [registrations EXCEPT ![a] = s],
             UNCHANGED sessions, ActiveSessions(a) = {} \/ s = registrations[a]
      PROVE  Reg /\ Ses
  <2>1. \A b \in Agents : registrations'[b] # registrations[b] => ActiveSessions(b) = {}
    BY <1>1, <1>3
  <2> QED  BY <1>0, <1>1, <1>3, <2>1, SessionsEnd
<1>4. ASSUME NEW a \in Agents, NEW s \in RegistrationStatuses, RegisterAgent(a, s)
      PROVE  Reg /\ Ses
  <2>1. ActiveSessions(a) = {} /\ registrations' = [registrations EXCEPT ![a] = s]
    BY <1>4 DEF RegisterAgent, SessionsFollowAgents
  <2>2. CASE UNCHANGED sessions
    BY <1>3, <2>1, <2>2
  <2>3. CASE s = "connected" /\ sessions' = Append(sessions, NewSession(a))
    BY <1>1, <2>1, <2>3, SessionIssued
  <2> QED  BY <1>4, <2>2, <2>3 DEF RegisterAgent
<1>5. ASSUME NEW a \in Agents, Heartbeat(a) PROVE Reg /\ Ses
  <2>1. registrations' = [registrations EXCEPT ![a] = "connected"] /\ "connected" \in RegistrationStatuses
    BY <1>5 DEF Heartbeat, RegistrationStatuses
  <2>2. CASE ActiveSessions(a) = {} /\ sessions' = Append(sessions, NewSession(a))
    BY <1>1, <2>1, <2>2, SessionIssued
  <2>3. CASE ActiveSessions(a) # {} /\ UNCHANGED sessions
    BY <1>3, <2>1, <2>3 DEF SessionsFollowAgents
  <2> QED  BY <1>5, <2>2, <2>3 DEF Heartbeat
<1>6. ASSUME NEW a \in Agents, RevokeAgent(a) \/ DisconnectAgent(a) PROVE Reg /\ Ses
  <2>1. PICK s \in {"revoked", "disconnected"} :
          registrations' = [registrations EXCEPT ![a] = s] /\ EndSessions(a, s)
    BY <1>6 DEF RevokeAgent, DisconnectAgent
  <2>2. s \in RegistrationStatuses /\ s \in SessionStatuses \ {"active"}
    BY DEF RegistrationStatuses, SessionStatuses
  <2>3. \A t \in DOMAIN sessions : sessions[t] \in SessionType
    BY <1>0
  <2>4. /\ sessions' = [t \in DOMAIN sessions |-> sessions'[t]]
        /\ \A t \in DOMAIN sessions \ ActiveSessions(a) : sessions'[t] = sessions[t]
        /\ \A t \in ActiveSessions(a) : sessions'[t] = [sessions[t] EXCEPT !.status = s]
    BY <2>1 DEF EndSessions, ActiveSessions
  <2>5. \A t \in ActiveSessions(a) : sessions'[t].status # "active"
    BY <2>2, <2>3, <2>4 DEF SessionType, ActiveSessions
  <2> QED  BY <1>1, <2>1, <2>2, <2>4, <2>5, SessionsEnd
<1>7. ASSUME NEW i \in InvocationIds, DispatchUnavailable(i) PROVE Reg /\ Ses
  <2>1. PICK a \in Agents : a = AgentOf(i)
    BY InvocationTyped, TypeParts
  <2>2. UNCHANGED registrations
    BY <1>7 DEF DispatchUnavailable
  <2>3. CASE UNCHANGED sessions
    BY <1>2, <2>2, <2>3
  <2>4. CASE ActiveSessions(a) # {} /\
             sessions' = [sessions EXCEPT ![Max(ActiveSessions(a))].status = "expired"]
    <3>1. Max(ActiveSessions(a)) \in DOMAIN sessions
      BY <2>4, OnlySession DEF ActiveSessions
    <3>2. "expired" \in SessionStatuses \ {"active"}
      BY DEF SessionStatuses
    <3> QED  BY <1>0, <2>2, <2>4, <3>1, <3>2, SessionsEnd
  <2> QED  BY <1>7, <2>1, <2>3, <2>4 DEF DispatchUnavailable
<1>8. ASSUME NEW q \in Calls, NEW a \in Agents, InvokeNew(q, a) PROVE Reg /\ Ses
  <2>1. UNCHANGED registrations
    BY <1>8 DEF InvokeNew
  <2>2. CASE UNCHANGED sessions
    BY <1>2, <2>1, <2>2
  <2>3. CASE sessions' = [s \in DOMAIN sessions |->
                       IF ActiveSessions(a) # {} /\ s = Max(ActiveSessions(a))
                         THEN [sessions[s] EXCEPT !.status = "expired"] ELSE sessions[s]]
    <3>1. "expired" \in SessionStatuses \ {"active"}
      BY DEF SessionStatuses
    <3> QED  BY <1>0, <2>1, <2>3, <3>1, SessionsEnd
  <2> QED  BY <1>8, <2>2, <2>3 DEF InvokeNew
<1> QED  BY <1>2, <1>4, <1>5, <1>6, <1>7, <1>8 DEF Framed, AgentActions
(***************************************************************************)
(* Consents                                                                *)
(***************************************************************************)

(* A consent request keeps its invocation and every decision made on it. *)
ConsentsKept ==
    /\ \A k \in ConsentIds :
          /\ k \in ConsentIds'
          /\ consents'[k].invocation = consents[k].invocation
          /\ Range(consents[k].decisions) \subseteq Range(consents'[k].decisions)
    /\ \A k \in ConsentIds' \ ConsentIds : consents'[k].invocation \in InvocationIds'

LEMMA ConsentAdded ==
    ASSUME TypeOK, NEW i \in Nat, i \in InvocationIds', consents' = Append(consents, NewConsent(i))
    PROVE  consents' \in Seq(ConsentType) /\ ConsentsKept
<1>1. consents \in Seq(ConsentType) /\ clock \in 0..MaxClock
  BY DEF TypeOK
<1>2. PICK x : x = NewConsent(i)
  OBVIOUS
<1>3. x \in ConsentType /\ x.invocation = i
  BY <1>1, <1>2 DEF NewConsent, ConsentType
<1>4. /\ consents' \in Seq(ConsentType) /\ DOMAIN consents' = DOMAIN consents \cup {Len(consents) + 1}
      /\ consents'[Len(consents) + 1] = x
      /\ \A k \in DOMAIN consents : consents'[k] = consents[k]
  BY <1>1, <1>2, <1>3
<1> QED  BY <1>3, <1>4 DEF ConsentsKept, ConsentIds

LEMMA DecisionRecorded ==
    ASSUME TypeOK, NEW k \in ConsentIds, NEW value \in Decisions, RecordConsentDecision(k, value)
    PROVE  /\ consents' \in Seq(ConsentType) /\ ConsentsKept
           /\ consents'[k] # consents[k]
<1>1. consents \in Seq(ConsentType) /\ clock \in 0..MaxClock /\ consents[k] \in ConsentType
  BY DEF TypeOK, ConsentIds
<1>2. PICK made, d : /\ made = consents[k].decisions /\ d \in DecisionType
                     /\ \E p \in 1..Len(made) + 1 :
                          consents' = [consents EXCEPT ![k].decisions = InsertAt(@, p, d)]
  <2>1. "denied" \in Decisions
    BY DEF Decisions
  <2> QED  BY <1>1, <2>1 DEF RecordConsentDecision, DecisionType
<1>3. PICK p \in 1..Len(made) + 1 :
        consents' = [consents EXCEPT ![k].decisions = InsertAt(@, p, d)]
  BY <1>2
<1>4. made \in Seq(DecisionType)
  BY <1>1, <1>2 DEF ConsentType, DecisionType
<1>5. PICK t : t = InsertAt(made, p, d)
  OBVIOUS
<1>6. t \in Seq(DecisionType) /\ Range(made) \subseteq Range(t) /\ t # made
  BY <1>2, <1>4, <1>5, InsertKeeps
<1>7. PICK x : x = [consents[k] EXCEPT !.decisions = t]
  OBVIOUS
<1>8. x \in ConsentType /\ x.invocation = consents[k].invocation /\ x.decisions = t
  BY <1>1, <1>6, <1>7 DEF ConsentType, DecisionType
<1>9. consents' = [consents EXCEPT ![k] = x]
  BY <1>2, <1>3, <1>5, <1>7
<1>10. /\ consents' \in Seq(ConsentType) /\ DOMAIN consents' = DOMAIN consents
       /\ consents'[k] = x /\ \A j \in DOMAIN consents \ {k} : consents'[j] = consents[j]
  BY <1>1, <1>8, <1>9 DEF ConsentIds
<1> QED  BY <1>2, <1>6, <1>8, <1>10 DEF ConsentsKept, ConsentIds

LEMMA RequestEffect ==
    ASSUME TypeOK, NEW i \in InvocationIds, InvocationIds \subseteq InvocationIds', RequestConsent(i)
    PROVE  consents' \in Seq(ConsentType) /\ ConsentsKept
<1>1. i \in Nat /\ consents \in Seq(ConsentType)
  BY InvocationTyped, TypeParts
<1>2. CASE UNCHANGED consents
  BY <1>1, <1>2 DEF ConsentsKept, ConsentIds
<1>3. CASE consents' = Append(consents, NewConsent(i))
  BY <1>1, <1>3, ConsentAdded
<1> QED  BY <1>2, <1>3 DEF RequestConsent

(***************************************************************************)
(* Invocations, their streams and the calls in flight                      *)
(***************************************************************************)

(* The consequences of having been sent, which nothing takes back. *)
WasApproved(i) ==
    /\ Admissible(Envelope(i))
    /\ \E k \in ConsentIds :
          /\ consents[k].invocation = i
          /\ \E d \in Range(consents[k].decisions) : d.value \in Approvals

HadChannel(i) ==
    ChannelRequired(Envelope(i)) =>
        \E c \in DOMAIN channels :
            /\ channels[c].agent = AgentOf(i)
            /\ Envelope(i).channel \in {c, NoChannel}
            /\ channels[c].status # "pending"
            /\ channels[c].handshake # "challenge_issued"

WasSent(i) == WasApproved(i) /\ HadChannel(i) /\ streams[i] # "none"

(* A call that will save the invocation as running when it returns. *)
Sending(q) == calls[q].kind \in {"dispatch", "invoke"}

InUse(i) == Ran(i) \/ \E q \in Calls : Sending(q) /\ calls[q].invocation = i

(* What has run, or may be saved as running by a call that returns late,   *)
(* has been sent.                                                          *)
SentBeforeUse == \A i \in InvocationIds : InUse(i) => WasSent(i)

GatesPass(i) == ChannelPasses(Envelope(i)) /\ Admissible(Envelope(i)) /\ Approved(i)
NewlySent(i) == GatesPass(i) /\ streams'[i] # "none"

InvocationsTyped ==
    /\ invocations \in Seq(InvocationType)
    /\ streams \in Seq(StreamStates)
    /\ Len(streams) = Len(invocations)
    /\ calls \in [Calls -> CallType]
    /\ \A q \in Calls : InFlight(q) => calls[q].invocation \in InvocationIds

(* An invocation keeps its envelope, a stream that has begun or ended does *)
(* not go back.                                                            *)
InvocationsKept ==
    \A i \in InvocationIds :
        /\ i \in InvocationIds'
        /\ invocations'[i].envelope = invocations[i].envelope
        /\ streams[i] # "none" => streams'[i] # "none"
        /\ streams[i] \notin {"none", "streaming"} => streams'[i] = streams[i]

UsedOnlyAfterGates ==
    \A i \in InvocationIds' : InUse(i)' => i \in InvocationIds /\ (InUse(i) \/ NewlySent(i))

InvocationsFine == InvocationsTyped' /\ InvocationsKept /\ StreamsEnd' /\ UsedOnlyAfterGates

(* The calls in flight after a step on invocation i. *)
CallsFine(i) ==
    /\ calls' \in [Calls -> CallType]
    /\ \A p \in Calls : InFlight(p)' => calls'[p].invocation \in InvocationIds
    /\ \A p \in Calls : Sending(p)' =>
          \/ Sending(p) /\ calls'[p].invocation = calls[p].invocation
          \/ calls'[p].invocation = i /\ NewlySent(i)

StreamStops(i) == \E x \in {"completed", "failed", "cancelled"} : CompleteStream(i, x)

LEMMA StreamDomain ==
    TypeOK => /\ DOMAIN streams = InvocationIds
              /\ InvocationIds = 1..Len(invocations) /\ Len(invocations) \in Nat
<1> SUFFICES ASSUME TypeOK
             PROVE  /\ DOMAIN streams = InvocationIds
                    /\ InvocationIds = 1..Len(invocations) /\ Len(invocations) \in Nat
  OBVIOUS
<1>1. streams \in Seq(StreamStates) /\ invocations \in Seq(InvocationType)
      /\ Len(streams) = Len(invocations)
  BY TypeParts
<1> QED  BY <1>1 DEF InvocationIds

(* A step that sets the state of one invocation. *)
LEMMA OneMoves ==
    ASSUME TypeOK, StreamsEnd, NEW i \in InvocationIds, NEW s \in InvocationStates,
           SetState(i, s), UNCHANGED streams \/ EnsureStream(i) \/ StreamStops(i),
           s \in TerminalStates \ {"consent_denied"} => StreamStops(i),
           s \in {"dispatched", "running", "completed", "failed"} => InUse(i) \/ NewlySent(i),
           CallsFine(i)
    PROVE  InvocationsFine /\ InvocationIds' = InvocationIds
<1>1. /\ invocations' \in Seq(InvocationType)
      /\ Len(invocations') = Len(invocations) /\ InvocationIds' = InvocationIds
      /\ invocations'[i].state = s
      /\ \A j \in InvocationIds : invocations'[j].envelope = invocations[j].envelope
      /\ \A j \in InvocationIds \ {i} : invocations'[j] = invocations[j]
  BY SetStateEffect, TypeParts
<1>2. /\ streams' \in Seq(StreamStates) /\ Len(streams') = Len(streams)
      /\ \A j \in InvocationIds :
            /\ streams[j] # "none" => streams'[j] # "none"
            /\ streams[j] \notin {"none", "streaming"} => streams'[j] = streams[j]
            /\ j # i => streams'[j] = streams[j]
      /\ StreamStops(i) => streams'[i] # "streaming"
  <2>1. streams \in Seq(StreamStates) /\ i \in DOMAIN streams /\ DOMAIN streams = InvocationIds
    BY StreamDomain, TypeParts
  <2>2. CASE EnsureStream(i) \/ StreamStops(i)
    BY <2>1, <2>2, StreamEffect DEF StreamStops
  <2>3. CASE UNCHANGED streams /\ ~StreamStops(i)
    BY <2>1, <2>3
  <2> QED  BY <2>2, <2>3
<1>3. InvocationsTyped'
  BY <1>1, <1>2, TypeParts DEF InvocationsTyped, CallsFine
<1>4. InvocationsKept
  BY <1>1, <1>2 DEF InvocationsKept
<1>5. StreamsEnd'
  BY <1>1, <1>2 DEF StreamsEnd
<1>6. ASSUME NEW j \in InvocationIds', InUse(j)' PROVE j \in InvocationIds /\ (InUse(j) \/ NewlySent(j))
  <2>1. CASE Ran(j)'
    BY <1>1, <2>1 DEF Ran, InUse
  <2>2. CASE \E q \in Calls : Sending(q)' /\ calls'[q].invocation = j
    BY <1>1, <2>2 DEF CallsFine, InUse
  <2> QED  BY <1>6, <2>1, <2>2 DEF InUse
<1> QED  BY <1>1, <1>3, <1>4, <1>5, <1>6 DEF InvocationsFine, UsedOnlyAfterGates

(* A step that leaves every invocation as it is and sends nothing. *)
LEMMA NoneMoves ==
    ASSUME TypeOK, StreamsEnd, UNCHANGED <<invocations, streams>>,
           calls' \in [Calls -> CallType],
           \A p \in Calls : InFlight(p)' => calls'[p].invocation \in InvocationIds,
           \A p \in Calls : Sending(p)' =>
               Sending(p) /\ calls'[p].invocation = calls[p].invocation
    PROVE  InvocationsFine
<1>1. InvocationIds' = InvocationIds
  BY DEF InvocationIds
<1>2. InvocationsTyped' /\ InvocationsKept /\ StreamsEnd'
  BY <1>1, TypeParts DEF InvocationsTyped, InvocationsKept, StreamsEnd
<1>3. \A j \in InvocationIds : InUse(j)' => InUse(j)
  BY DEF InUse, Ran
<1> QED  BY <1>1, <1>2, <1>3 DEF InvocationsFine, UsedOnlyAfterGates

(* A new invocation has no stream and has not been sent. *)
LEMMA OneAdded ==
    ASSUME TypeOK, StreamsEnd, NEW x \in InvocationType,
           x.state \notin {"dispatched", "running", "completed", "failed"},
           invocations' = Append(invocations, x), streams' = Append(streams, "none"),
           UNCHANGED calls
    PROVE  InvocationsFine /\ InvocationIds' = InvocationIds \cup {Len(invocations) + 1}
<1>1. PICK n : n = Len(invocations) + 1
  OBVIOUS
<1>0. /\ invocations \in Seq(InvocationType) /\ streams \in Seq(StreamStates)
      /\ Len(streams) = Len(invocations) /\ calls \in [Calls -> CallType]
      /\ \A q \in Calls : InFlight(q) => calls[q].invocation \in InvocationIds
  BY TypeParts
<1>2. /\ invocations' \in Seq(InvocationType) /\ Len(invocations') = n /\ n \in Nat
      /\ invocations'[n] = x /\ \A j \in 1..Len(invocations) : invocations'[j] = invocations[j]
  BY <1>0, <1>1
<1>3. /\ streams' \in Seq(StreamStates) /\ Len(streams') = n
      /\ streams'[n] = "none" /\ \A j \in 1..Len(invocations) : streams'[j] = streams[j]
  <2>1. "none" \in StreamStates
    BY DEF StreamStates
  <2> QED  BY <1>0, <1>1, <2>1
<1>4. InvocationIds' = InvocationIds \cup {n} /\ InvocationIds = 1..Len(invocations)
      /\ n \notin InvocationIds
  BY <1>0, <1>1, <1>2 DEF InvocationIds
<1>5. InvocationsTyped'
  BY <1>0, <1>2, <1>3, <1>4 DEF InvocationsTyped, InFlight
<1>6. InvocationsKept /\ StreamsEnd'
  BY <1>2, <1>3, <1>4 DEF InvocationsKept, StreamsEnd
<1>7. ASSUME NEW j \in InvocationIds', InUse(j)' PROVE j \in InvocationIds /\ InUse(j)
  <2>1. ~Ran(n)'
    BY <1>2 DEF Ran
  <2>2. \A q \in Calls : Sending(q)' =>
           Sending(q) /\ calls'[q].invocation = calls[q].invocation /\ calls[q].invocation \in InvocationIds
    BY <1>0 DEF Sending, InFlight
  <2>3. j # n
    BY <1>4, <1>7, <2>1, <2>2 DEF InUse
  <2>4. Ran(j)' <=> Ran(j)
    BY <1>2, <1>4, <2>3 DEF Ran
  <2> QED  BY <1>4, <1>7, <2>2, <2>3, <2>4 DEF InUse
<1> QED  BY <1>1, <1>4, <1>5, <1>6, <1>7 DEF InvocationsFine, UsedOnlyAfterGates
LEMMA CallsSame ==
    ASSUME TypeOK, UNCHANGED calls, NEW i PROVE CallsFine(i)
BY TypeParts DEF CallsFine, InFlight, Sending

LEMMA CallEnds ==
    ASSUME TypeOK, NEW q \in Calls, EndCall(q), NEW i PROVE CallsFine(i)
<1>0. PICK x : x = [kind |-> "idle", invocation |-> 0]
  OBVIOUS
<1>1. x = [kind |-> "idle", invocation |-> 0] /\ x \in CallType /\ x.kind = "idle"
  BY <1>0 DEF CallType
<1>2. /\ calls' \in [Calls -> CallType] /\ calls'[q] = x
      /\ \A p \in Calls \ {q} : calls'[p] = calls[p]
  BY <1>1, CallEffect, TypeParts DEF EndCall
<1> QED  BY <1>1, <1>2, TypeParts DEF CallsFine, InFlight, Sending

LEMMA CallStarts ==
    ASSUME TypeOK, NEW q \in Calls, NEW i \in InvocationIds,
           NEW kind \in {"dispatch", "cancel", "invoke", "complete"}, StartCall(q, kind, i),
           kind \in {"dispatch", "invoke"} => NewlySent(i)
    PROVE  CallsFine(i) /\ calls'[q] # calls[q]
<1>1. i \in Nat
  BY StreamDomain
<1>0. PICK x : x = [kind |-> kind, invocation |-> i]
  OBVIOUS
<1>2. /\ x = [kind |-> kind, invocation |-> i] /\ x \in CallType
      /\ x.kind = kind /\ x.invocation = i
  BY <1>0, <1>1 DEF CallType
<1>3. /\ calls' \in [Calls -> CallType] /\ calls'[q] = x
      /\ \A p \in Calls \ {q} : calls'[p] = calls[p]
  BY <1>2, CallEffect, TypeParts DEF StartCall
<1> QED  BY <1>2, <1>3, TypeParts DEF CallsFine, InFlight, Sending, StartCall

(* A call that goes on to complete what it has dispatched *)
LEMMA CallContinues ==
    ASSUME TypeOK, NEW q \in Calls, calls[q].kind = "invoke",
           calls' = [calls EXCEPT ![q].kind = "complete"], NEW i
    PROVE  CallsFine(i)
<1>1. calls[q] \in CallType /\ calls \in [Calls -> CallType]
  BY TypeParts
<1>2. PICK x : x = [calls[q] EXCEPT !.kind = "complete"]
  OBVIOUS
<1>3. x \in CallType /\ x.kind = "complete" /\ x.invocation = calls[q].invocation
  BY <1>1, <1>2 DEF CallType
<1>4. calls' = [calls EXCEPT ![q] = x]
  BY <1>2
<1>5. /\ calls' \in [Calls -> CallType] /\ calls'[q] = x
      /\ \A p \in Calls \ {q} : calls'[p] = calls[p]
  BY <1>1, <1>3, <1>4
<1>6. InFlight(q)
  BY DEF InFlight
<1> QED  BY <1>3, <1>5, <1>6, TypeParts DEF CallsFine, InFlight, Sending

LEMMA DisconnectFine ==
    ASSUME TypeOK, StreamsEnd, NEW a \in Agents, DisconnectAgent(a)
    PROVE  InvocationsFine /\ InvocationIds' = InvocationIds
<1>1. PICK lost \in SUBSET InvocationIds :
        /\ \A i \in lost : invocations[i].state \in {"running", "dispatched"}
        /\ invocations' = [i \in InvocationIds |->
              IF i \in lost THEN [invocations[i] EXCEPT !.state = "failed"] ELSE invocations[i]]
        /\ streams' = [i \in InvocationIds |->
              IF i \in lost /\ streams[i] = "streaming" THEN "failed" ELSE streams[i]]
        /\ UNCHANGED calls
  BY DEF DisconnectAgent
<1>2. /\ invocations \in Seq(InvocationType) /\ streams \in Seq(StreamStates)
      /\ DOMAIN streams = InvocationIds /\ Len(streams) = Len(invocations)
      /\ DOMAIN invocations = InvocationIds
  BY StreamDomain, TypeParts DEF InvocationIds
<1>3. ASSUME NEW i \in InvocationIds
      PROVE  /\ invocations'[i] \in InvocationType
             /\ invocations'[i].envelope = invocations[i].envelope
             /\ i \in lost => invocations'[i].state = "failed" /\ streams'[i] # "streaming"
             /\ i \notin lost => invocations'[i] = invocations[i] /\ streams'[i] = streams[i]
             /\ streams'[i] \in StreamStates
             /\ streams[i] # "none" => streams'[i] # "none"
             /\ streams[i] \notin {"none", "streaming"} => streams'[i] = streams[i]
  <2>1. invocations[i] \in InvocationType /\ streams[i] \in StreamStates
    BY <1>2
  <2>0. PICK x : x = [invocations[i] EXCEPT !.state = "failed"]
    OBVIOUS
  <2>2. /\ x = [invocations[i] EXCEPT !.state = "failed"] /\ x \in InvocationType
        /\ x.state = "failed" /\ x.envelope = invocations[i].envelope
    BY <2>0, <2>1 DEF InvocationType, InvocationStates, TerminalStates
  <2>3. invocations'[i] = IF i \in lost THEN x ELSE invocations[i]
    BY <1>1, <2>2
  <2>4. streams'[i] = IF i \in lost /\ streams[i] = "streaming" THEN "failed" ELSE streams[i]
    BY <1>1
  <2>5. "failed" \in StreamStates
    BY DEF StreamStates
  <2> QED  BY <2>1, <2>2, <2>3, <2>4, <2>5
<1>4. /\ DOMAIN invocations' = InvocationIds /\ DOMAIN streams' = InvocationIds
      /\ invocations' = [i \in DOMAIN invocations' |-> invocations'[i]]
      /\ streams' = [i \in DOMAIN streams' |-> streams'[i]]
  BY <1>1
<1>5. /\ invocations' \in Seq(InvocationType) /\ Len(invocations') = Len(invocations)
      /\ streams' \in Seq(StreamStates) /\ Len(streams') = Len(streams)
  BY <1>2, <1>3, <1>4, SeqRewritten
<1>6. InvocationIds' = InvocationIds
  BY <1>4 DEF InvocationIds
<1>7. InvocationsTyped'
  BY <1>1, <1>2, <1>5, <1>6, TypeParts DEF InvocationsTyped, InFlight
<1>8. InvocationsKept /\ StreamsEnd'
  BY <1>3, <1>6 DEF InvocationsKept, StreamsEnd
<1>9. ASSUME NEW j \in InvocationIds', InUse(j)' PROVE InUse(j)
  <2>1. Ran(j)' => Ran(j)
    BY <1>1, <1>3, <1>6 DEF Ran
  <2> QED  BY <1>1, <1>9, <2>1 DEF InUse, Sending
<1> QED  BY <1>6, <1>7, <1>8, <1>9 DEF InvocationsFine, UsedOnlyAfterGates

(* The newly created envelope of a provider has the type of an envelope. *)
LEMMA ProviderEnvelopeType ==
    ASSUME TypeOK, ChannelsBounded, NEW a \in Agents, NEW e \in ProviderEnvelopes(a)
    PROVE  e \in EnvelopeType
<1>1. PICK c \in IF ChannelOf(a) = {} THEN {NoChannel} ELSE ChannelOf(a) :
        e = [agent |-> a, level |-> "read_only", admissible |-> TRUE, redaction |-> TRUE,
             requireChannel |-> a \in FixtureAgents, channel |-> c]
  BY DEF ProviderEnvelopes
<1>2. ChannelOf(a) \subseteq DOMAIN channels
  BY DEF ChannelOf, GateChannels
<1>3. DOMAIN channels \subseteq 0..MaxChannels /\ NoChannel \in 0..MaxChannels
  BY ProtocolAssumption DEF TypeOK, ChannelsBounded, NoChannel
<1>4. c \in 0..MaxChannels /\ "read_only" \in ConsentLevels /\ (a \in FixtureAgents) \in BOOLEAN
  BY <1>2, <1>3 DEF ConsentLevels
<1> QED  BY <1>1, <1>4 DEF EnvelopeType
LEMMA InvocationsStep ==
    TypeOK /\ ChannelsBounded /\ StreamsEnd /\ Framed => InvocationsFine
<1> SUFFICES ASSUME TypeOK, ChannelsBounded, StreamsEnd, Framed PROVE InvocationsFine
  OBVIOUS
<1>0. /\ {"local_agent_unavailable", "policy_blocked", "awaiting_consent", "consent_denied",
          "dispatched", "running", "completed", "failed", "cancelled", "timed_out",
          "requested"} \subseteq InvocationStates
      /\ TerminalStates \subseteq InvocationStates
      /\ {"awaiting_consent", "dispatched", "running", "requested"} \cap TerminalStates = {}
  BY DEF InvocationStates, TerminalStates
<1>1. ASSUME UNCHANGED <<invocations, streams, calls>> PROVE InvocationsFine
  BY <1>1, NoneMoves, TypeParts DEF InFlight, Sending
<1>2. ASSUME NEW e \in Envelopes, NEW ask \in BOOLEAN, CreateInvocation(e, ask)
      PROVE  InvocationsFine
  <2>1. PICK s \in {"requested", "policy_blocked", "awaiting_consent"} :
          /\ invocations' = Append(invocations, [envelope |-> e, state |-> s])
          /\ streams' = Append(streams, "none") /\ UNCHANGED calls
    BY <1>2 DEF CreateInvocation
  <2>2. PICK x : x = [envelope |-> e, state |-> s]
    OBVIOUS
  <2>3. x \in InvocationType /\ x.state = s
    BY <1>0, <2>2, ProtocolAssumption DEF InvocationType
  <2> QED  BY <2>1, <2>2, <2>3, OneAdded
<1>3. ASSUME NEW q \in Calls, NEW a \in Agents, InvokeNew(q, a) PROVE InvocationsFine
  <2>1. PICK e \in ProviderEnvelopes(a),
             s \in {"local_agent_unavailable", "policy_blocked", "awaiting_consent"} :
          /\ invocations' = Append(invocations, [envelope |-> e, state |-> s])
          /\ streams' = Append(streams, "none") /\ UNCHANGED calls
    BY <1>3 DEF InvokeNew
  <2>2. PICK x : x = [envelope |-> e, state |-> s]
    OBVIOUS
  <2>3. x \in InvocationType /\ x.state = s
    BY <1>0, <2>2, ProviderEnvelopeType DEF InvocationType
  <2> QED  BY <2>1, <2>2, <2>3, OneAdded
<1>4. ASSUME NEW k \in ConsentIds, NEW value \in Decisions, RecordConsentDecision(k, value)
      PROVE  InvocationsFine
  <2>1. consents[k].invocation \in InvocationIds
    BY TypeParts
  <2>2. PICK s \in {"awaiting_consent", "consent_denied"} :
          SetState(consents[k].invocation, s) /\ UNCHANGED <<streams, calls>>
    BY <1>4 DEF RecordConsentDecision
  <2> QED  BY <1>0, <2>1, <2>2, OneMoves, CallsSame
<1>5. ASSUME NEW i \in InvocationIds,
             NEW s \in {"local_agent_unavailable", "policy_blocked", "cancelled", "timed_out"},
             SetState(i, s), StreamStops(i), CallsFine(i)
      PROVE  InvocationsFine
  BY <1>0, <1>5, OneMoves
<1>6. ASSUME NEW i \in InvocationIds,
             \/ DispatchUnavailable(i) \/ DispatchBlocked(i) \/ CancelInvocation(i)
             \/ TimeoutInvocation(i)
      PROVE  InvocationsFine
  <2>1. /\ UNCHANGED calls /\ StreamStops(i)
        /\ \E s \in {"local_agent_unavailable", "policy_blocked", "cancelled", "timed_out"} :
              SetState(i, s)
    BY <1>6 DEF DispatchUnavailable, DispatchBlocked, CancelInvocation, TimeoutInvocation,
                MarkUnavailable, MarkPolicyBlocked, SaveCancelled, StreamStops
  <2> QED  BY <1>5, <2>1, CallsSame
<1>7. ASSUME NEW i \in InvocationIds, DispatchAsks(i) PROVE InvocationsFine
  <2>1. UNCHANGED <<streams, calls>> /\ RequestConsent(i)
    BY <1>7 DEF DispatchAsks
  <2>2. UNCHANGED invocations \/ SetState(i, "awaiting_consent")
    BY <2>1 DEF RequestConsent
  <2>3. CASE SetState(i, "awaiting_consent")
    BY <1>0, <2>1, <2>3, OneMoves, CallsSame
  <2> QED  BY <1>1, <2>1, <2>2, <2>3
<1>8. ASSUME NEW i \in InvocationIds, ReceiveInvocationEvent(i) PROVE InvocationsFine
  <2>1. UNCHANGED calls /\ ((UNCHANGED invocations /\ EnsureStream(i)) \/ MarkPolicyBlocked(i))
    BY <1>8 DEF ReceiveInvocationEvent
  <2>2. CASE MarkPolicyBlocked(i)
    BY <1>5, <2>1, <2>2, CallsSame DEF MarkPolicyBlocked, StreamStops
  <2>3. CASE UNCHANGED invocations /\ EnsureStream(i)
    <3>1. /\ invocations[i] \in InvocationType /\ invocations \in Seq(InvocationType)
          /\ invocations[i].state \notin TerminalStates
      BY <1>8, InvocationTyped, TypeParts DEF ReceiveInvocationEvent
    <3>2. invocations[i] = [invocations[i] EXCEPT !.state = invocations[i].state]
          /\ invocations[i].state \in InvocationStates
      BY <3>1 DEF InvocationType
    <3>3. SetState(i, invocations[i].state)
      BY <2>3, <3>1, <3>2 DEF SetState, InvocationIds
    <3>4. invocations[i].state \in {"dispatched", "running", "completed", "failed"} => InUse(i)
      BY DEF InUse, Ran
    <3> QED  BY <2>1, <2>3, <3>1, <3>2, <3>3, <3>4, OneMoves, CallsSame
  <2> QED  BY <2>1, <2>2, <2>3
<1>9. ASSUME NEW i \in InvocationIds, NEW s \in {"completed", "failed"}, SetState(i, s),
             CompleteStream(i, s), invocations[i].state \in {"running", "dispatched"},
             CallsFine(i)
      PROVE  InvocationsFine
  <2>1. InUse(i) /\ StreamStops(i)
    BY <1>9 DEF InUse, Ran, StreamStops
  <2> QED  BY <1>0, <1>9, <2>1, OneMoves
<1>10. ASSUME NEW i \in InvocationIds, NEW s \in {"completed", "failed"}, CompleteInvocation(i, s)
       PROVE  InvocationsFine
  BY <1>9, <1>10, CallsSame DEF CompleteInvocation
<1>11. ASSUME NEW i \in InvocationIds, NEW q \in Calls, NEW kind \in {"dispatch", "invoke"},
              ChannelPasses(Envelope(i)), Admissible(Envelope(i)), Approved(i),
              SetState(i, "dispatched"), EnsureStream(i), StartCall(q, kind, i)
       PROVE  InvocationsFine
  <2>1. streams'[i] # "none"
    BY <1>11, StreamEffect, StreamDomain, TypeParts
  <2>2. NewlySent(i)
    BY <1>11, <2>1 DEF NewlySent, GatesPass
  <2>3. CallsFine(i)
    BY <1>11, <2>2, CallStarts
  <2> QED  BY <1>0, <1>11, <2>2, <2>3, OneMoves
<1>12. ASSUME NEW i \in InvocationIds, NEW q \in Calls, DispatchSends(q, i) \/ ResumeSends(q, i)
       PROVE  InvocationsFine
  BY <1>11, <1>12 DEF DispatchSends, ResumeSends
<1>13. ASSUME NEW i \in InvocationIds, NEW q \in Calls, NEW kind \in {"cancel", "complete"},
              StartCall(q, kind, i), UNCHANGED <<invocations, streams>>
       PROVE  InvocationsFine
  <2>1. CallsFine(i)
    BY <1>13, CallStarts
  <2>2. \A p \in Calls : Sending(p)' =>
           Sending(p) /\ calls'[p].invocation = calls[p].invocation
    BY <1>13, TypeParts DEF StartCall, Sending
  <2> QED  BY <1>13, <2>1, <2>2, NoneMoves DEF CallsFine
<1>14. ASSUME NEW i \in InvocationIds, NEW q \in Calls, CancelSends(q, i) PROVE InvocationsFine
  BY <1>13, <1>14 DEF CancelSends
<1>15. ASSUME NEW i \in InvocationIds, NEW q \in Calls, ResumeAsks(q, i) PROVE InvocationsFine
  <2>1. /\ UNCHANGED streams
        /\ UNCHANGED invocations \/ SetState(i, "awaiting_consent")
        /\ \/ UNCHANGED calls
           \/ invocations'[i].state # "awaiting_consent" /\ StartCall(q, "complete", i)
    BY <1>15 DEF ResumeAsks, RequestConsent
  <2>2. CASE SetState(i, "awaiting_consent")
    <3>1. invocations'[i].state = "awaiting_consent"
      BY <1>0, <2>2, SetStateEffect, TypeParts
    <3>2. CallsFine(i)
      BY <2>1, <3>1, CallsSame
    <3> QED  BY <1>0, <2>1, <2>2, <3>2, OneMoves
  <2>3. CASE UNCHANGED invocations
    <3>1. CASE UNCHANGED calls
      BY <1>1, <2>1, <2>3, <3>1
    <3>2. CASE StartCall(q, "complete", i)
      BY <1>13, <2>1, <2>3, <3>2
    <3> QED  BY <2>1, <3>1, <3>2
  <2> QED  BY <2>1, <2>2, <2>3
<1>16. ASSUME NEW q \in Calls, EndCall(q), UNCHANGED <<invocations, streams>>
       PROVE  InvocationsFine
  <2>1. CallsFine(0)
    BY <1>16, CallEnds
  <2>2. \A p \in Calls : Sending(p)' =>
           Sending(p) /\ calls'[p].invocation = calls[p].invocation
    BY <1>16, TypeParts DEF EndCall, Sending
  <2> QED  BY <1>16, <2>1, <2>2, NoneMoves DEF CallsFine
<1>17. ASSUME NEW q \in Calls, NEW result \in TransportResults,
              DispatchReturns(q, result) \/ InvokeReturns(q, result)
       PROVE  InvocationsFine
  <2>1. PICK i \in InvocationIds : i = calls[q].invocation /\ InUse(i)
    BY <1>17, TypeParts DEF DispatchReturns, InvokeReturns, InFlight, InUse, Sending
  <2>2. CallsFine(i)
    BY <1>17, CallEnds, CallContinues DEF DispatchReturns, InvokeReturns
  <2>3. CASE SetState(i, "running") /\ UNCHANGED streams
    BY <1>0, <2>1, <2>2, <2>3, OneMoves
  <2>4. CASE MarkUnavailable(i)
    BY <1>5, <2>2, <2>4 DEF MarkUnavailable, StreamStops
  <2>5. CASE EndCall(q) /\ UNCHANGED <<invocations, streams>>
    BY <1>16, <2>5
  <2> QED  BY <1>17, <2>1, <2>3, <2>4, <2>5 DEF DispatchReturns, InvokeReturns
<1>18. ASSUME NEW q \in Calls, NEW result \in TransportResults, CancelReturns(q, result)
       PROVE  InvocationsFine
  <2>1. PICK i \in InvocationIds : i = calls[q].invocation
    BY <1>18, TypeParts DEF CancelReturns, InFlight
  <2>2. EndCall(q) /\ (SaveCancelled(i) \/ UNCHANGED <<invocations, streams>>)
    BY <1>18, <2>1 DEF CancelReturns
  <2>3. CASE SaveCancelled(i)
    BY <1>5, <2>2, <2>3, CallEnds DEF SaveCancelled, StreamStops
  <2> QED  BY <1>16, <2>2, <2>3
<1>19. ASSUME NEW q \in Calls, InvokeCompletes(q) PROVE InvocationsFine
  <2>1. PICK i \in InvocationIds : i = calls[q].invocation
    BY <1>19, TypeParts DEF InvokeCompletes, InFlight
  <2>2. EndCall(q) /\ \/ /\ invocations[i].state \in {"running", "dispatched"}
                         /\ SetState(i, "completed") /\ CompleteStream(i, "completed")
                      \/ UNCHANGED <<invocations, streams>>
    BY <1>19, <2>1 DEF InvokeCompletes
  <2>3. CallsFine(i)
    BY <2>2, CallEnds
  <2> QED  BY <1>9, <1>16, <2>2, <2>3
<1>20. ASSUME NEW a \in Agents, DisconnectAgent(a) PROVE InvocationsFine
  BY <1>20, DisconnectFine
<1> QED  BY <1>1, <1>2, <1>3, <1>4, <1>6, <1>7, <1>8, <1>10, <1>12, <1>14, <1>15, <1>17, <1>18,
            <1>19, <1>20 DEF Framed, InvocationActions
LEMMA ConsentsStep ==
    TypeOK /\ InvocationsKept /\ Framed => consents' \in Seq(ConsentType) /\ ConsentsKept
<1> SUFFICES ASSUME TypeOK, InvocationsKept, Framed
             PROVE  consents' \in Seq(ConsentType) /\ ConsentsKept
  OBVIOUS
<1> DEFINE Kept == consents' \in Seq(ConsentType) /\ ConsentsKept
<1>0. /\ InvocationIds \subseteq InvocationIds' /\ consents \in Seq(ConsentType)
      /\ invocations \in Seq(InvocationType)
  BY TypeParts DEF InvocationsKept
<1>1. CASE UNCHANGED consents
  BY <1>0, <1>1 DEF ConsentsKept, ConsentIds
<1>2. ASSUME NEW k \in ConsentIds, NEW value \in Decisions, RecordConsentDecision(k, value)
      PROVE  Kept
  BY <1>2, DecisionRecorded
<1>3. ASSUME NEW i \in InvocationIds, RequestConsent(i) PROVE Kept
  BY <1>0, <1>3, RequestEffect
<1>4. ASSUME NEW x, invocations' = Append(invocations, x),
             consents' = Append(consents, NewConsent(Len(invocations) + 1))
      PROVE  Kept
  <2>1. Len(invocations) + 1 \in Nat /\ Len(invocations) + 1 \in InvocationIds'
    BY <1>0, <1>4 DEF InvocationIds
  <2> QED  BY <1>4, <2>1, ConsentAdded
<1>5. ASSUME NEW e \in Envelopes, NEW ask \in BOOLEAN, CreateInvocation(e, ask) PROVE Kept
  BY <1>1, <1>4, <1>5 DEF CreateInvocation
<1>6. ASSUME NEW q \in Calls, NEW a \in Agents, InvokeNew(q, a) PROVE Kept
  BY <1>1, <1>4, <1>6 DEF InvokeNew
<1> QED  BY <1>1, <1>2, <1>3, <1>5, <1>6 DEF Framed, ConsentActions, DispatchAsks, ResumeAsks

(***************************************************************************)
(* The inductive invariant                                                 *)
(***************************************************************************)

(* What a provider has answered as completed *)
AnswersBacked ==
    \A i \in answered :
        i \in InvocationIds /\ WasApproved(i) /\ streams[i] \notin {"none", "streaming"}

ProviderInv ==
    /\ TypeOK /\ ChannelsBounded
    /\ SessionsFollowAgents /\ StreamsEnd /\ SentBeforeUse /\ AnswersBacked

(* The gates dispatchInvocation evaluates leave their evidence. *)
LEMMA GatesLeaveEvidence ==
    ASSUME TypeOK, NEW i \in InvocationIds, GatesPass(i) PROVE WasApproved(i) /\ HadChannel(i)
<1>1. WasApproved(i)
  <2>1. PICK k \in ConsentIds :
          /\ consents[k].invocation = i /\ consents[k].decisions # <<>>
          /\ Last(consents[k].decisions).value \in Approvals
    BY DEF GatesPass, Approved, UsableConsent
  <2>2. consents[k].decisions \in Seq(DecisionType)
    <3>1. consents[k] \in ConsentType
      BY DEF TypeOK, ConsentIds
    <3> QED  BY <3>1 DEF ConsentType, DecisionType
  <2>3. Last(consents[k].decisions) \in Range(consents[k].decisions)
    BY <2>1, <2>2 DEF Last, Range
  <2> QED  BY <2>1, <2>3 DEF WasApproved, GatesPass
<1>2. ASSUME ChannelRequired(Envelope(i))
      PROVE  \E c \in DOMAIN channels :
                /\ channels[c].agent = AgentOf(i)
                /\ Envelope(i).channel \in {c, NoChannel}
                /\ channels[c].status # "pending"
                /\ channels[c].handshake # "challenge_issued"
  <2>1. PICK c \in GateChannels(Envelope(i)) : Verified(Envelope(i), c)
    BY <1>2 DEF GatesPass, ChannelPasses
  <2>2. c \in DOMAIN channels /\ Envelope(i).channel \in {c, NoChannel}
    BY DEF GateChannels
  <2> QED  BY <2>1, <2>2 DEF Verified, AgentOf
<1> QED  BY <1>1, <1>2 DEF HadChannel

LEMMA EvidenceKept ==
    ASSUME ChannelsKept, ConsentsKept, InvocationsKept, NEW i \in InvocationIds
    PROVE  /\ WasApproved(i) => WasApproved(i)'
           /\ HadChannel(i) => HadChannel(i)'
<1>1. Envelope(i)' = Envelope(i) /\ AgentOf(i)' = AgentOf(i)
  BY DEF InvocationsKept, Envelope, AgentOf
<1>2. WasApproved(i) => WasApproved(i)'
  BY <1>1 DEF WasApproved, ConsentsKept, Admissible
<1>3. HadChannel(i) => HadChannel(i)'
  BY <1>1 DEF HadChannel, ChannelsKept, ChannelRequired
<1> QED  BY <1>2, <1>3

LEMMA InvariantInit == ProviderInit => ProviderInv
<1> SUFFICES ASSUME ProviderInit PROVE ProviderInv
  OBVIOUS
<1>1. TypeOK
  <2>1. [kind |-> "idle", invocation |-> 0] \in CallType
    BY DEF CallType
  <2> QED  BY <2>1, TypeParts, ProtocolAssumption
           DEF ProviderInit, Init, ConsentIds, InvocationIds, InFlight
<1>2. ChannelsBounded
  BY ProtocolAssumption DEF ProviderInit, Init, ChannelsBounded
<1>3. SessionsFollowAgents /\ StreamsEnd /\ SentBeforeUse /\ AnswersBacked
  BY DEF ProviderInit, Init, SessionsFollowAgents, ActiveSessions, StreamsEnd, SentBeforeUse,
         AnswersBacked, InvocationIds
<1> QED  BY <1>1, <1>2, <1>3 DEF ProviderInv

LEMMA InvariantStep == ProviderInv /\ [ProviderNext]_providerVars => ProviderInv'
<1> SUFFICES ASSUME ProviderInv, [ProviderNext]_providerVars PROVE ProviderInv'
  OBVIOUS
<1>0. TypeOK /\ ChannelsBounded /\ SessionsFollowAgents /\ StreamsEnd /\ Framed
  BY Frames DEF ProviderInv
<1>1. channels' \in Seq(ChannelType) /\ ChannelsBounded' /\ ChannelsKept
  BY <1>0, ChannelsStep
<1>2. /\ registrations' \in [Agents -> RegistrationStatuses \cup {"absent"}]
      /\ sessions' \in Seq(SessionType) /\ SessionsFollowAgents'
  BY <1>0, AgentsStep
<1>3. InvocationsTyped' /\ InvocationsKept /\ StreamsEnd' /\ UsedOnlyAfterGates
  BY <1>0, InvocationsStep DEF InvocationsFine
<1>4. consents' \in Seq(ConsentType) /\ ConsentsKept
  BY <1>0, <1>3, ConsentsStep
<1>5. TypeOK'
  <2>1. \A k \in ConsentIds' : consents'[k].invocation \in InvocationIds'
    BY <1>0, <1>3, <1>4, TypeParts DEF ConsentsKept, InvocationsKept
  <2> QED  BY <1>0, <1>1, <1>2, <1>3, <1>4, <2>1, ClockStep
           DEF TypeOK, InvocationsTyped, InvocationType, CallType
<1>6. SentBeforeUse'
  <2> SUFFICES ASSUME NEW i \in InvocationIds', InUse(i)' PROVE WasSent(i)'
    BY DEF SentBeforeUse
  <2>1. i \in InvocationIds /\ (InUse(i) \/ NewlySent(i))
    BY <1>3 DEF UsedOnlyAfterGates
  <2>2. WasApproved(i) /\ HadChannel(i)
    BY <1>0, <2>1, GatesLeaveEvidence DEF ProviderInv, SentBeforeUse, WasSent, NewlySent
  <2>3. streams'[i] # "none"
    BY <1>3, <2>1 DEF ProviderInv, SentBeforeUse, WasSent, NewlySent, InvocationsKept
  <2> QED  BY <1>1, <1>3, <1>4, <2>1, <2>2, <2>3, EvidenceKept DEF WasSent
<1>7. AnswersBacked'
  <2>1. ASSUME NEW i \in answered
        PROVE  /\ i \in InvocationIds' /\ WasApproved(i)'
               /\ streams'[i] \notin {"none", "streaming"}
    <3>1. i \in InvocationIds /\ WasApproved(i) /\ streams[i] \notin {"none", "streaming"}
      BY DEF ProviderInv, AnswersBacked
    <3>2. i \in InvocationIds' /\ streams'[i] = streams[i]
      BY <1>3, <3>1 DEF InvocationsKept
    <3> QED  BY <1>1, <1>3, <1>4, <3>1, <3>2, EvidenceKept
  <2>2. CASE UNCHANGED answered
    BY <2>1, <2>2 DEF AnswersBacked
  <2>3. ASSUME NEW q \in Calls, InvokeCompletes(q) PROVE AnswersBacked'
    <3>1. PICK i \in InvocationIds : i = calls[q].invocation
      BY <1>0, <2>3, TypeParts DEF InvokeCompletes, InFlight
    <3>2. CASE /\ invocations[i].state \in {"running", "dispatched"}
               /\ CompleteStream(i, "completed") /\ answered' = answered \cup {i}
      <4>1. WasSent(i)
        BY <3>1, <3>2 DEF ProviderInv, SentBeforeUse, InUse, Ran
      <4>2. streams'[i] # "streaming" /\ streams'[i] # "none"
        <5>1. streams \in Seq(StreamStates) /\ i \in DOMAIN streams
          BY <1>0, <3>1, StreamDomain, TypeParts
        <5> QED  BY <3>2, <4>1, <5>1, StreamEffect DEF WasSent
      <4>3. i \in InvocationIds' /\ WasApproved(i)'
        BY <1>1, <1>3, <1>4, <3>1, <4>1, EvidenceKept DEF WasSent, InvocationsKept
      <4> QED  BY <2>1, <3>2, <4>2, <4>3 DEF AnswersBacked
    <3>3. CASE UNCHANGED answered
      BY <2>2, <3>3
    <3> QED  BY <2>3, <3>1, <3>2, <3>3 DEF InvokeCompletes
  <2> QED  BY <1>0, <2>2, <2>3 DEF Framed
<1> QED  BY <1>1, <1>2, <1>3, <1>5, <1>6, <1>7 DEF ProviderInv

(***************************************************************************)
(* Theorems                                                                *)
(***************************************************************************)

LEMMA InvariantHolds == ProviderSpec => []ProviderInv
BY InvariantInit, InvariantStep, PTL DEF ProviderSpec

(* The repositories keep their shape: every invocation has its stream slot *)
(* and consents and calls in flight name invocations that exist.           *)
THEOREM ProtocolTypeCorrect == ProviderSpec => []TypeOK
<1>1. ProviderInv => TypeOK
  BY DEF ProviderInv
<1> QED  BY <1>1, InvariantHolds, PTL

(* An agent has at most one active session and only while connected, for   *)
(* every sequence of registrations, heartbeats, revocations,               *)
(* disconnections and expiries.                                            *)
THEOREM SessionsAlwaysFollowAgents == ProviderSpec => []SessionsFollowAgents
<1>1. ProviderInv => SessionsFollowAgents
  BY DEF ProviderInv
<1> QED  BY <1>1, InvariantHolds, PTL

(* Nothing runs, or has run, without the user's approval and an admissible *)
(* envelope, however many dispatches and invokes of it overlap and however *)
(* late the transport answers them.                                        *)
THEOREM RunsAlwaysApproved == ProviderSpec => []RunsWereApproved
<1>1. ProviderInv => RunsWereApproved
  BY DEF ProviderInv, SentBeforeUse, RunsWereApproved, InUse, WasSent, WasApproved
<1> QED  BY <1>1, InvariantHolds, PTL

(* Whatever needed a channel to run had one of its own agent whose         *)
(* handshake was answered, whatever has become of the channel since.       *)
THEOREM RunsAlwaysHadChannel == ProviderSpec => []RunsHadChannel
<1>1. ProviderInv => RunsHadChannel
  BY DEF ProviderInv, SentBeforeUse, RunsHadChannel, InUse, WasSent, HadChannel
<1> QED  BY <1>1, InvariantHolds, PTL

(* An invocation that has ended has no open stream, whichever of several   *)
(* overlapping calls ended it.                                             *)
THEOREM StreamsAlwaysEnd == ProviderSpec => []StreamsEnd
<1>1. ProviderInv => StreamsEnd
  BY DEF ProviderInv
<1> QED  BY <1>1, InvariantHolds, PTL

(* What a provider answers as completed was approved, was sent and has     *)
(* ended its stream, whatever happens to the invocation afterwards.        *)
THEOREM ResultsAlwaysTrue == ProviderSpec => []ResultsAreTrue
<1>1. ProviderInv => ResultsAreTrue
  BY DEF ProviderInv, AnswersBacked, ResultsAreTrue, WasApproved
<1> QED  BY <1>1, InvariantHolds, PTL
(* A finished invocation changes its state only through a call that was    *)
(* already in flight, which ends, or through another decision on its       *)
(* consent: no other route reaches it again.                               *)
THEOREM FinishedStatesAlwaysHold == ProviderSpec => FinishedStatesHold
<1> DEFINE Excused(i) ==
             \/ \E q \in Calls : calls[q].invocation = i /\ calls'[q] # calls[q]
             \/ \E k \in ConsentIds : consents[k].invocation = i /\ consents'[k] # consents[k]
           Reopened(i) == ~Cancellable(i) /\ invocations'[i] # invocations[i]
<1>1. ASSUME TypeOK, Framed, NEW i \in InvocationIds, Reopened(i) PROVE Excused(i)
  <2>0. /\ invocations[i].state \in {"completed", "failed", "timed_out", "cancelled"}
        /\ invocations[i].state \in TerminalStates
        /\ invocations \in Seq(InvocationType) /\ i \in DOMAIN invocations
    BY <1>1, TypeParts DEF Cancellable, TerminalStates, InvocationIds
  <2>1. ASSUME NEW j, NEW s, SetState(j, s) PROVE j = i
    BY <1>1, <2>0, <2>1 DEF SetState
  <2>2. ASSUME UNCHANGED invocations PROVE FALSE
    BY <1>1, <2>2
  <2>3. ASSUME NEW q \in Calls, calls[q].kind # "idle", EndCall(q), calls[q].invocation = i
        PROVE  Excused(i)
    <3>1. calls'[q].kind = "idle"
      BY <1>1, <2>3, TypeParts DEF EndCall
    <3> QED  BY <2>3, <3>1
  <2>4. ASSUME NEW q \in Calls, NEW result \in TransportResults,
               \/ DispatchReturns(q, result) \/ CancelReturns(q, result)
               \/ InvokeReturns(q, result)
        PROVE  Excused(i)
    <3>1. calls[q].invocation = i
      BY <2>1, <2>2, <2>4
         DEF DispatchReturns, CancelReturns, InvokeReturns, MarkUnavailable, SaveCancelled
    <3>2. CASE EndCall(q)
      BY <2>3, <2>4, <3>1, <3>2 DEF DispatchReturns, CancelReturns, InvokeReturns
    <3>3. CASE calls[q].kind = "invoke" /\ calls' = [calls EXCEPT ![q].kind = "complete"]
      <4>1. calls[q] \in CallType /\ calls \in [Calls -> CallType]
        BY <1>1, TypeParts
      <4>2. calls'[q].kind = "complete"
        BY <3>3, <4>1 DEF CallType
      <4> QED  BY <3>1, <3>3, <4>2
    <3> QED  BY <2>4, <3>2, <3>3 DEF DispatchReturns, CancelReturns, InvokeReturns
  <2>5. ASSUME NEW q \in Calls, InvokeCompletes(q) PROVE Excused(i)
    BY <2>1, <2>2, <2>3, <2>5 DEF InvokeCompletes
  <2>6. ASSUME NEW k \in ConsentIds, NEW value \in Decisions, RecordConsentDecision(k, value)
        PROVE  Excused(i)
    <3>1. consents[k].invocation = i
      BY <2>1, <2>6 DEF RecordConsentDecision
    <3> QED  BY <1>1, <2>6, <3>1, DecisionRecorded
  <2>7. ASSUME NEW a \in Agents, DisconnectAgent(a) PROVE FALSE
    BY <1>1, <2>0, <2>7 DEF DisconnectAgent
  <2>8. ASSUME NEW x, invocations' = Append(invocations, x) PROVE FALSE
    BY <1>1, <2>0, <2>8
  <2>9. ASSUME NEW j \in InvocationIds,
               \/ DispatchUnavailable(j) \/ DispatchBlocked(j) \/ DispatchAsks(j)
               \/ ReceiveInvocationEvent(j) \/ CancelInvocation(j) \/ TimeoutInvocation(j)
               \/ \E state \in {"completed", "failed"} : CompleteInvocation(j, state)
               \/ \E q \in Calls : \/ DispatchSends(q, j) \/ CancelSends(q, j)
                                   \/ ResumeAsks(q, j) \/ ResumeSends(q, j)
        PROVE  FALSE
    <3>1. CASE j = i
      BY <2>0, <2>2, <2>9, <3>1
         DEF DispatchUnavailable, DispatchBlocked, DispatchAsks, ReceiveInvocationEvent,
             CancelInvocation, TimeoutInvocation, CompleteInvocation, DispatchSends, CancelSends,
             ResumeAsks, ResumeSends, Reachable, Dispatchable, Cancellable
    <3>2. CASE j # i
      BY <2>1, <2>2, <2>9, <3>2
         DEF DispatchUnavailable, DispatchBlocked, DispatchAsks, ReceiveInvocationEvent,
             CancelInvocation, TimeoutInvocation, CompleteInvocation, DispatchSends, CancelSends,
             ResumeAsks, ResumeSends, MarkUnavailable, MarkPolicyBlocked, RequestConsent,
             SaveCancelled
    <3> QED  BY <3>1, <3>2
  <2> QED  BY <1>1, <2>2, <2>4, <2>5, <2>6, <2>7, <2>8, <2>9
           DEF Framed, InvocationActions, CreateInvocation, InvokeNew
<1>2. ProviderInv /\ [ProviderNext]_providerVars =>
        [\A i \in InvocationIds :
            (/\ ~Cancellable(i)
             /\ invocations'[i] # invocations[i])
            => \/ \E q \in Calls : calls[q].invocation = i /\ calls'[q] # calls[q]
               \/ \E k \in ConsentIds : consents[k].invocation = i /\ consents'[k] # consents[k]]_vars
  BY <1>1, Frames DEF ProviderInv
<1> QED  BY <1>2, InvariantInit, InvariantStep, PTL DEF ProviderSpec, FinishedStatesHold

=============================================================================
