SPECIFICATION ProviderSpec
CONSTANTS
    Agents = {"fixture"}
    FixtureAgents = {"fixture"}
    Envelopes <- MCEnvelopes
    Calls = {q1, q2}
    TransportResults <- MCAllResults
    SessionTtl = 1
    HandshakeTtl = 1
    ConsentTtl = 1
    ChannelTtls <- MCTtls
    MaxSessions = 2
    MaxChannels = 1
    MaxInvocations = 1
    MaxConsents = 2
    MaxDecisions = 2
    MaxClock = 1
SYMMETRY MCSymmetry
VIEW MCView
INVARIANTS
    SessionsFollowAgents
    RunsWereApproved
    RunsHadChannel
    StreamsEnd
    ResultsAreTrue
PROPERTY FinishedStatesHold
CHECK_DEADLOCK FALSE
