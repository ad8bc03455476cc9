---------------------------- MODULE MCProviders ----------------------------
(* EnterpriseProviders with a fixture agent, which needs a channel, and    *)
(* two calls, of the HTTP API and of providers, on the same invocation.    *)
EXTENDS EnterpriseProviders, TLC

Ask(level, redaction, channel) ==
    [agent |-> "fixture", level |-> level, admissible |-> TRUE, redaction |-> redaction,
     requireChannel |-> channel # NoChannel, channel |-> channel]

MCEnvelopes == {Ask("read_only", TRUE, 1), Ask("danger_full_access", TRUE, NoChannel),
                Ask("read_only", FALSE, NoChannel)}
MCTtls == {1}
MCAllResults == {"ok", "unavailable", "rejected"}
MCSymmetry == Permutations(Calls)

\* Nothing reads when a session that is over was issued, or how it ended.
SessionView(s) == IF sessions[s].status = "active" THEN sessions[s] ELSE <<>>

\* Of the decisions on a request, the last one counts, the millisecond of the
\* last one orders the next, and the properties ask whether one approved.
ConsentView(k) ==
    LET made == consents[k].decisions
    IN  <<consents[k].invocation, consents[k].requestedAt, Len(made),
          \E d \in Range(made) : d.value \in Approvals>>
        \o (IF made = <<>> THEN <<>> ELSE <<Last(made).value>>)
        \o (IF Len(made) \in 1..(MaxDecisions - 1) THEN <<Last(made).at>> ELSE <<>>)

MCView == <<registrations, [s \in DOMAIN sessions |-> SessionView(s)], channels, invocations,
            streams, [k \in ConsentIds |-> ConsentView(k)], calls, clock, answered>>
=============================================================================
