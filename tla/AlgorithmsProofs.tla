-------------------------- MODULE AlgorithmsProofs --------------------------
(***************************************************************************)
(* The algorithms compute what they should on every input: every request   *)
(* and every fact it reports, every registry and its dependencies, every   *)
(* environment of the git service, every tool, server and actor.           *)
(***************************************************************************)
EXTENDS Algorithms, TaskWorkflowProofs

(***************************************************************************)
(* Conflict risk                                                           *)
(***************************************************************************)

(* The score of a pair of branches and the decision on one of them         *)
(* (createConflictRisk, mergeQueueDecision) amount to the rule that        *)
(* BlockedExactlyWhen states, for any files, dry runs and classification.  *)
THEOREM BlockedAlwaysExactlyWhen == InputOK => BlockedExactlyWhen
BY BlockingRule DEF BlockedExactlyWhen

(***************************************************************************)
(* The table of policy rules                                               *)
(***************************************************************************)

LEMMA RuleFields ==
    ASSUME NEW effect, NEW action, NEW kind, NEW priority, NEW conditions
    PROVE  LET rule == Rule(effect, action, kind, priority, conditions) IN
           /\ rule.effect = effect /\ rule.action = action /\ rule.kind = kind
           /\ rule.priority = priority /\ rule.conditions = conditions
BY DEF Rule

\* The table is written in chapters; an action has its rules in one of them.
Acts(rules) == {rule.action : rule \in rules}

LEMMA ActionsOfChapters ==
    /\ Acts(GitRemoteRules) = {"git.remote_operation"}
    /\ Acts(WebhookRules) = {"git.webhook.receive", "git.webhook.verify",
                             "git.webhook.process"}
    /\ Acts(GitSyncRules) = {"git.pull_request.sync", "git.branch.sync",
                             "git.changed_files.read", "git.credential.resolve",
                             "git.merge", "git.rebase", "git.branch.delete"}
    /\ Acts(GitCreateRules) = {"git.branch.create", "git.pull_request.create"}
    /\ Acts(LlmRules) = {"llm.remote_completion", "llm.model.use", "llm.completion",
                         "llm.credential.resolve"}
    /\ Acts(LlmRoutingRules) = {"llm.route.select", "llm.fallback"}
    /\ Acts(RunnerRules) = {"runner.command.execute", "runner.execute"}
    /\ Acts(RegistryRules) = {"registry.create", "registry.update", "registry.approve",
                              "registry.rollback"}
    /\ Acts(ImprovementRules) = {"improvement.apply", "improvement.proposal.create",
                                 "improvement.proposal.approve",
                                 "improvement.draft_change.prepare"}
    /\ Acts(ProviderRules) = {"provider.cloud_api.invoke", "provider.credential.resolve",
                              "provider.pty.invoke"}
    /\ Acts(CredentialCacheRules) = {"credential.cache.read", "credential.cache.upload",
                                     "local_cli.invoke", "local_cli.danger_full_access",
                                     "local_cli.shell_execution", "local_cli.file_write",
                                     "local_cli.network_access"}
    /\ Acts(LocalAgentRules) = {"local_agent.register", "local_agent.channel.create",
                                "local_agent.handshake.verify",
                                "local_agent.capability.advertise",
                                "local_agent.compatibility.check", "local_agent.revoke",
                                "local_agent.cancel", "local_agent.event.receive",
                                "local_agent.stream.receive", "local_agent.session.expire",
                                "local_agent.session.approve"}
    /\ Acts(ConsentRules) = {"local_agent.consent.request", "local_agent.consent.approve",
                             "local_agent.invoke", "local_cli.template.use"}
    /\ Acts(ProviderInvokeRules) = {"provider.local_cli.invoke", "provider.invoke"}
    /\ Acts(SecretRules) = {"secret.metadata.read", "secret.lease.request",
                            "secret.lease.issue", "secret.lease.revoke",
                            "runner.secret.inject", "network.egress",
                            "local_agent.secret.forward", "audit.secret.view"}
    /\ Acts(SandboxRules) = {"sandbox.profile.use", "sandbox.session.create"}
    /\ Acts(McpRules) = {"mcp.server.list", "mcp.tool.list", "mcp.tool.invoke.low_risk",
                         "mcp.tool.invoke", "mcp.tool.invoke.high_risk",
                         "mcp.tool.invoke.critical", "mcp.tool.secret.resolve",
                         "mcp.tool.network_access", "mcp.tool.write"}
    /\ Acts(McpCallRules) = {"mcp.tool.deploy", "mcp.tool.call", "secret.read"}
    /\ Acts(PlatformRules) = {"dashboard.read", "auth.read", "auth.authorize.check",
                              "auth.admin", "task.run", "task.create"}
<1>1. Acts(GitRemoteRules) = {"git.remote_operation"}
  BY RuleFields DEF Acts, GitRemoteRules
<1>2. Acts(WebhookRules) = {"git.webhook.receive", "git.webhook.verify",
                            "git.webhook.process"}
  BY RuleFields DEF Acts, WebhookRules
<1>3. Acts(GitSyncRules) = {"git.pull_request.sync", "git.branch.sync",
                            "git.changed_files.read", "git.credential.resolve",
                            "git.merge", "git.rebase", "git.branch.delete"}
  BY RuleFields DEF Acts, GitSyncRules
<1>4. Acts(GitCreateRules) = {"git.branch.create", "git.pull_request.create"}
  BY RuleFields DEF Acts, GitCreateRules
<1>5. Acts(LlmRules) = {"llm.remote_completion", "llm.model.use", "llm.completion",
                        "llm.credential.resolve"}
  BY RuleFields DEF Acts, LlmRules
<1>6. Acts(LlmRoutingRules) = {"llm.route.select", "llm.fallback"}
  BY RuleFields DEF Acts, LlmRoutingRules
<1>7. Acts(RunnerRules) = {"runner.command.execute", "runner.execute"}
  BY RuleFields DEF Acts, RunnerRules
<1>8. Acts(RegistryRules) = {"registry.create", "registry.update", "registry.approve",
                             "registry.rollback"}
  BY RuleFields DEF Acts, RegistryRules
<1>9. Acts(ImprovementRules) = {"improvement.apply", "improvement.proposal.create",
                                "improvement.proposal.approve",
                                "improvement.draft_change.prepare"}
  BY RuleFields DEF Acts, ImprovementRules
<1>10. Acts(ProviderRules) = {"provider.cloud_api.invoke", "provider.credential.resolve",
                             "provider.pty.invoke"}
  BY RuleFields DEF Acts, ProviderRules
<1>11. Acts(CredentialCacheRules) = {"credential.cache.read", "credential.cache.upload",
                                    "local_cli.invoke", "local_cli.danger_full_access",
                                    "local_cli.shell_execution", "local_cli.file_write",
                                    "local_cli.network_access"}
  BY RuleFields DEF Acts, CredentialCacheRules
<1>12. Acts(LocalAgentRules) = {"local_agent.register", "local_agent.channel.create",
                               "local_agent.handshake.verify",
                               "local_agent.capability.advertise",
                               "local_agent.compatibility.check", "local_agent.revoke",
                               "local_agent.cancel", "local_agent.event.receive",
                               "local_agent.stream.receive", "local_agent.session.expire",
                               "local_agent.session.approve"}
  BY RuleFields DEF Acts, LocalAgentRules
<1>13. Acts(ConsentRules) = {"local_agent.consent.request", "local_agent.consent.approve",
                            "local_agent.invoke", "local_cli.template.use"}
  BY RuleFields DEF Acts, ConsentRules
<1>14. Acts(ProviderInvokeRules) = {"provider.local_cli.invoke", "provider.invoke"}
  BY RuleFields DEF Acts, ProviderInvokeRules
<1>15. Acts(SecretRules) = {"secret.metadata.read", "secret.lease.request",
                           "secret.lease.issue", "secret.lease.revoke",
                           "runner.secret.inject", "network.egress",
                           "local_agent.secret.forward", "audit.secret.view"}
  BY RuleFields DEF Acts, SecretRules
<1>16. Acts(SandboxRules) = {"sandbox.profile.use", "sandbox.session.create"}
  BY RuleFields DEF Acts, SandboxRules
<1>17. Acts(McpRules) = {"mcp.server.list", "mcp.tool.list", "mcp.tool.invoke.low_risk",
                        "mcp.tool.invoke", "mcp.tool.invoke.high_risk",
                        "mcp.tool.invoke.critical", "mcp.tool.secret.resolve",
                        "mcp.tool.network_access", "mcp.tool.write"}
  BY RuleFields DEF Acts, McpRules
<1>18. Acts(McpCallRules) = {"mcp.tool.deploy", "mcp.tool.call", "secret.read"}
  BY RuleFields DEF Acts, McpCallRules
<1>19. Acts(PlatformRules) = {"dashboard.read", "auth.read", "auth.authorize.check",
                             "auth.admin", "task.run", "task.create"}
  BY RuleFields DEF Acts, PlatformRules
<1> QED  BY <1>1, <1>2, <1>3, <1>4, <1>5, <1>6, <1>7, <1>8, <1>9, <1>10, <1>11, <1>12, <1>13, <1>14, <1>15, <1>16, <1>17, <1>18, <1>19

LEMMA SameChapter ==
    ASSUME NEW a \in Rules, NEW b \in Rules, a.action = b.action
    PROVE  /\ (b \in GitRemoteRules) => (a \in GitRemoteRules)
           /\ (b \in WebhookRules) => (a \in WebhookRules)
           /\ (b \in GitSyncRules) => (a \in GitSyncRules)
           /\ (b \in GitCreateRules) => (a \in GitCreateRules)
           /\ (b \in LlmRules) => (a \in LlmRules)
           /\ (b \in LlmRoutingRules) => (a \in LlmRoutingRules)
           /\ (b \in RunnerRules) => (a \in RunnerRules)
           /\ (b \in RegistryRules) => (a \in RegistryRules)
           /\ (b \in ImprovementRules) => (a \in ImprovementRules)
           /\ (b \in ProviderRules) => (a \in ProviderRules)
           /\ (b \in CredentialCacheRules) => (a \in CredentialCacheRules)
           /\ (b \in LocalAgentRules) => (a \in LocalAgentRules)
           /\ (b \in ConsentRules) => (a \in ConsentRules)
           /\ (b \in ProviderInvokeRules) => (a \in ProviderInvokeRules)
           /\ (b \in SecretRules) => (a \in SecretRules)
           /\ (b \in SandboxRules) => (a \in SandboxRules)
           /\ (b \in McpRules) => (a \in McpRules)
           /\ (b \in McpCallRules) => (a \in McpCallRules)
           /\ (b \in PlatformRules) => (a \in PlatformRules)
<1>1. \A rules : \A r \in rules : r.action \in Acts(rules)
  BY DEF Acts
<1>2. ASSUME b \in GitRemoteRules PROVE a \in GitRemoteRules
  <2>1. a.action \in Acts(GitRemoteRules)
    BY <1>1, <1>2
  <2>2. /\ a.action \notin Acts(WebhookRules)
        /\ a.action \notin Acts(GitSyncRules)
        /\ a.action \notin Acts(GitCreateRules)
        /\ a.action \notin Acts(LlmRules)
        /\ a.action \notin Acts(LlmRoutingRules)
        /\ a.action \notin Acts(RunnerRules)
        /\ a.action \notin Acts(RegistryRules)
        /\ a.action \notin Acts(ImprovementRules)
        /\ a.action \notin Acts(ProviderRules)
        /\ a.action \notin Acts(CredentialCacheRules)
        /\ a.action \notin Acts(LocalAgentRules)
        /\ a.action \notin Acts(ConsentRules)
        /\ a.action \notin Acts(ProviderInvokeRules)
        /\ a.action \notin Acts(SecretRules)
        /\ a.action \notin Acts(SandboxRules)
        /\ a.action \notin Acts(McpRules)
        /\ a.action \notin Acts(McpCallRules)
        /\ a.action \notin Acts(PlatformRules)
    BY <2>1, ActionsOfChapters
  <2> QED  BY <1>1, <2>2 DEF Rules
<1>3. ASSUME b \in WebhookRules PROVE a \in WebhookRules
  <2>1. a.action \in Acts(WebhookRules)
    BY <1>1, <1>3
  <2>2. /\ a.action \notin Acts(GitRemoteRules)
        /\ a.action \notin Acts(GitSyncRules)
        /\ a.action \notin Acts(GitCreateRules)
        /\ a.action \notin Acts(LlmRules)
        /\ a.action \notin Acts(LlmRoutingRules)
        /\ a.action \notin Acts(RunnerRules)
        /\ a.action \notin Acts(RegistryRules)
        /\ a.action \notin Acts(ImprovementRules)
        /\ a.action \notin Acts(ProviderRules)
        /\ a.action \notin Acts(CredentialCacheRules)
        /\ a.action \notin Acts(LocalAgentRules)
        /\ a.action \notin Acts(ConsentRules)
        /\ a.action \notin Acts(ProviderInvokeRules)
        /\ a.action \notin Acts(SecretRules)
        /\ a.action \notin Acts(SandboxRules)
        /\ a.action \notin Acts(McpRules)
        /\ a.action \notin Acts(McpCallRules)
        /\ a.action \notin Acts(PlatformRules)
    BY <2>1, ActionsOfChapters
  <2> QED  BY <1>1, <2>2 DEF Rules
<1>4. ASSUME b \in GitSyncRules PROVE a \in GitSyncRules
  <2>1. a.action \in Acts(GitSyncRules)
    BY <1>1, <1>4
  <2>2. /\ a.action \notin Acts(GitRemoteRules)
        /\ a.action \notin Acts(WebhookRules)
        /\ a.action \notin Acts(GitCreateRules)
        /\ a.action \notin Acts(LlmRules)
        /\ a.action \notin Acts(LlmRoutingRules)
        /\ a.action \notin Acts(RunnerRules)
        /\ a.action \notin Acts(RegistryRules)
        /\ a.action \notin Acts(ImprovementRules)
        /\ a.action \notin Acts(ProviderRules)
        /\ a.action \notin Acts(CredentialCacheRules)
        /\ a.action \notin Acts(LocalAgentRules)
        /\ a.action \notin Acts(ConsentRules)
        /\ a.action \notin Acts(ProviderInvokeRules)
        /\ a.action \notin Acts(SecretRules)
        /\ a.action \notin Acts(SandboxRules)
        /\ a.action \notin Acts(McpRules)
        /\ a.action \notin Acts(McpCallRules)
        /\ a.action \notin Acts(PlatformRules)
    BY <2>1, ActionsOfChapters
  <2> QED  BY <1>1, <2>2 DEF Rules
<1>5. ASSUME b \in GitCreateRules PROVE a \in GitCreateRules
  <2>1. a.action \in Acts(GitCreateRules)
    BY <1>1, <1>5
  <2>2. /\ a.action \notin Acts(GitRemoteRules)
        /\ a.action \notin Acts(WebhookRules)
        /\ a.action \notin Acts(GitSyncRules)
        /\ a.action \notin Acts(LlmRules)
        /\ a.action \notin Acts(LlmRoutingRules)
        /\ a.action \notin Acts(RunnerRules)
        /\ a.action \notin Acts(RegistryRules)
        /\ a.action \notin Acts(ImprovementRules)
        /\ a.action \notin Acts(ProviderRules)
        /\ a.action \notin Acts(CredentialCacheRules)
        /\ a.action \notin Acts(LocalAgentRules)
        /\ a.action \notin Acts(ConsentRules)
        /\ a.action \notin Acts(ProviderInvokeRules)
        /\ a.action \notin Acts(SecretRules)
        /\ a.action \notin Acts(SandboxRules)
        /\ a.action \notin Acts(McpRules)
        /\ a.action \notin Acts(McpCallRules)
        /\ a.action \notin Acts(PlatformRules)
    BY <2>1, ActionsOfChapters
  <2> QED  BY <1>1, <2>2 DEF Rules
<1>6. ASSUME b \in LlmRules PROVE a \in LlmRules
  <2>1. a.action \in Acts(LlmRules)
    BY <1>1, <1>6
  <2>2. /\ a.action \notin Acts(GitRemoteRules)
        /\ a.action \notin Acts(WebhookRules)
        /\ a.action \notin Acts(GitSyncRules)
        /\ a.action \notin Acts(GitCreateRules)
        /\ a.action \notin Acts(LlmRoutingRules)
        /\ a.action \notin Acts(RunnerRules)
        /\ a.action \notin Acts(RegistryRules)
        /\ a.action \notin Acts(ImprovementRules)
        /\ a.action \notin Acts(ProviderRules)
        /\ a.action \notin Acts(CredentialCacheRules)
        /\ a.action \notin Acts(LocalAgentRules)
        /\ a.action \notin Acts(ConsentRules)
        /\ a.action \notin Acts(ProviderInvokeRules)
        /\ a.action \notin Acts(SecretRules)
        /\ a.action \notin Acts(SandboxRules)
        /\ a.action \notin Acts(McpRules)
        /\ a.action \notin Acts(McpCallRules)
        /\ a.action \notin Acts(PlatformRules)
    BY <2>1, ActionsOfChapters
  <2> QED  BY <1>1, <2>2 DEF Rules
<1>7. ASSUME b \in LlmRoutingRules PROVE a \in LlmRoutingRules
  <2>1. a.action \in Acts(LlmRoutingRules)
    BY <1>1, <1>7
  <2>2. /\ a.action \notin Acts(GitRemoteRules)
        /\ a.action \notin Acts(WebhookRules)
        /\ a.action \notin Acts(GitSyncRules)
        /\ a.action \notin Acts(GitCreateRules)
        /\ a.action \notin Acts(LlmRules)
        /\ a.action \notin Acts(RunnerRules)
        /\ a.action \notin Acts(RegistryRules)
        /\ a.action \notin Acts(ImprovementRules)
        /\ a.action \notin Acts(ProviderRules)
        /\ a.action \notin Acts(CredentialCacheRules)
        /\ a.action \notin Acts(LocalAgentRules)
        /\ a.action \notin Acts(ConsentRules)
        /\ a.action \notin Acts(ProviderInvokeRules)
        /\ a.action \notin Acts(SecretRules)
        /\ a.action \notin Acts(SandboxRules)
        /\ a.action \notin Acts(McpRules)
        /\ a.action \notin Acts(McpCallRules)
        /\ a.action \notin Acts(PlatformRules)
    BY <2>1, ActionsOfChapters
  <2> QED  BY <1>1, <2>2 DEF Rules
<1>8. ASSUME b \in RunnerRules PROVE a \in RunnerRules
  <2>1. a.action \in Acts(RunnerRules)
    BY <1>1, <1>8
  <2>2. /\ a.action \notin Acts(GitRemoteRules)
        /\ a.action \notin Acts(WebhookRules)
        /\ a.action \notin Acts(GitSyncRules)
        /\ a.action \notin Acts(GitCreateRules)
        /\ a.action \notin Acts(LlmRules)
        /\ a.action \notin Acts(LlmRoutingRules)
        /\ a.action \notin Acts(RegistryRules)
        /\ a.action \notin Acts(ImprovementRules)
        /\ a.action \notin Acts(ProviderRules)
        /\ a.action \notin Acts(CredentialCacheRules)
        /\ a.action \notin Acts(LocalAgentRules)
        /\ a.action \notin Acts(ConsentRules)
        /\ a.action \notin Acts(ProviderInvokeRules)
        /\ a.action \notin Acts(SecretRules)
        /\ a.action \notin Acts(SandboxRules)
        /\ a.action \notin Acts(McpRules)
        /\ a.action \notin Acts(McpCallRules)
        /\ a.action \notin Acts(PlatformRules)
    BY <2>1, ActionsOfChapters
  <2> QED  BY <1>1, <2>2 DEF Rules
<1>9. ASSUME b \in RegistryRules PROVE a \in RegistryRules
  <2>1. a.action \in Acts(RegistryRules)
    BY <1>1, <1>9
  <2>2. /\ a.action \notin Acts(GitRemoteRules)
        /\ a.action \notin Acts(WebhookRules)
        /\ a.action \notin Acts(GitSyncRules)
        /\ a.action \notin Acts(GitCreateRules)
        /\ a.action \notin Acts(LlmRules)
        /\ a.action \notin Acts(LlmRoutingRules)
        /\ a.action \notin Acts(RunnerRules)
        /\ a.action \notin Acts(ImprovementRules)
        /\ a.action \notin Acts(ProviderRules)
        /\ a.action \notin Acts(CredentialCacheRules)
        /\ a.action \notin Acts(LocalAgentRules)
        /\ a.action \notin Acts(ConsentRules)
        /\ a.action \notin Acts(ProviderInvokeRules)
        /\ a.action \notin Acts(SecretRules)
        /\ a.action \notin Acts(SandboxRules)
        /\ a.action \notin Acts(McpRules)
        /\ a.action \notin Acts(McpCallRules)
        /\ a.action \notin Acts(PlatformRules)
    BY <2>1, ActionsOfChapters
  <2> QED  BY <1>1, <2>2 DEF Rules
<1>10. ASSUME b \in ImprovementRules PROVE a \in ImprovementRules
  <2>1. a.action \in Acts(ImprovementRules)
    BY <1>1, <1>10
  <2>2. /\ a.action \notin Acts(GitRemoteRules)
        /\ a.action \notin Acts(WebhookRules)
        /\ a.action \notin Acts(GitSyncRules)
        /\ a.action \notin Acts(GitCreateRules)
        /\ a.action \notin Acts(LlmRules)
        /\ a.action \notin Acts(LlmRoutingRules)
        /\ a.action \notin Acts(RunnerRules)
        /\ a.action \notin Acts(RegistryRules)
        /\ a.action \notin Acts(ProviderRules)
        /\ a.action \notin Acts(CredentialCacheRules)
        /\ a.action \notin Acts(LocalAgentRules)
        /\ a.action \notin Acts(ConsentRules)
        /\ a.action \notin Acts(ProviderInvokeRules)
        /\ a.action \notin Acts(SecretRules)
        /\ a.action \notin Acts(SandboxRules)
        /\ a.action \notin Acts(McpRules)
        /\ a.action \notin Acts(McpCallRules)
        /\ a.action \notin Acts(PlatformRules)
    BY <2>1, ActionsOfChapters
  <2> QED  BY <1>1, <2>2 DEF Rules
<1>11. ASSUME b \in ProviderRules PROVE a \in ProviderRules
  <2>1. a.action \in Acts(ProviderRules)
    BY <1>1, <1>11
  <2>2. /\ a.action \notin Acts(GitRemoteRules)
        /\ a.action \notin Acts(WebhookRules)
        /\ a.action \notin Acts(GitSyncRules)
        /\ a.action \notin Acts(GitCreateRules)
        /\ a.action \notin Acts(LlmRules)
        /\ a.action \notin Acts(LlmRoutingRules)
        /\ a.action \notin Acts(RunnerRules)
        /\ a.action \notin Acts(RegistryRules)
        /\ a.action \notin Acts(ImprovementRules)
        /\ a.action \notin Acts(CredentialCacheRules)
        /\ a.action \notin Acts(LocalAgentRules)
        /\ a.action \notin Acts(ConsentRules)
        /\ a.action \notin Acts(ProviderInvokeRules)
        /\ a.action \notin Acts(SecretRules)
        /\ a.action \notin Acts(SandboxRules)
        /\ a.action \notin Acts(McpRules)
        /\ a.action \notin Acts(McpCallRules)
        /\ a.action \notin Acts(PlatformRules)
    BY <2>1, ActionsOfChapters
  <2> QED  BY <1>1, <2>2 DEF Rules
<1>12. ASSUME b \in CredentialCacheRules PROVE a \in CredentialCacheRules
  <2>1. a.action \in Acts(CredentialCacheRules)
    BY <1>1, <1>12
  <2>2. /\ a.action \notin Acts(GitRemoteRules)
        /\ a.action \notin Acts(WebhookRules)
        /\ a.action \notin Acts(GitSyncRules)
        /\ a.action \notin Acts(GitCreateRules)
        /\ a.action \notin Acts(LlmRules)
        /\ a.action \notin Acts(LlmRoutingRules)
        /\ a.action \notin Acts(RunnerRules)
        /\ a.action \notin Acts(RegistryRules)
        /\ a.action \notin Acts(ImprovementRules)
        /\ a.action \notin Acts(ProviderRules)
        /\ a.action \notin Acts(LocalAgentRules)
        /\ a.action \notin Acts(ConsentRules)
        /\ a.action \notin Acts(ProviderInvokeRules)
        /\ a.action \notin Acts(SecretRules)
        /\ a.action \notin Acts(SandboxRules)
        /\ a.action \notin Acts(McpRules)
        /\ a.action \notin Acts(McpCallRules)
        /\ a.action \notin Acts(PlatformRules)
    BY <2>1, ActionsOfChapters
  <2> QED  BY <1>1, <2>2 DEF Rules
<1>13. ASSUME b \in LocalAgentRules PROVE a \in LocalAgentRules
  <2>1. a.action \in Acts(LocalAgentRules)
    BY <1>1, <1>13
  <2>2. /\ a.action \notin Acts(GitRemoteRules)
        /\ a.action \notin Acts(WebhookRules)
        /\ a.action \notin Acts(GitSyncRules)
        /\ a.action \notin Acts(GitCreateRules)
        /\ a.action \notin Acts(LlmRules)
        /\ a.action \notin Acts(LlmRoutingRules)
        /\ a.action \notin Acts(RunnerRules)
        /\ a.action \notin Acts(RegistryRules)
        /\ a.action \notin Acts(ImprovementRules)
        /\ a.action \notin Acts(ProviderRules)
        /\ a.action \notin Acts(CredentialCacheRules)
        /\ a.action \notin Acts(ConsentRules)
        /\ a.action \notin Acts(ProviderInvokeRules)
        /\ a.action \notin Acts(SecretRules)
        /\ a.action \notin Acts(SandboxRules)
        /\ a.action \notin Acts(McpRules)
        /\ a.action \notin Acts(McpCallRules)
        /\ a.action \notin Acts(PlatformRules)
    BY <2>1, ActionsOfChapters
  <2> QED  BY <1>1, <2>2 DEF Rules
<1>14. ASSUME b \in ConsentRules PROVE a \in ConsentRules
  <2>1. a.action \in Acts(ConsentRules)
    BY <1>1, <1>14
  <2>2. /\ a.action \notin Acts(GitRemoteRules)
        /\ a.action \notin Acts(WebhookRules)
        /\ a.action \notin Acts(GitSyncRules)
        /\ a.action \notin Acts(GitCreateRules)
        /\ a.action \notin Acts(LlmRules)
        /\ a.action \notin Acts(LlmRoutingRules)
        /\ a.action \notin Acts(RunnerRules)
        /\ a.action \notin Acts(RegistryRules)
        /\ a.action \notin Acts(ImprovementRules)
        /\ a.action \notin Acts(ProviderRules)
        /\ a.action \notin Acts(CredentialCacheRules)
        /\ a.action \notin Acts(LocalAgentRules)
        /\ a.action \notin Acts(ProviderInvokeRules)
        /\ a.action \notin Acts(SecretRules)
        /\ a.action \notin Acts(SandboxRules)
        /\ a.action \notin Acts(McpRules)
        /\ a.action \notin Acts(McpCallRules)
        /\ a.action \notin Acts(PlatformRules)
    BY <2>1, ActionsOfChapters
  <2> QED  BY <1>1, <2>2 DEF Rules
<1>15. ASSUME b \in ProviderInvokeRules PROVE a \in ProviderInvokeRules
  <2>1. a.action \in Acts(ProviderInvokeRules)
    BY <1>1, <1>15
  <2>2. /\ a.action \notin Acts(GitRemoteRules)
        /\ a.action \notin Acts(WebhookRules)
        /\ a.action \notin Acts(GitSyncRules)
        /\ a.action \notin Acts(GitCreateRules)
        /\ a.action \notin Acts(LlmRules)
        /\ a.action \notin Acts(LlmRoutingRules)
        /\ a.action \notin Acts(RunnerRules)
        /\ a.action \notin Acts(RegistryRules)
        /\ a.action \notin Acts(ImprovementRules)
        /\ a.action \notin Acts(ProviderRules)
        /\ a.action \notin Acts(CredentialCacheRules)
        /\ a.action \notin Acts(LocalAgentRules)
        /\ a.action \notin Acts(ConsentRules)
        /\ a.action \notin Acts(SecretRules)
        /\ a.action \notin Acts(SandboxRules)
        /\ a.action \notin Acts(McpRules)
        /\ a.action \notin Acts(McpCallRules)
        /\ a.action \notin Acts(PlatformRules)
    BY <2>1, ActionsOfChapters
  <2> QED  BY <1>1, <2>2 DEF Rules
<1>16. ASSUME b \in SecretRules PROVE a \in SecretRules
  <2>1. a.action \in Acts(SecretRules)
    BY <1>1, <1>16
  <2>2. /\ a.action \notin Acts(GitRemoteRules)
        /\ a.action \notin Acts(WebhookRules)
        /\ a.action \notin Acts(GitSyncRules)
        /\ a.action \notin Acts(GitCreateRules)
        /\ a.action \notin Acts(LlmRules)
        /\ a.action \notin Acts(LlmRoutingRules)
        /\ a.action \notin Acts(RunnerRules)
        /\ a.action \notin Acts(RegistryRules)
        /\ a.action \notin Acts(ImprovementRules)
        /\ a.action \notin Acts(ProviderRules)
        /\ a.action \notin Acts(CredentialCacheRules)
        /\ a.action \notin Acts(LocalAgentRules)
        /\ a.action \notin Acts(ConsentRules)
        /\ a.action \notin Acts(ProviderInvokeRules)
        /\ a.action \notin Acts(SandboxRules)
        /\ a.action \notin Acts(McpRules)
        /\ a.action \notin Acts(McpCallRules)
        /\ a.action \notin Acts(PlatformRules)
    BY <2>1, ActionsOfChapters
  <2> QED  BY <1>1, <2>2 DEF Rules
<1>17. ASSUME b \in SandboxRules PROVE a \in SandboxRules
  <2>1. a.action \in Acts(SandboxRules)
    BY <1>1, <1>17
  <2>2. /\ a.action \notin Acts(GitRemoteRules)
        /\ a.action \notin Acts(WebhookRules)
        /\ a.action \notin Acts(GitSyncRules)
        /\ a.action \notin Acts(GitCreateRules)
        /\ a.action \notin Acts(LlmRules)
        /\ a.action \notin Acts(LlmRoutingRules)
        /\ a.action \notin Acts(RunnerRules)
        /\ a.action \notin Acts(RegistryRules)
        /\ a.action \notin Acts(ImprovementRules)
        /\ a.action \notin Acts(ProviderRules)
        /\ a.action \notin Acts(CredentialCacheRules)
        /\ a.action \notin Acts(LocalAgentRules)
        /\ a.action \notin Acts(ConsentRules)
        /\ a.action \notin Acts(ProviderInvokeRules)
        /\ a.action \notin Acts(SecretRules)
        /\ a.action \notin Acts(McpRules)
        /\ a.action \notin Acts(McpCallRules)
        /\ a.action \notin Acts(PlatformRules)
    BY <2>1, ActionsOfChapters
  <2> QED  BY <1>1, <2>2 DEF Rules
<1>18. ASSUME b \in McpRules PROVE a \in McpRules
  <2>1. a.action \in Acts(McpRules)
    BY <1>1, <1>18
  <2>2. /\ a.action \notin Acts(GitRemoteRules)
        /\ a.action \notin Acts(WebhookRules)
        /\ a.action \notin Acts(GitSyncRules)
        /\ a.action \notin Acts(GitCreateRules)
        /\ a.action \notin Acts(LlmRules)
        /\ a.action \notin Acts(LlmRoutingRules)
        /\ a.action \notin Acts(RunnerRules)
        /\ a.action \notin Acts(RegistryRules)
        /\ a.action \notin Acts(ImprovementRules)
        /\ a.action \notin Acts(ProviderRules)
        /\ a.action \notin Acts(CredentialCacheRules)
        /\ a.action \notin Acts(LocalAgentRules)
        /\ a.action \notin Acts(ConsentRules)
        /\ a.action \notin Acts(ProviderInvokeRules)
        /\ a.action \notin Acts(SecretRules)
        /\ a.action \notin Acts(SandboxRules)
        /\ a.action \notin Acts(McpCallRules)
        /\ a.action \notin Acts(PlatformRules)
    BY <2>1, ActionsOfChapters
  <2> QED  BY <1>1, <2>2 DEF Rules
<1>19. ASSUME b \in McpCallRules PROVE a \in McpCallRules
  <2>1. a.action \in Acts(McpCallRules)
    BY <1>1, <1>19
  <2>2. /\ a.action \notin Acts(GitRemoteRules)
        /\ a.action \notin Acts(WebhookRules)
        /\ a.action \notin Acts(GitSyncRules)
        /\ a.action \notin Acts(GitCreateRules)
        /\ a.action \notin Acts(LlmRules)
        /\ a.action \notin Acts(LlmRoutingRules)
        /\ a.action \notin Acts(RunnerRules)
        /\ a.action \notin Acts(RegistryRules)
        /\ a.action \notin Acts(ImprovementRules)
        /\ a.action \notin Acts(ProviderRules)
        /\ a.action \notin Acts(CredentialCacheRules)
        /\ a.action \notin Acts(LocalAgentRules)
        /\ a.action \notin Acts(ConsentRules)
        /\ a.action \notin Acts(ProviderInvokeRules)
        /\ a.action \notin Acts(SecretRules)
        /\ a.action \notin Acts(SandboxRules)
        /\ a.action \notin Acts(McpRules)
        /\ a.action \notin Acts(PlatformRules)
    BY <2>1, ActionsOfChapters
  <2> QED  BY <1>1, <2>2 DEF Rules
<1>20. ASSUME b \in PlatformRules PROVE a \in PlatformRules
  <2>1. a.action \in Acts(PlatformRules)
    BY <1>1, <1>20
  <2>2. /\ a.action \notin Acts(GitRemoteRules)
        /\ a.action \notin Acts(WebhookRules)
        /\ a.action \notin Acts(GitSyncRules)
        /\ a.action \notin Acts(GitCreateRules)
        /\ a.action \notin Acts(LlmRules)
        /\ a.action \notin Acts(LlmRoutingRules)
        /\ a.action \notin Acts(RunnerRules)
        /\ a.action \notin Acts(RegistryRules)
        /\ a.action \notin Acts(ImprovementRules)
        /\ a.action \notin Acts(ProviderRules)
        /\ a.action \notin Acts(CredentialCacheRules)
        /\ a.action \notin Acts(LocalAgentRules)
        /\ a.action \notin Acts(ConsentRules)
        /\ a.action \notin Acts(ProviderInvokeRules)
        /\ a.action \notin Acts(SecretRules)
        /\ a.action \notin Acts(SandboxRules)
        /\ a.action \notin Acts(McpRules)
        /\ a.action \notin Acts(McpCallRules)
    BY <2>1, ActionsOfChapters
  <2> QED  BY <1>1, <2>2 DEF Rules
<1> QED  BY <1>2, <1>3, <1>4, <1>5, <1>6, <1>7, <1>8, <1>9, <1>10, <1>11, <1>12, <1>13, <1>14, <1>15, <1>16, <1>17, <1>18, <1>19, <1>20

(***************************************************************************)
(* Rules that decide differently                                           *)
(***************************************************************************)

\* No request matches both conditions.
Contradictory(c, d) ==
    \/ "providers" \in DOMAIN c \cap DOMAIN d /\ c.providers \cap d.providers = {}
    \/ "statuses" \in DOMAIN c \cap DOMAIN d /\ c.statuses \cap d.statuses = {}
    \/ /\ "env" \in DOMAIN c \cap DOMAIN d
       /\ \E k \in DOMAIN c.env \cap DOMAIN d.env : c.env[k] # d.env[k]
    \/ /\ "meta" \in DOMAIN c \cap DOMAIN d
       /\ \E k \in DOMAIN c.meta \cap DOMAIN d.meta : c.meta[k] # d.meta[k]

LEMMA NoneMatchesBoth ==
    ASSUME NEW c, NEW d, NEW r, Contradictory(c, d), ConditionMatches(c, r)
    PROVE  ~ConditionMatches(d, r)
BY DEF Contradictory, ConditionMatches, MapMatches

LEMMA FactValues ==
    ASSUME NEW yes, NEW no
    PROVE  /\ DOMAIN Facts(yes, no) = yes \cup no
           /\ \A k \in yes : Facts(yes, no)[k] = TRUE
           /\ \A k \in no \ yes : Facts(yes, no)[k] = FALSE
<1>1. DOMAIN Facts(yes, no) = yes \cup no
  BY DEF Facts
<1>2. ASSUME NEW k \in yes \cup no PROVE Facts(yes, no)[k] = (k \in yes)
  BY Zenon DEF Facts
<1>3. ASSUME NEW k \in yes PROVE Facts(yes, no)[k] = TRUE
  <2>1. Facts(yes, no)[k] = (k \in yes)
    BY <1>2
  <2>2. (k \in yes) = TRUE
    OBVIOUS
  <2> QED  BY Zenon, <2>1, <2>2
<1>4. ASSUME NEW k \in no \ yes PROVE Facts(yes, no)[k] = FALSE
  <2>1. Facts(yes, no)[k] = (k \in yes)
    BY <1>2
  <2>2. (k \in yes) = FALSE
    OBVIOUS
  <2> QED  BY Zenon, <2>1, <2>2
<1> QED  BY <1>1, <1>3, <1>4

LEMMA YesValues ==
    ASSUME NEW keys PROVE DOMAIN Yes(keys) = keys /\ \A k \in keys : Yes(keys)[k] = TRUE
BY DEF Yes

LEMMA NoValues ==
    ASSUME NEW keys PROVE DOMAIN No(keys) = keys /\ \A k \in keys : No(keys)[k] = FALSE
BY DEF No

\* A fact that one rule asks to hold and another not to.
LEMMA FlagContradicts ==
    ASSUME NEW c, NEW d, NEW yes, NEW no, NEW others, NEW k \in yes \cap no,
           "env" \in DOMAIN c, c.env \in {Yes(yes), Facts(yes, others)},
           "env" \in DOMAIN d, d.env = No(no)
    PROVE  Contradictory(c, d)
<1>1. k \in yes /\ k \in no
  OBVIOUS
<1>2. k \in DOMAIN c.env /\ c.env[k] = TRUE
  <2>1. CASE c.env = Yes(yes)
    <3>1. DOMAIN c.env = yes /\ c.env[k] = TRUE
      BY Zenon, <1>1, <2>1, YesValues
    <3> QED  BY <1>1, <3>1
  <2>2. CASE c.env = Facts(yes, others)
    <3>1. DOMAIN Facts(yes, others) = yes \cup others
      BY FactValues
    <3>2. Facts(yes, others)[k] = TRUE
      BY <1>1, FactValues
    <3>3. k \in DOMAIN Facts(yes, others)
      BY <1>1, <3>1
    <3> QED  BY Zenon, <2>2, <3>2, <3>3
  <2>3. c.env = Yes(yes) \/ c.env = Facts(yes, others)
    OBVIOUS
  <2> QED  BY Zenon, <2>1, <2>2, <2>3
<1>3. k \in DOMAIN d.env /\ d.env[k] = FALSE
  <2>1. DOMAIN d.env = no /\ d.env[k] = FALSE
    BY Zenon, <1>1, NoValues
  <2> QED  BY <1>1, <2>1
<1> QED  BY <1>2, <1>3 DEF Contradictory

LEMMA CredentialsContradict ==
    ASSUME NEW c, NEW d, NEW providers, c = [providers |-> providers, env |-> EnvCredentials],
           d = [env |-> No({"credentialsConfigured"})]
    PROVE  Contradictory(c, d)
<1>1. "env" \in DOMAIN c /\ c.env = EnvCredentials
  OBVIOUS
<1>2. "env" \in DOMAIN d /\ d.env = No({"credentialsConfigured"})
  OBVIOUS
<1> QED  BY <1>1, <1>2, FlagContradicts DEF EnvCredentials

\* Of an allowing rule a and another rule b on the same action: no request
\* matches both, or b is only the default below a, or b comes first and does
\* not depend on what a request reports.
Settled(a, b) ==
    \/ Contradictory(a.conditions, b.conditions)
    \/ a.priority > b.priority /\ b.conditions = Always
    \/ /\ b.priority > a.priority
       /\ \A key \in {"roles", "providers", "runners", "env", "meta"} : key \notin DOMAIN b.conditions

SettledIn(rules) ==
    \A a, b \in rules :
        (a.effect = "allow" /\ b.effect # "allow" /\ a.action = b.action) => Settled(a, b)

LEMMA GitRemoteSettled == SettledIn(GitRemoteRules)
<1> SUFFICES ASSUME NEW a \in GitRemoteRules, NEW b \in GitRemoteRules,
                    a.effect = "allow", b.effect # "allow"
             PROVE  Contradictory(a.conditions, b.conditions)
  BY DEF SettledIn, Settled
<1> DEFINE yes == {"remoteGitEnabled", "remoteOperationAllowed", "repoAllowlisted", "credentialsConfigured"}
<1>1. a.conditions = [providers |-> {"github"}, env |-> Yes(yes)]
  BY RuleFields DEF GitRemoteRules
<1>2. \/ b.conditions = [env |-> No({"remoteGitEnabled"})]
      \/ b.conditions = [env |-> No({"remoteOperationAllowed"})]
  BY RuleFields DEF GitRemoteRules
<1>3. PICK k \in yes : b.conditions = [env |-> No({k})]
  BY <1>2
<1>4. "env" \in DOMAIN a.conditions /\ a.conditions.env = Yes(yes)
  BY <1>1
<1>5. "env" \in DOMAIN b.conditions /\ b.conditions.env = No({k})
  BY <1>3
<1> QED  BY <1>3, <1>4, <1>5, FlagContradicts

LEMMA WebhookSettled == SettledIn(WebhookRules)
<1> SUFFICES ASSUME NEW a \in WebhookRules, NEW b \in WebhookRules,
                    a.effect = "allow", b.effect # "allow"
             PROVE  Contradictory(a.conditions, b.conditions)
  BY DEF SettledIn, Settled
<1>1. PICK yes : /\ a.conditions = [providers |-> {"github"}, env |-> Yes(yes)]
                 /\ {"githubWebhooksEnabled", "signatureVerified"} \subseteq yes
  <2> DEFINE three == {"githubWebhooksEnabled", "signatureVerified", "secretConfigured"}
             four  == {"githubWebhooksEnabled", "signatureVerified", "repoAllowlisted", "secretConfigured"}
  <2>1. \/ a.conditions = [providers |-> {"github"}, env |-> Yes(three)]
        \/ a.conditions = [providers |-> {"github"}, env |-> Yes(four)]
    BY RuleFields DEF WebhookRules
  <2> QED  BY <2>1
<1>2. PICK k \in {"githubWebhooksEnabled", "signatureVerified"} : b.conditions = [env |-> No({k})]
  BY RuleFields DEF WebhookRules
<1>3. "env" \in DOMAIN a.conditions /\ a.conditions.env = Yes(yes)
  BY <1>1
<1>4. "env" \in DOMAIN b.conditions /\ b.conditions.env = No({k})
  BY <1>2
<1> QED  BY <1>1, <1>2, <1>3, <1>4, FlagContradicts

LEMMA GitSyncSettled == SettledIn(GitSyncRules)
<1> SUFFICES ASSUME NEW a \in GitSyncRules, NEW b \in GitSyncRules,
                    a.effect = "allow", b.effect # "allow", a.action = b.action
             PROVE  Contradictory(a.conditions, b.conditions)
  BY DEF SettledIn, Settled
<1>1. CASE a.action = "git.changed_files.read"
  <2>0. b.action = "git.changed_files.read" /\ b.effect # "allow"
    BY <1>1
  <2> DEFINE yes == {"remoteGitEnabled", "remoteOperationAllowed", "repoAllowlisted",
                     "credentialsConfigured"}
  <2>1. a.conditions = [providers |-> {"github"}, env |-> Facts(yes, {"destructiveOperation"})]
    BY <1>1, RuleFields DEF GitSyncRules
  <2>2. b.conditions = [env |-> No({"remoteGitEnabled"})]
    BY <2>0, RuleFields DEF GitSyncRules
  <2>3. "env" \in DOMAIN a.conditions /\ a.conditions.env = Facts(yes, {"destructiveOperation"})
    BY <2>1
  <2>4. "env" \in DOMAIN b.conditions /\ b.conditions.env = No({"remoteGitEnabled"})
    BY <2>2
  <2> QED  BY <2>3, <2>4, FlagContradicts
<1>2. CASE a.action = "git.credential.resolve"
  <2>0. b.action = "git.credential.resolve" /\ b.effect # "allow"
    BY <1>2
  <2>1. a.conditions = [providers |-> {"github"}, env |-> EnvCredentials]
    BY <1>2, RuleFields DEF GitSyncRules
  <2>2. b.conditions = [env |-> No({"credentialsConfigured"})]
    BY <2>0, RuleFields DEF GitSyncRules
  <2> QED  BY <2>1, <2>2, CredentialsContradict
<1>3. a.action \in {"git.changed_files.read", "git.credential.resolve"}
  BY RuleFields DEF GitSyncRules
<1> QED  BY <1>1, <1>2, <1>3

LEMMA LlmSettled == SettledIn(LlmRules)
<1> SUFFICES ASSUME NEW a \in LlmRules, NEW b \in LlmRules,
                    a.effect = "allow", b.effect # "allow", a.action = b.action
             PROVE  Contradictory(a.conditions, b.conditions)
  BY DEF SettledIn, Settled
<1>1. CASE a.action = "llm.remote_completion"
  <2>0. b.action = "llm.remote_completion" /\ b.effect # "allow"
    BY <1>1
  <2>1. a.conditions = [providers |-> {"openai_compatible"}, env |-> RemoteLlmGates]
    BY <1>1, RuleFields DEF LlmRules
  <2>2. PICK k \in {"remoteLlmEnabled", "remoteCompletionEnabled"} : b.conditions = [env |-> No({k})]
    BY <2>0, RuleFields DEF LlmRules
  <2>3. "env" \in DOMAIN a.conditions /\ a.conditions.env = RemoteLlmGates
    BY <2>1
  <2>4. "env" \in DOMAIN b.conditions /\ b.conditions.env = No({k})
    BY <2>2
  <2> QED  BY <2>2, <2>3, <2>4, FlagContradicts DEF RemoteLlmGates
<1>2. CASE a.action = "llm.credential.resolve"
  <2>0. b.action = "llm.credential.resolve" /\ b.effect # "allow"
    BY <1>2
  <2>1. a.conditions = [providers |-> {"openai_compatible"}, env |-> EnvCredentials]
    BY <1>2, RuleFields DEF LlmRules
  <2>2. b.conditions = [env |-> No({"credentialsConfigured"})]
    BY <2>0, RuleFields DEF LlmRules
  <2> QED  BY <2>1, <2>2, CredentialsContradict
<1>3. CASE a.action = "llm.model.use"
  <2>0. b.action = "llm.model.use" /\ b.effect # "allow"
    BY <1>3
  <2>1. a.conditions = [statuses |-> {"active"}]
    BY <1>3, RuleFields DEF LlmRules
  <2>2. b.conditions = [statuses |-> {"disabled", "deprecated"}]
    BY <2>0, RuleFields DEF LlmRules
  <2> QED  BY <2>1, <2>2 DEF Contradictory
<1>4. a.action \in {"llm.remote_completion", "llm.credential.resolve", "llm.model.use"}
  BY RuleFields DEF LlmRules
<1> QED  BY <1>1, <1>2, <1>3, <1>4

LEMMA LlmRoutingSettled == SettledIn(LlmRoutingRules)
<1> SUFFICES ASSUME NEW a \in LlmRoutingRules, NEW b \in LlmRoutingRules,
                    a.effect = "allow", b.effect # "allow", a.action = b.action
             PROVE  Contradictory(a.conditions, b.conditions)
  BY DEF SettledIn, Settled
<1> DEFINE yes == {"fallbackEnabled", "fallbackWithinLimit", "budgetAllowed"}
<1>1. b.action = "llm.fallback" /\ b.conditions = [env |-> No({"fallbackEnabled"})]
  BY RuleFields DEF LlmRoutingRules
<1>2. a.conditions = [env |-> Yes(yes)]
  BY <1>1, RuleFields DEF LlmRoutingRules
<1>3. "env" \in DOMAIN a.conditions /\ a.conditions.env = Yes(yes)
  BY <1>2
<1>4. "env" \in DOMAIN b.conditions /\ b.conditions.env = No({"fallbackEnabled"})
  BY <1>1
<1> QED  BY <1>3, <1>4, FlagContradicts

LEMMA RunnerSettled == SettledIn(RunnerRules)
<1> SUFFICES ASSUME NEW a \in RunnerRules, NEW b \in RunnerRules,
                    a.effect = "allow", b.effect # "allow", a.action = b.action
             PROVE  Settled(a, b)
  BY DEF SettledIn
<1>1. a.priority = 200
  BY RuleFields DEF RunnerRules
<1>2. \/ b.priority = 100 /\ b.conditions = Always
      \/ b.priority = 950 /\ b.conditions = [words |-> NetworkWords]
      \/ b.priority = 950 /\ b.conditions = [words |-> RemoteGitWords]
  BY RuleFields DEF RunnerRules
<1>3. CASE b.priority = 950 /\ b.conditions = [words |-> NetworkWords]
  BY <1>1, <1>3 DEF Settled
<1>4. CASE b.priority = 950 /\ b.conditions = [words |-> RemoteGitWords]
  BY <1>1, <1>4 DEF Settled
<1> QED  BY <1>1, <1>2, <1>3, <1>4 DEF Settled

LEMMA ProviderSettled == SettledIn(ProviderRules)
<1> SUFFICES ASSUME NEW a \in ProviderRules, NEW b \in ProviderRules,
                    a.effect = "allow", b.effect # "allow", a.action = b.action
             PROVE  Contradictory(a.conditions, b.conditions)
  BY DEF SettledIn, Settled
<1> DEFINE yes == {"remoteLlmEnabled", "remoteCompletionEnabled", "credentialsConfigured"}
<1>1. a.action = "provider.credential.resolve"
  BY RuleFields DEF ProviderRules
<1>2. \/ a.conditions = [providers |-> {"github", "openai_compatible"}, env |-> EnvCredentials]
      \/ a.conditions = [providers |-> {"openai_compatible"}, env |-> Facts(yes, NoCacheAccess)]
  BY RuleFields DEF ProviderRules
<1>3. b.conditions = [env |-> No({"credentialsConfigured"})]
  <2>1. b.action = "provider.credential.resolve" /\ b.effect # "allow"
    BY <1>1
  <2> QED  BY <2>1, RuleFields DEF ProviderRules
<1>4. CASE a.conditions = [providers |-> {"github", "openai_compatible"}, env |-> EnvCredentials]
  BY <1>3, <1>4, CredentialsContradict
<1>5. CASE a.conditions = [providers |-> {"openai_compatible"}, env |-> Facts(yes, NoCacheAccess)]
  <2>1. "env" \in DOMAIN a.conditions /\ a.conditions.env = Facts(yes, NoCacheAccess)
    BY <1>5
  <2>2. "env" \in DOMAIN b.conditions /\ b.conditions.env = No({"credentialsConfigured"})
    BY <1>3
  <2> QED  BY <2>1, <2>2, FlagContradicts
<1> QED  BY <1>2, <1>4, <1>5

LEMMA ConsentSettled == SettledIn(ConsentRules)
<1> SUFFICES ASSUME NEW a \in ConsentRules, NEW b \in ConsentRules,
                    a.effect = "allow", b.effect # "allow", a.action = b.action
             PROVE  Settled(a, b)
  BY DEF SettledIn
<1>1. CASE a.action = "local_agent.invoke"
  <2>0. b.action = "local_agent.invoke" /\ b.effect # "allow"
    BY <1>1
  <2>1. a.priority = 800
    BY <2>0, RuleFields DEF ConsentRules
  <2>2. \/ b.priority = 700 /\ b.conditions = Always
        \/ b.priority = 1000 /\ b.conditions = [statuses |-> {"revoked"}]
        \/ b.priority = 1000 /\ b.conditions = [statuses |-> {"disconnected", "unknown", "pending"}]
    BY <2>0, RuleFields DEF ConsentRules
  <2>3. CASE b.priority = 1000 /\ b.conditions = [statuses |-> {"revoked"}]
    BY <2>1, <2>3 DEF Settled
  <2>4. CASE b.priority = 1000 /\ b.conditions = [statuses |-> {"disconnected", "unknown", "pending"}]
    BY <2>1, <2>4 DEF Settled
  <2> QED  BY <2>1, <2>2, <2>3, <2>4 DEF Settled
<1>2. CASE a.action = "local_cli.template.use"
  <2>0. b.action = "local_cli.template.use" /\ b.effect # "allow"
    BY <1>2
  <2>1. a.priority = 500 /\ a.conditions = [meta |-> Yes({"compatible", "consentApproved"})]
    BY <1>2, RuleFields DEF ConsentRules
  <2>2. \/ b.priority = 400 /\ b.conditions = Always
        \/ b.conditions = [meta |-> No({"compatible"})]
    BY <2>0, RuleFields DEF ConsentRules
  <2>3. CASE b.conditions = [meta |-> No({"compatible"})]
    <3>1. "meta" \in DOMAIN a.conditions /\ a.conditions.meta = Yes({"compatible", "consentApproved"})
      BY <2>1
    <3>2. "meta" \in DOMAIN b.conditions /\ b.conditions.meta = No({"compatible"})
      BY <2>3
    <3>3. "compatible" \in DOMAIN a.conditions.meta /\ a.conditions.meta["compatible"] = TRUE
      BY <3>1, YesValues
    <3>4. "compatible" \in DOMAIN b.conditions.meta /\ b.conditions.meta["compatible"] = FALSE
      BY <3>2, NoValues
    <3> QED  BY <3>1, <3>2, <3>3, <3>4 DEF Settled, Contradictory
  <2> QED  BY <2>1, <2>2, <2>3 DEF Settled
<1>3. a.action \in {"local_agent.invoke", "local_cli.template.use"}
  BY RuleFields DEF ConsentRules
<1> QED  BY <1>1, <1>2, <1>3

LEMMA ProviderInvokeSettled == SettledIn(ProviderInvokeRules)
<1> SUFFICES ASSUME NEW a \in ProviderInvokeRules, NEW b \in ProviderInvokeRules,
                    a.effect = "allow", b.effect # "allow", a.action = b.action
             PROVE  Contradictory(a.conditions, b.conditions)
  BY DEF SettledIn, Settled
<1>1. /\ b.action = "provider.invoke"
      /\ b.conditions = [providers |-> {"openai_compatible"}, env |-> No({"modelAllowlisted"})]
  BY RuleFields DEF ProviderInvokeRules
<1>2. \/ a.conditions = [providers |-> {"mock"}]
      \/ a.conditions = [providers |-> {"openai_compatible"}, env |-> RemoteLlmGates]
  BY <1>1, RuleFields DEF ProviderInvokeRules
<1>3. CASE a.conditions = [providers |-> {"mock"}]
  BY <1>1, <1>3 DEF Contradictory
<1>4. CASE a.conditions = [providers |-> {"openai_compatible"}, env |-> RemoteLlmGates]
  <2>1. "env" \in DOMAIN a.conditions /\ a.conditions.env = RemoteLlmGates
    BY <1>4
  <2>2. "env" \in DOMAIN b.conditions /\ b.conditions.env = No({"modelAllowlisted"})
    BY <1>1
  <2> QED  BY <2>1, <2>2, FlagContradicts DEF RemoteLlmGates
<1> QED  BY <1>2, <1>3, <1>4

LEMMA SecretSettled == SettledIn(SecretRules)
<1> SUFFICES ASSUME NEW a \in SecretRules, NEW b \in SecretRules,
                    a.effect = "allow", b.effect # "allow", a.action = b.action
             PROVE  Settled(a, b)
  BY DEF SettledIn
<1>1. a.priority = 1100 /\ b.priority = 1000 /\ b.conditions = Always
  BY RuleFields DEF SecretRules
<1> QED  BY <1>1 DEF Settled

LEMMA PlatformSettled == SettledIn(PlatformRules)
<1> SUFFICES ASSUME NEW a \in PlatformRules, NEW b \in PlatformRules,
                    a.effect = "allow", b.effect # "allow", a.action = b.action
             PROVE  Settled(a, b)
  BY DEF SettledIn
<1>1. a.priority = 50 /\ b.priority = 500 /\ b.conditions = [risk |-> 80]
  BY RuleFields DEF PlatformRules
<1> QED  BY <1>1 DEF Settled

\* In the other chapters no action is both allowed and refused.
LEMMA OneEffectChapters ==
    /\ SettledIn(GitCreateRules) /\ SettledIn(RegistryRules) /\ SettledIn(ImprovementRules)
    /\ SettledIn(CredentialCacheRules) /\ SettledIn(LocalAgentRules) /\ SettledIn(SandboxRules)
    /\ SettledIn(McpRules) /\ SettledIn(McpCallRules)
<1>1. SettledIn(GitCreateRules)
  BY RuleFields DEF SettledIn, GitCreateRules
<1>2. SettledIn(RegistryRules)
  BY RuleFields DEF SettledIn, RegistryRules
<1>3. SettledIn(ImprovementRules)
  BY RuleFields DEF SettledIn, ImprovementRules
<1>4. SettledIn(CredentialCacheRules)
  BY RuleFields DEF SettledIn, CredentialCacheRules
<1>5. SettledIn(LocalAgentRules)
  BY RuleFields DEF SettledIn, LocalAgentRules
<1>6. SettledIn(SandboxRules)
  BY RuleFields DEF SettledIn, SandboxRules
<1>7. SettledIn(McpRules)
  BY RuleFields DEF SettledIn, McpRules
<1>8. SettledIn(McpCallRules)
  BY RuleFields DEF SettledIn, McpCallRules
<1> QED  BY <1>1, <1>2, <1>3, <1>4, <1>5, <1>6, <1>7, <1>8

\* Wherever a rule allows what another one refuses or holds back, the table
\* settles which of them decides.
LEMMA TableSettled == SettledIn(Rules)
<1> SUFFICES ASSUME NEW a \in Rules, NEW b \in Rules,
                    a.effect = "allow", b.effect # "allow", a.action = b.action
             PROVE  Settled(a, b)
  BY DEF SettledIn
<1>1. \/ b \in GitRemoteRules \/ b \in WebhookRules \/ b \in GitSyncRules \/ b \in GitCreateRules
      \/ b \in LlmRules \/ b \in LlmRoutingRules \/ b \in RunnerRules \/ b \in RegistryRules
      \/ b \in ImprovementRules \/ b \in ProviderRules \/ b \in CredentialCacheRules
      \/ b \in LocalAgentRules \/ b \in ConsentRules \/ b \in ProviderInvokeRules
      \/ b \in SecretRules \/ b \in SandboxRules \/ b \in McpRules \/ b \in McpCallRules
      \/ b \in PlatformRules
  BY DEF Rules
<1> QED
  BY <1>1, SameChapter, GitRemoteSettled, WebhookSettled, GitSyncSettled, LlmSettled,
     LlmRoutingSettled, RunnerSettled, ProviderSettled, ConsentSettled, ProviderInvokeSettled,
     SecretSettled, PlatformSettled, OneEffectChapters DEF SettledIn

(***************************************************************************)
(* What the engine decides                                                 *)
(***************************************************************************)

\* Priorities are small naturals, and a rule that does not allow denies, or
\* asks for an approval where nothing at that priority denies.
Graded(rules) ==
    \A b \in rules :
       /\ b.priority \in Nat /\ b.priority <= 1100
       /\ b.effect \in {"allow", "deny", "require_approval"}
       /\ (b.effect # "allow") =>
             (b.effect = "require_approval"
                <=> \/ b.action \in {"secret.lease.request", "secret.lease.issue"}
                    \/ b.priority < 1000 /\ b.action \in {"local_cli.template.use",
                                                          "local_agent.invoke", "task.run"})

LEMMA TableGraded == Graded(Rules)
<1>1. Graded(GitRemoteRules)
  BY RuleFields DEF Graded, GitRemoteRules
<1>2. Graded(WebhookRules)
  BY RuleFields DEF Graded, WebhookRules
<1>3. Graded(GitSyncRules)
  BY RuleFields DEF Graded, GitSyncRules
<1>4. Graded(GitCreateRules)
  BY RuleFields DEF Graded, GitCreateRules
<1>5. Graded(LlmRules)
  BY RuleFields DEF Graded, LlmRules
<1>6. Graded(LlmRoutingRules)
  BY RuleFields DEF Graded, LlmRoutingRules
<1>7. Graded(RunnerRules)
  BY RuleFields DEF Graded, RunnerRules
<1>8. Graded(RegistryRules)
  BY RuleFields DEF Graded, RegistryRules
<1>9. Graded(ImprovementRules)
  BY RuleFields DEF Graded, ImprovementRules
<1>10. Graded(ProviderRules)
  BY RuleFields DEF Graded, ProviderRules
<1>11. Graded(CredentialCacheRules)
  BY RuleFields DEF Graded, CredentialCacheRules
<1>12. Graded(LocalAgentRules)
  BY RuleFields DEF Graded, LocalAgentRules
<1>13. Graded(ConsentRules)
  BY RuleFields DEF Graded, ConsentRules
<1>14. Graded(ProviderInvokeRules)
  BY RuleFields DEF Graded, ProviderInvokeRules
<1>15. Graded(SecretRules)
  BY RuleFields DEF Graded, SecretRules
<1>16. Graded(SandboxRules)
  BY RuleFields DEF Graded, SandboxRules
<1>17. Graded(McpRules)
  BY RuleFields DEF Graded, McpRules
<1>18. Graded(McpCallRules)
  BY RuleFields DEF Graded, McpCallRules
<1>19. Graded(PlatformRules)
  BY RuleFields DEF Graded, PlatformRules
<1> QED
  BY <1>1, <1>2, <1>3, <1>4, <1>5, <1>6, <1>7, <1>8,
     <1>9, <1>10, <1>11, <1>12, <1>13, <1>14, <1>15, <1>16,
     <1>17, <1>18, <1>19
     DEF Graded, Rules

\* Among matching rules there are some of the highest priority.
LEMMA SomeRuleDecides ==
    ASSUME NEW r, NEW a \in Candidates(r)
    PROVE  \E b \in Deciding(r) : b.priority >= a.priority
<1> DEFINE height == {n \in Nat : \E b \in Candidates(r) : n = 1100 - b.priority}
<1>1. \A b \in Candidates(r) : b.priority \in Nat /\ b.priority <= 1100
  BY TableGraded DEF Candidates, Graded
<1>2. 1100 - a.priority \in height
  BY <1>1
<1> HIDE DEF height
<1>3. PICK n \in height : \A m \in height : n <= m
  <2>1. height \in SUBSET Nat
    BY DEF height
  <2> QED  BY <1>2, <2>1, LeastNatural
<1>4. PICK b \in Candidates(r) : n = 1100 - b.priority
  BY <1>3 DEF height
<1>5. ASSUME NEW c \in Candidates(r) PROVE c.priority <= b.priority
  <2>1. 1100 - c.priority \in height
    BY <1>1 DEF height
  <2> QED  BY <1>1, <1>3, <1>4, <2>1
<1> QED  BY <1>5 DEF Deciding

\* The rules that decide agree on their effect, so it does not matter which of
\* them comes first.
LEMMA DecidersAgree ==
    ASSUME NEW r, NEW a \in Deciding(r), NEW b \in Deciding(r)
    PROVE  a.effect = b.effect
<1>1. /\ a \in Rules /\ b \in Rules /\ a.action = b.action /\ a.priority = b.priority
      /\ ConditionMatches(a.conditions, r) /\ ConditionMatches(b.conditions, r)
  <2>1. a \in Candidates(r) /\ b \in Candidates(r) /\ a.priority <= b.priority /\ b.priority <= a.priority
    BY DEF Deciding
  <2>2. a \in Rules /\ b \in Rules
    BY <2>1 DEF Candidates
  <2>3. a.priority \in Nat /\ b.priority \in Nat
    BY <2>2, TableGraded DEF Graded
  <2> QED  BY <2>1, <2>2, <2>3 DEF Candidates
<1>2. a.priority \in Nat
  BY <1>1, TableGraded DEF Graded
<1>3. ASSUME NEW x \in Rules, NEW y \in Rules, x.effect = "allow", y.effect # "allow",
             x.action = y.action, x.priority = y.priority, x.priority \in Nat,
             ConditionMatches(x.conditions, r), ConditionMatches(y.conditions, r)
      PROVE  FALSE
  BY <1>3, TableSettled, NoneMatchesBoth DEF SettledIn, Settled
<1>4. CASE a.effect = "allow" \/ b.effect = "allow"
  BY <1>1, <1>2, <1>3, <1>4
<1>5. CASE a.effect # "allow" /\ b.effect # "allow"
  BY <1>1, <1>5, TableGraded DEF Graded
<1> QED  BY <1>4, <1>5

\* A request is allowed exactly when an allowing rule matches it, and no rule
\* that refuses it comes before that one.
LEMMA AllowedWhen ==
    ASSUME NEW r
    PROVE  Allowed(r) <=> \E a \in Candidates(r) :
                /\ a.effect = "allow"
                /\ \A b \in Candidates(r) : (b.effect # "allow") => (b.priority < a.priority)
<1>1. \A b \in Candidates(r) : b \in Rules /\ b.action = r.action /\ b.priority \in Nat
                               /\ ConditionMatches(b.conditions, r)
  BY TableGraded DEF Candidates, Graded
<1>2. ASSUME Allowed(r)
      PROVE  \E a \in Candidates(r) :
                /\ a.effect = "allow"
                /\ \A b \in Candidates(r) : (b.effect # "allow") => (b.priority < a.priority)
  <2>1. Deciding(r) # {} /\ (CHOOSE a \in Deciding(r) : TRUE).effect = "allow"
    BY <1>2 DEF Allowed, Decision
  <2>2. PICK a \in Deciding(r) : a.effect = "allow"
    BY <2>1
  <2>3. a \in Candidates(r) /\ \A b \in Candidates(r) : b.priority <= a.priority
    BY DEF Deciding
  <2>4. ASSUME NEW b \in Candidates(r), b.effect # "allow" PROVE b.priority < a.priority
    <3>1. CASE b.priority = a.priority
      <4>1. b \in Deciding(r)
        BY <2>3, <3>1 DEF Deciding
      <4> QED  BY <2>2, <2>4, <4>1, DecidersAgree
    <3> QED  BY <1>1, <2>3, <3>1
  <2> QED  BY <2>2, <2>3, <2>4
<1>3. ASSUME NEW a \in Candidates(r), a.effect = "allow",
             \A b \in Candidates(r) : (b.effect # "allow") => (b.priority < a.priority)
      PROVE  Allowed(r)
  <2>1. PICK b \in Deciding(r) : b.priority >= a.priority
    BY SomeRuleDecides
  <2>2. b \in Candidates(r)
    BY DEF Deciding
  <2>3. b.effect = "allow"
    BY <1>1, <1>3, <2>1, <2>2
  <2>4. \A c \in Deciding(r) : c.effect = "allow"
    BY <2>3, DecidersAgree
  <2>5. (CHOOSE c \in Deciding(r) : TRUE) \in Deciding(r)
    BY <2>1
  <2> QED  BY <2>1, <2>4, <2>5 DEF Allowed, Decision
<1> QED  BY <1>2, <1>3

\* A request that reports no more than another, for a subject with no more roles.
ReportsNoMore(q, r) ==
    /\ q.action = r.action /\ q.kind = r.kind /\ q.provider = r.provider /\ q.runner = r.runner
    /\ q.status = r.status /\ q.words = r.words /\ q.risk = r.risk
    /\ q.roles \subseteq r.roles
    /\ \A expected : MapMatches(expected, q.env) => MapMatches(expected, r.env)
    /\ \A expected : MapMatches(expected, q.meta) => MapMatches(expected, r.meta)

LEMMA WithoutMatches ==
    ASSUME NEW f, NEW k, NEW expected, MapMatches(expected, Without(f, k))
    PROVE  MapMatches(expected, f)
<1>1. \A j \in DOMAIN Without(f, k) : j \in DOMAIN f /\ Without(f, k)[j] = f[j]
  BY DEF Without
<1> QED  BY <1>1 DEF MapMatches

LEMMA PoorerReportsNoMore ==
    ASSUME NEW in, PolicyInput(in), NEW k
    PROVE  LET r == in.request
           IN  /\ ReportsNoMore([r EXCEPT !.env = Without(@, k)], r)
               /\ ReportsNoMore([r EXCEPT !.meta = Without(@, k)], r)
               /\ ReportsNoMore([r EXCEPT !.roles = {}], r)
<1> DEFINE r == in.request
           noEnv  == [r EXCEPT !.env = Without(@, k)]
           noMeta == [r EXCEPT !.meta = Without(@, k)]
           noRole == [r EXCEPT !.roles = {}]
<1>1. r = [action |-> r.action, kind |-> r.kind, roles |-> r.roles, provider |-> r.provider,
           runner |-> r.runner, status |-> r.status, words |-> r.words, env |-> r.env,
           meta |-> r.meta, risk |-> r.risk]
  BY DEF PolicyInput
<1> HIDE DEF r
<1>2. /\ noEnv.action = r.action /\ noEnv.kind = r.kind /\ noEnv.provider = r.provider
      /\ noEnv.runner = r.runner /\ noEnv.status = r.status /\ noEnv.words = r.words
      /\ noEnv.risk = r.risk /\ noEnv.roles = r.roles /\ noEnv.meta = r.meta
      /\ noEnv.env = Without(r.env, k)
  BY <1>1
<1>3. /\ noMeta.action = r.action /\ noMeta.kind = r.kind /\ noMeta.provider = r.provider
      /\ noMeta.runner = r.runner /\ noMeta.status = r.status /\ noMeta.words = r.words
      /\ noMeta.risk = r.risk /\ noMeta.roles = r.roles /\ noMeta.env = r.env
      /\ noMeta.meta = Without(r.meta, k)
  BY <1>1
<1>4. /\ noRole.action = r.action /\ noRole.kind = r.kind /\ noRole.provider = r.provider
      /\ noRole.runner = r.runner /\ noRole.status = r.status /\ noRole.words = r.words
      /\ noRole.risk = r.risk /\ noRole.roles = {} /\ noRole.env = r.env
      /\ noRole.meta = r.meta
  BY <1>1
<1> HIDE DEF noEnv, noMeta, noRole
<1>5. ReportsNoMore(noEnv, r)
  BY <1>2, WithoutMatches DEF ReportsNoMore
<1>6. ReportsNoMore(noMeta, r)
  BY <1>3, WithoutMatches DEF ReportsNoMore
<1>7. ReportsNoMore(noRole, r)
  BY <1>4 DEF ReportsNoMore
<1> QED  BY <1>5, <1>6, <1>7 DEF r, noEnv, noMeta, noRole

\* A rule that allows the poorer request matches the full one, and what comes
\* before it there does not depend on what a request reports.
LEMMA AllowedReportsMore ==
    ASSUME NEW q, NEW r, ReportsNoMore(q, r), Allowed(q)
    PROVE  Allowed(r)
<1>1. PICK x \in Candidates(q) :
         /\ x.effect = "allow"
         /\ \A b \in Candidates(q) : (b.effect # "allow") => (b.priority < x.priority)
  BY AllowedWhen
<1>2. x \in Rules /\ x.action = r.action /\ x.kind = r.kind /\ ConditionMatches(x.conditions, q)
  BY DEF Candidates, ReportsNoMore
<1>3. ConditionMatches(x.conditions, r)
  BY <1>2 DEF ConditionMatches, ReportsNoMore
<1>4. x \in Candidates(r)
  BY <1>2, <1>3 DEF Candidates
<1>5. ASSUME NEW b \in Candidates(r), b.effect # "allow" PROVE b.priority < x.priority
  <2>1. b \in Rules /\ b.action = r.action /\ b.kind = r.kind /\ ConditionMatches(b.conditions, r)
    BY DEF Candidates
  <2>2. b.priority \in Nat /\ x.priority \in Nat
    BY <1>2, <2>1, TableGraded DEF Graded
  <2>3. Settled(x, b)
    BY <1>1, <1>2, <1>5, <2>1, TableSettled DEF SettledIn
  <2>4. ~Contradictory(x.conditions, b.conditions)
    BY <1>3, <2>1, NoneMatchesBoth
  <2>5. CASE b.priority > x.priority
             /\ \A key \in {"roles", "providers", "runners", "env", "meta"} :
                   key \notin DOMAIN b.conditions
    <3>1. ConditionMatches(b.conditions, q)
      BY <2>1, <2>5 DEF ConditionMatches, ReportsNoMore
    <3>2. b \in Candidates(q)
      BY <2>1, <3>1 DEF Candidates, ReportsNoMore
    <3> QED  BY <1>1, <1>5, <3>2
  <2> QED  BY <2>2, <2>3, <2>4, <2>5 DEF Settled
<1> QED  BY <1>1, <1>4, <1>5, AllowedWhen

\* A rule that denies under a condition is never overruled.
LEMMA ConditionsRefuse ==
    ASSUME NEW r, NEW b \in Candidates(r), b.effect = "deny", b.conditions # Always
    PROVE  ~Allowed(r)
<1> SUFFICES ASSUME Allowed(r) PROVE FALSE
  OBVIOUS
<1>1. PICK x \in Candidates(r) :
         /\ x.effect = "allow"
         /\ \A c \in Candidates(r) : (c.effect # "allow") => (c.priority < x.priority)
  BY AllowedWhen
<1>2. x \in Rules /\ b \in Rules /\ x.action = b.action
      /\ ConditionMatches(x.conditions, r) /\ ConditionMatches(b.conditions, r)
  BY DEF Candidates
<1>3. x.priority \in Nat /\ b.priority \in Nat /\ b.priority < x.priority
  BY <1>1, <1>2, TableGraded DEF Graded
<1>4. Settled(x, b)
  BY <1>1, <1>2, TableSettled DEF SettledIn
<1> QED  BY <1>2, <1>3, <1>4, NoneMatchesBoth DEF Settled

(* The table of rules fails closed, for every request: reporting less, or  *)
(* having fewer roles, never turns a refusal into a permission; a rule     *)
(* that denies under a condition is never overruled; and the decision does *)
(* not turn on the names of the rules, which the engine sorts by where     *)
(* their priorities are equal.                                             *)
THEOREM PolicyAlwaysFailsClosed == InputOK => PolicyFailsClosed
<1> SUFFICES ASSUME InputOK, input.part = "policy" PROVE PolicyFailsClosed
  BY DEF PolicyFailsClosed
<1> DEFINE r == input.request
           poorer == {[r EXCEPT !.env = Without(@, k)] : k \in DOMAIN r.env}
                        \cup {[r EXCEPT !.meta = Without(@, k)] : k \in DOMAIN r.meta}
                        \cup {[r EXCEPT !.roles = {}]}
<1>1. PolicyInput(input)
  BY DEF InputOK
<1>2. ASSUME NEW q \in poorer PROVE ReportsNoMore(q, r)
  <2>1. CASE \E k \in DOMAIN r.env : q = [r EXCEPT !.env = Without(@, k)]
    <3>1. PICK k \in DOMAIN r.env : q = [r EXCEPT !.env = Without(@, k)]
      BY <2>1
    <3>2. ReportsNoMore([r EXCEPT !.env = Without(@, k)], r)
      BY <1>1, PoorerReportsNoMore
    <3> QED  BY Zenon, <3>1, <3>2
  <2>2. CASE \E k \in DOMAIN r.meta : q = [r EXCEPT !.meta = Without(@, k)]
    <3>1. PICK k \in DOMAIN r.meta : q = [r EXCEPT !.meta = Without(@, k)]
      BY <2>2
    <3>2. ReportsNoMore([r EXCEPT !.meta = Without(@, k)], r)
      BY <1>1, PoorerReportsNoMore
    <3> QED  BY Zenon, <3>1, <3>2
  <2>3. CASE q = [r EXCEPT !.roles = {}]
    BY <1>1, <2>3, PoorerReportsNoMore
  <2> QED  BY <2>1, <2>2, <2>3
<1>3. ~Allowed(r) => \A q \in poorer : ~Allowed(q)
  BY <1>2, AllowedReportsMore
<1>4. (\E a \in Candidates(r) : a.effect = "deny" /\ a.conditions # Always) => ~Allowed(r)
  BY ConditionsRefuse
<1>5. \A a, b \in Deciding(r) : a.effect = b.effect
  BY DecidersAgree
<1> QED  BY <1>3, <1>4, <1>5 DEF PolicyFailsClosed

(***************************************************************************)
(* Actions that are refused only for what is reported                      *)
(***************************************************************************)

LEMMA AllowedByARule ==
    ASSUME NEW r,
           \A b \in Rules : (b.action = r.action /\ b.effect # "allow") => "env" \in DOMAIN b.conditions
    PROVE  Allowed(r) <=> \E x \in Candidates(r) : x.effect = "allow"
<1>1. ASSUME NEW x \in Candidates(r), x.effect = "allow", NEW b \in Candidates(r), b.effect # "allow"
      PROVE  FALSE
  <2>1. x \in Rules /\ b \in Rules /\ x.action = b.action /\ b.action = r.action
        /\ ConditionMatches(x.conditions, r) /\ ConditionMatches(b.conditions, r)
    BY DEF Candidates
  <2>2. Settled(x, b)
    BY <1>1, <2>1, TableSettled DEF SettledIn
  <2>3. "env" \in DOMAIN b.conditions
    BY <1>1, <2>1
  <2>4. b.conditions # Always
    BY <2>3 DEF Always
  <2> QED  BY <2>1, <2>2, <2>3, <2>4, NoneMatchesBoth DEF Settled
<1>2. (\E x \in Candidates(r) : x.effect = "allow") => Allowed(r)
  BY <1>1, AllowedWhen
<1> QED  BY <1>2, AllowedWhen

LEMMA AllowedByTheRule ==
    ASSUME NEW r, NEW rule \in Rules,
           rule.effect = "allow", rule.action = r.action, rule.kind = r.kind,
           \A b \in Rules : (b.action = r.action)
                              => (b = rule \/ (b.effect # "allow" /\ "env" \in DOMAIN b.conditions))
    PROVE  Allowed(r) <=> ConditionMatches(rule.conditions, r)
<1>1. Allowed(r) <=> \E x \in Candidates(r) : x.effect = "allow"
  BY AllowedByARule
<1>2. (\E x \in Candidates(r) : x.effect = "allow") <=> ConditionMatches(rule.conditions, r)
  BY DEF Candidates
<1> QED  BY <1>1, <1>2

LEMMA ProviderAndFacts ==
    ASSUME NEW p, NEW facts, NEW r
    PROVE  ConditionMatches([providers |-> {p}, env |-> facts], r)
             <=> (r.provider = p /\ MapMatches(facts, r.env))
BY DEF ConditionMatches

LEMMA ProviderOnly ==
    ASSUME NEW p, NEW r
    PROVE  ConditionMatches([providers |-> {p}], r) <=> (r.provider = p)
BY DEF ConditionMatches

LEMMA YesMatches ==
    ASSUME NEW keys, NEW env
    PROVE  MapMatches(Yes(keys), env) <=> \A k \in keys : k \in DOMAIN env /\ env[k] = TRUE
BY YesValues DEF MapMatches

(***************************************************************************)
(* Decisions on git                                                        *)
(***************************************************************************)

LEMMA RemoteDecision ==
    ASSUME NEW q, q.action = "git.remote_operation", q.kind = "git_operation"
    PROVE  Allowed(q) <=>
             /\ q.provider = "github"
             /\ \A k \in {"remoteGitEnabled", "remoteOperationAllowed", "repoAllowlisted",
                          "credentialsConfigured"} : k \in DOMAIN q.env /\ q.env[k] = TRUE
<1> DEFINE keys == {"remoteGitEnabled", "remoteOperationAllowed", "repoAllowlisted",
                    "credentialsConfigured"}
           rule == Rule("allow", "git.remote_operation", "git_operation", 300,
                        [providers |-> {"github"}, env |-> Yes(keys)])
<1>1. rule \in GitRemoteRules /\ rule \in Rules
  BY DEF GitRemoteRules, Rules
<1>2. /\ rule.action = "git.remote_operation" /\ rule.kind = "git_operation"
      /\ rule.effect = "allow" /\ rule.conditions = [providers |-> {"github"}, env |-> Yes(keys)]
  BY RuleFields
<1> HIDE DEF rule, keys
<1>3. ASSUME NEW b \in Rules, b.action = "git.remote_operation"
      PROVE  b = rule \/ (b.effect # "allow" /\ "env" \in DOMAIN b.conditions)
  <2>1. b \in GitRemoteRules
    BY <1>1, <1>2, <1>3, SameChapter
  <2> QED  BY <2>1, RuleFields DEF GitRemoteRules, rule, keys
<1>4. Allowed(q) <=> ConditionMatches(rule.conditions, q)
  BY <1>1, <1>2, <1>3, AllowedByTheRule
<1>5. ConditionMatches(rule.conditions, q) <=> (q.provider = "github" /\ MapMatches(Yes(keys), q.env))
  BY <1>2, ProviderAndFacts
<1>6. MapMatches(Yes(keys), q.env) <=> \A k \in keys : k \in DOMAIN q.env /\ q.env[k] = TRUE
  BY YesMatches
<1> QED  BY <1>4, <1>5, <1>6 DEF keys

LEMMA ReadDecision ==
    ASSUME NEW q, q.action = "git.changed_files.read", q.kind = "git_operation"
    PROVE  Allowed(q) <=>
             /\ q.provider = "github"
             /\ MapMatches(Facts({"remoteGitEnabled", "remoteOperationAllowed", "repoAllowlisted",
                                  "credentialsConfigured"}, {"destructiveOperation"}), q.env)
<1> DEFINE facts == Facts({"remoteGitEnabled", "remoteOperationAllowed", "repoAllowlisted",
                           "credentialsConfigured"}, {"destructiveOperation"})
           rule == Rule("allow", "git.changed_files.read", "git_operation", 250,
                        [providers |-> {"github"}, env |-> facts])
<1>1. rule \in GitSyncRules /\ rule \in Rules
  BY DEF GitSyncRules, Rules
<1>2. /\ rule.action = "git.changed_files.read" /\ rule.kind = "git_operation"
      /\ rule.effect = "allow" /\ rule.conditions = [providers |-> {"github"}, env |-> facts]
  BY RuleFields
<1> HIDE DEF rule, facts
<1>3. ASSUME NEW b \in Rules, b.action = "git.changed_files.read"
      PROVE  b = rule \/ (b.effect # "allow" /\ "env" \in DOMAIN b.conditions)
  <2>1. b \in GitSyncRules
    BY <1>1, <1>2, <1>3, SameChapter
  <2> QED  BY <1>3, <2>1, RuleFields DEF GitSyncRules, rule, facts
<1>4. Allowed(q) <=> ConditionMatches(rule.conditions, q)
  BY <1>1, <1>2, <1>3, AllowedByTheRule
<1>5. ConditionMatches(rule.conditions, q) <=> (q.provider = "github" /\ MapMatches(facts, q.env))
  BY <1>2, ProviderAndFacts
<1> QED  BY <1>4, <1>5 DEF facts

LEMMA BranchDecision ==
    ASSUME NEW q, q.action = "git.branch.create", q.kind = "branch"
    PROVE  Allowed(q) <=>
             \/ q.provider = "mock"
             \/ q.provider = "local" /\ MapMatches(Yes({"localFixture", "readOnly"}), q.env)
             \/ q.provider = "github"
                /\ MapMatches(Yes({"remoteGitEnabled", "remoteBranchCreateEnabled", "repoAllowlisted",
                                   "branchPrefixAllowed", "credentialsConfigured"}), q.env)
<1> DEFINE gates  == Yes({"remoteGitEnabled", "remoteBranchCreateEnabled", "repoAllowlisted",
                          "branchPrefixAllowed", "credentialsConfigured"})
           fixture == Yes({"localFixture", "readOnly"})
           mock   == Rule("allow", "git.branch.create", "branch", 200, [providers |-> {"mock"}])
           local  == Rule("allow", "git.branch.create", "branch", 150,
                          [providers |-> {"local"}, env |-> fixture])
           github == Rule("allow", "git.branch.create", "branch", 250,
                          [providers |-> {"github"}, env |-> gates])
<1>1. {mock, local, github} \subseteq GitCreateRules /\ {mock, local, github} \subseteq Rules
  BY DEF GitCreateRules, Rules
<1>2. /\ \A rule \in {mock, local, github} :
            rule.action = "git.branch.create" /\ rule.kind = "branch" /\ rule.effect = "allow"
      /\ mock.conditions = [providers |-> {"mock"}]
      /\ local.conditions = [providers |-> {"local"}, env |-> fixture]
      /\ github.conditions = [providers |-> {"github"}, env |-> gates]
  BY RuleFields
<1> HIDE DEF mock, local, github, gates, fixture
<1>3. ASSUME NEW b \in Rules, b.action = "git.branch.create" PROVE b \in {mock, local, github}
  <2>1. b \in GitCreateRules
    BY <1>1, <1>2, <1>3, SameChapter
  <2> QED  BY <1>3, <2>1, RuleFields DEF GitCreateRules, mock, local, github, gates, fixture
<1>4. Allowed(q) <=> \E x \in Candidates(q) : x.effect = "allow"
  BY <1>2, <1>3, AllowedByARule
<1>5. (\E x \in Candidates(q) : x.effect = "allow")
        <=> \E rule \in {mock, local, github} : ConditionMatches(rule.conditions, q)
  BY <1>1, <1>2, <1>3 DEF Candidates
<1>6. ConditionMatches(mock.conditions, q) <=> (q.provider = "mock")
  BY <1>2, ProviderOnly
<1>7. ConditionMatches(local.conditions, q) <=> (q.provider = "local" /\ MapMatches(fixture, q.env))
  BY <1>2, ProviderAndFacts
<1>8. ConditionMatches(github.conditions, q) <=> (q.provider = "github" /\ MapMatches(gates, q.env))
  BY <1>2, ProviderAndFacts
<1> QED  BY <1>4, <1>5, <1>6, <1>7, <1>8 DEF gates, fixture

LEMMA PullRequestDecision ==
    ASSUME NEW q, q.action = "git.pull_request.create", q.kind = "pull_request"
    PROVE  Allowed(q) <=>
             \/ q.provider = "mock"
             \/ q.provider = "github"
                /\ MapMatches(Yes({"remoteGitEnabled", "remotePullRequestCreateEnabled",
                                   "repoAllowlisted", "branchPrefixAllowed",
                                   "credentialsConfigured"}), q.env)
<1> DEFINE gates  == Yes({"remoteGitEnabled", "remotePullRequestCreateEnabled", "repoAllowlisted",
                          "branchPrefixAllowed", "credentialsConfigured"})
           mock   == Rule("allow", "git.pull_request.create", "pull_request", 200,
                          [providers |-> {"mock"}])
           github == Rule("allow", "git.pull_request.create", "pull_request", 250,
                          [providers |-> {"github"}, env |-> gates])
<1>1. {mock, github} \subseteq GitCreateRules /\ {mock, github} \subseteq Rules
  BY DEF GitCreateRules, Rules
<1>2. /\ \A rule \in {mock, github} :
            rule.action = "git.pull_request.create" /\ rule.kind = "pull_request" /\ rule.effect = "allow"
      /\ mock.conditions = [providers |-> {"mock"}]
      /\ github.conditions = [providers |-> {"github"}, env |-> gates]
  BY RuleFields
<1> HIDE DEF mock, github, gates
<1>3. ASSUME NEW b \in Rules, b.action = "git.pull_request.create" PROVE b \in {mock, github}
  <2>1. b \in GitCreateRules
    BY <1>1, <1>2, <1>3, SameChapter
  <2> QED  BY <1>3, <2>1, RuleFields DEF GitCreateRules, mock, github, gates
<1>4. Allowed(q) <=> \E x \in Candidates(q) : x.effect = "allow"
  BY <1>2, <1>3, AllowedByARule
<1>5. (\E x \in Candidates(q) : x.effect = "allow")
        <=> \E rule \in {mock, github} : ConditionMatches(rule.conditions, q)
  BY <1>1, <1>2, <1>3 DEF Candidates
<1>6. /\ ConditionMatches(mock.conditions, q) <=> (q.provider = "mock")
      /\ ConditionMatches(github.conditions, q) <=> (q.provider = "github" /\ MapMatches(gates, q.env))
  BY <1>2, ProviderOnly, ProviderAndFacts
<1> QED  BY <1>4, <1>5, <1>6 DEF gates

(***************************************************************************)
(* The gates of git                                                        *)
(***************************************************************************)

LEMMA GitRequestFields ==
    ASSUME NEW c, NEW action, NEW kind, NEW env
    PROVE  LET q == GitRequest(c, action, kind, env) IN
           /\ q.action = action /\ q.kind = kind /\ q.provider = c.kind /\ q.env = env
           /\ [q EXCEPT !.provider = Remote].action = action
           /\ [q EXCEPT !.provider = Remote].kind = kind
           /\ [q EXCEPT !.provider = Remote].provider = Remote
           /\ [q EXCEPT !.provider = Remote].env = env
BY DEF GitRequest, Request

\* A configuration as the service makes it.
Configuration(c) ==
    /\ c.kind \in {"mock", "local", Remote}
    /\ c.remoteGit \in BOOLEAN /\ c.branchCreate \in BOOLEAN /\ c.prCreate \in BOOLEAN
    /\ c.localBranch \in BOOLEAN /\ c.githubConfigured \in BOOLEAN

LEMMA ConfigurationMade ==
    ASSUME NEW in, GitInput(in)
    PROVE  /\ Configuration(CreateGitProviderFromEnv(in.env))
           /\ (in.env.tokenRef /\ in.env.resolver # "resolved")
                => ~CreateGitProviderFromEnv(in.env).githubConfigured
<1> DEFINE e == in.env
           c == CreateGitProviderFromEnv(e)
<1>1. /\ e.enableRemote \in BOOLEAN /\ e.allowBranchCreate \in BOOLEAN /\ e.allowPrCreate \in BOOLEAN
      /\ e.allowLocalBranch \in BOOLEAN /\ e.tokenRef \in BOOLEAN /\ e.token \in BOOLEAN
  BY DEF GitInput, GitFlags
<1>2. /\ c.kind \in {"mock", "local", Remote}
      /\ c.remoteGit = e.enableRemote /\ c.branchCreate = e.allowBranchCreate
      /\ c.prCreate = e.allowPrCreate /\ c.localBranch = e.allowLocalBranch
      /\ c.githubConfigured = ResolveGitHubCredential(e.tokenRef, e.token, e.resolver)
  BY Zenon DEF CreateGitProviderFromEnv
<1>3. ResolveGitHubCredential(e.tokenRef, e.token, e.resolver) \in BOOLEAN
  BY <1>1 DEF ResolveGitHubCredential
<1>4. (e.tokenRef /\ e.resolver # "resolved")
        => ~ResolveGitHubCredential(e.tokenRef, e.token, e.resolver)
  BY DEF ResolveGitHubCredential
<1> QED  BY <1>1, <1>2, <1>3, <1>4 DEF Configuration

LEMMA RemotePolicyMeans ==
    ASSUME NEW c, Configuration(c), NEW r, RemoteOperationAllowed(c, r.op) \in BOOLEAN
    PROVE  EvaluateRemotePolicy(c, r) <=>
             \/ c.kind # Remote /\ ~c.remoteGit
             \/ /\ c.kind = Remote /\ c.remoteGit /\ RemoteOperationAllowed(c, r.op)
                /\ r.repo \in c.repos /\ c.githubConfigured
<1> DEFINE env == [remoteGitEnabled       |-> c.remoteGit,
                   remoteOperationAllowed |-> RemoteOperationAllowed(c, r.op),
                   repoAllowlisted        |-> r.repo \in c.repos,
                   credentialsConfigured  |-> c.githubConfigured]
           q == GitRequest(c, "git.remote_operation", "git_operation", env)
<1>1. /\ DOMAIN env = {"remoteGitEnabled", "remoteOperationAllowed", "repoAllowlisted",
                       "credentialsConfigured"}
      /\ env["remoteGitEnabled"] = c.remoteGit
      /\ env["remoteOperationAllowed"] = RemoteOperationAllowed(c, r.op)
      /\ env["repoAllowlisted"] = (r.repo \in c.repos)
      /\ env["credentialsConfigured"] = c.githubConfigured
  OBVIOUS
<1> HIDE DEF env
<1>2. /\ q.action = "git.remote_operation" /\ q.kind = "git_operation"
      /\ q.provider = c.kind /\ q.env = env
  BY GitRequestFields
<1>3. Allowed(q) <=>
        /\ c.kind = "github"
        /\ env["remoteGitEnabled"] = TRUE /\ env["remoteOperationAllowed"] = TRUE
        /\ env["repoAllowlisted"] = TRUE /\ env["credentialsConfigured"] = TRUE
  <2> HIDE DEF q
  <2> QED  BY <1>1, <1>2, RemoteDecision
<1>4. EvaluateRemotePolicy(c, r) <=> (c.kind # Remote /\ ~c.remoteGit) \/ Allowed(q)
  BY DEF EvaluateRemotePolicy, env
<1> QED  BY <1>1, <1>3, <1>4 DEF Configuration, Remote

LEMMA BranchPolicyMeans ==
    ASSUME NEW c, Configuration(c), NEW r, r.op = "branch_create",
           r.prefixOk \in BOOLEAN, r.localPath \in BOOLEAN
    PROVE  EvaluateCreatePolicy(c, r) <=>
             \/ c.kind = "mock"
             \/ c.kind = "local" /\ r.localPath
             \/ /\ c.kind = Remote /\ c.remoteGit /\ c.branchCreate
                /\ r.repo \in c.repos /\ r.prefixOk /\ c.githubConfigured
<1> DEFINE facts == [localFixture                   |-> c.kind = "local" /\ r.localPath,
                     readOnly                       |-> c.kind = "local",
                     remoteGitEnabled               |-> c.remoteGit,
                     remoteBranchCreateEnabled      |-> c.branchCreate,
                     remotePullRequestCreateEnabled |-> c.prCreate,
                     repoAllowlisted                |-> r.repo \in c.repos,
                     branchPrefixAllowed            |-> r.prefixOk,
                     credentialsConfigured          |-> c.githubConfigured]
           q == GitRequest(c, "git.branch.create", "branch", facts)
<1>1. /\ DOMAIN facts = {"localFixture", "readOnly", "remoteGitEnabled", "remoteBranchCreateEnabled",
                         "remotePullRequestCreateEnabled", "repoAllowlisted", "branchPrefixAllowed",
                         "credentialsConfigured"}
      /\ facts["localFixture"] = (c.kind = "local" /\ r.localPath)
      /\ facts["readOnly"] = (c.kind = "local")
      /\ facts["remoteGitEnabled"] = c.remoteGit
      /\ facts["remoteBranchCreateEnabled"] = c.branchCreate
      /\ facts["repoAllowlisted"] = (r.repo \in c.repos)
      /\ facts["branchPrefixAllowed"] = r.prefixOk
      /\ facts["credentialsConfigured"] = c.githubConfigured
  OBVIOUS
<1>2. EvaluateCreatePolicy(c, r) <=> Allowed(q)
  BY DEF EvaluateCreatePolicy
<1> HIDE DEF facts
<1>3. /\ q.action = "git.branch.create" /\ q.kind = "branch"
      /\ q.provider = c.kind /\ q.env = facts
  BY GitRequestFields
<1> HIDE DEF q
<1>4. MapMatches(Yes({"localFixture", "readOnly"}), facts) <=> (c.kind = "local" /\ r.localPath)
  <2> DEFINE both == {"localFixture", "readOnly"}
  <2>1. MapMatches(Yes(both), facts) <=> \A k \in both : k \in DOMAIN facts /\ facts[k] = TRUE
    <3> HIDE DEF both
    <3> QED  BY YesMatches
  <2> QED  BY <1>1, <2>1
<1>5. MapMatches(Yes({"remoteGitEnabled", "remoteBranchCreateEnabled", "repoAllowlisted",
                      "branchPrefixAllowed", "credentialsConfigured"}), facts)
        <=> (c.remoteGit /\ c.branchCreate /\ r.repo \in c.repos /\ r.prefixOk /\ c.githubConfigured)
  <2> DEFINE gates == {"remoteGitEnabled", "remoteBranchCreateEnabled", "repoAllowlisted",
                       "branchPrefixAllowed", "credentialsConfigured"}
  <2>1. MapMatches(Yes(gates), facts) <=> \A k \in gates : k \in DOMAIN facts /\ facts[k] = TRUE
    <3> HIDE DEF gates
    <3> QED  BY YesMatches
  <2> QED  BY <1>1, <2>1 DEF Configuration
<1> QED  BY <1>2, <1>3, <1>4, <1>5, BranchDecision DEF Remote

LEMMA PullRequestPolicyMeans ==
    ASSUME NEW c, Configuration(c), NEW r, r.op = "pull_request_create",
           r.prefixOk \in BOOLEAN
    PROVE  EvaluateCreatePolicy(c, r) <=>
             \/ c.kind = "mock"
             \/ /\ c.kind = Remote /\ c.remoteGit /\ c.prCreate
                /\ r.repo \in c.repos /\ r.prefixOk /\ c.githubConfigured
<1> DEFINE facts == [localFixture                   |-> c.kind = "local" /\ r.localPath,
                     readOnly                       |-> c.kind = "local",
                     remoteGitEnabled               |-> c.remoteGit,
                     remoteBranchCreateEnabled      |-> c.branchCreate,
                     remotePullRequestCreateEnabled |-> c.prCreate,
                     repoAllowlisted                |-> r.repo \in c.repos,
                     branchPrefixAllowed            |-> r.prefixOk,
                     credentialsConfigured          |-> c.githubConfigured]
           q == GitRequest(c, "git.pull_request.create", "pull_request", facts)
<1>1. /\ DOMAIN facts = {"localFixture", "readOnly", "remoteGitEnabled", "remoteBranchCreateEnabled",
                         "remotePullRequestCreateEnabled", "repoAllowlisted", "branchPrefixAllowed",
                         "credentialsConfigured"}
      /\ facts["remoteGitEnabled"] = c.remoteGit
      /\ facts["remotePullRequestCreateEnabled"] = c.prCreate
      /\ facts["repoAllowlisted"] = (r.repo \in c.repos)
      /\ facts["branchPrefixAllowed"] = r.prefixOk
      /\ facts["credentialsConfigured"] = c.githubConfigured
  OBVIOUS
<1>2. EvaluateCreatePolicy(c, r) <=> Allowed(q)
  BY DEF EvaluateCreatePolicy
<1> HIDE DEF facts
<1>3. /\ q.action = "git.pull_request.create" /\ q.kind = "pull_request"
      /\ q.provider = c.kind /\ q.env = facts
  BY GitRequestFields
<1> HIDE DEF q
<1>4. MapMatches(Yes({"remoteGitEnabled", "remotePullRequestCreateEnabled", "repoAllowlisted",
                      "branchPrefixAllowed", "credentialsConfigured"}), facts)
        <=> (c.remoteGit /\ c.prCreate /\ r.repo \in c.repos /\ r.prefixOk /\ c.githubConfigured)
  <2> DEFINE gates == {"remoteGitEnabled", "remotePullRequestCreateEnabled", "repoAllowlisted",
                       "branchPrefixAllowed", "credentialsConfigured"}
  <2>1. MapMatches(Yes(gates), facts) <=> \A k \in gates : k \in DOMAIN facts /\ facts[k] = TRUE
    <3> HIDE DEF gates
    <3> QED  BY YesMatches
  <2> QED  BY <1>1, <2>1 DEF Configuration
<1> QED  BY <1>2, <1>3, <1>4, PullRequestDecision DEF Remote

LEMMA RefreshPolicyMeans ==
    ASSUME NEW c, Configuration(c)
    PROVE  RefreshPolicy(c, TRUE) <=> (c.remoteGit /\ c.githubConfigured)
<1> DEFINE env == [remoteGitEnabled |-> c.remoteGit, remoteOperationAllowed |-> TRUE,
                   repoAllowlisted |-> TRUE, credentialsConfigured |-> c.githubConfigured,
                   destructiveOperation |-> FALSE]
           q == [GitRequest(c, "git.changed_files.read", "git_operation", env) EXCEPT !.provider = Remote]
           yes == {"remoteGitEnabled", "remoteOperationAllowed", "repoAllowlisted",
                   "credentialsConfigured"}
           expected == Facts(yes, {"destructiveOperation"})
<1>1. /\ DOMAIN env = yes \cup {"destructiveOperation"}
      /\ env["remoteGitEnabled"] = c.remoteGit /\ env["remoteOperationAllowed"] = TRUE
      /\ env["repoAllowlisted"] = TRUE /\ env["credentialsConfigured"] = c.githubConfigured
      /\ env["destructiveOperation"] = FALSE
  OBVIOUS
<1>2. RefreshPolicy(c, TRUE) <=> Allowed(q)
  BY DEF RefreshPolicy
<1> HIDE DEF env
<1>3. /\ q.action = "git.changed_files.read" /\ q.kind = "git_operation"
      /\ q.provider = Remote /\ q.env = env
  BY GitRequestFields
<1> HIDE DEF q
<1>4. /\ DOMAIN expected = yes \cup {"destructiveOperation"}
      /\ \A k \in yes : expected[k] = TRUE
      /\ \A k \in {"destructiveOperation"} \ yes : expected[k] = FALSE
  <2> HIDE DEF yes
  <2> QED  BY FactValues
<1> HIDE DEF expected
<1>5. MapMatches(expected, env) <=> (c.remoteGit = TRUE /\ c.githubConfigured = TRUE)
  BY <1>1, <1>4 DEF MapMatches
<1> QED  BY <1>2, <1>3, <1>5, ReadDecision DEF Remote, Configuration, expected

(* The gate of the git service, its policies and the provider's guards     *)
(* agree for every environment and every request: the service never asks   *)
(* the provider for what its configuration refuses, and a secret reference *)
(* that cannot be resolved leaves it without credentials.                  *)
THEOREM GitLayersAlwaysAgree == InputOK => GitLayersAgree
<1> SUFFICES ASSUME InputOK, input.part = "git" PROVE GitLayersAgree
  BY DEF GitLayersAgree
<1> DEFINE c    == CreateGitProviderFromEnv(input.env)
           r    == input.request
           read == [r EXCEPT !.op = "changed_files"]
<1>1. GitInput(input)
  BY DEF InputOK
<1>2. /\ r.op \in {"branch_create", "pull_request_create"}
      /\ r.prefixOk \in BOOLEAN /\ r.localPath \in BOOLEAN
      /\ read.op = "changed_files" /\ read.repo = r.repo
  BY <1>1 DEF GitInput
<1>3. Configuration(c)
  BY <1>1, ConfigurationMade
<1>4. (input.env.tokenRef /\ input.env.resolver # "resolved") => ~HasClient(c)
  <2>1. (input.env.tokenRef /\ input.env.resolver # "resolved") => ~c.githubConfigured
    BY <1>1, ConfigurationMade
  <2> HIDE DEF c
  <2> QED  BY <2>1 DEF HasClient
<1> HIDE DEF c, r, read
<1>5. /\ r.op = "branch_create" => RemoteOperationAllowed(c, r.op) = c.branchCreate
      /\ r.op = "pull_request_create" => RemoteOperationAllowed(c, r.op) = c.prCreate
      /\ RemoteOperationAllowed(c, read.op) = TRUE
  BY <1>2 DEF RemoteOperationAllowed
<1>6. EvaluateRemotePolicy(c, r) <=>
        \/ c.kind # Remote /\ ~c.remoteGit
        \/ /\ c.kind = Remote /\ c.remoteGit /\ RemoteOperationAllowed(c, r.op)
           /\ r.repo \in c.repos /\ c.githubConfigured
  BY <1>2, <1>3, <1>5, RemotePolicyMeans DEF Configuration
<1>7. EvaluateRemotePolicy(c, read) <=>
        \/ c.kind # Remote /\ ~c.remoteGit
        \/ c.kind = Remote /\ c.remoteGit /\ r.repo \in c.repos /\ c.githubConfigured
  <2>1. RemoteOperationAllowed(c, read.op) \in BOOLEAN
    BY <1>5
  <2>2. EvaluateRemotePolicy(c, read) <=>
          \/ c.kind # Remote /\ ~c.remoteGit
          \/ /\ c.kind = Remote /\ c.remoteGit /\ RemoteOperationAllowed(c, read.op)
             /\ read.repo \in c.repos /\ c.githubConfigured
    BY <1>3, <2>1, RemotePolicyMeans
  <2> QED  BY <1>2, <1>5, <2>2
<1>8. (r.op = "branch_create") =>
        (EvaluateCreatePolicy(c, r) <=>
           \/ c.kind = "mock"
           \/ c.kind = "local" /\ r.localPath
           \/ /\ c.kind = Remote /\ c.remoteGit /\ c.branchCreate
              /\ r.repo \in c.repos /\ r.prefixOk /\ c.githubConfigured)
  BY <1>2, <1>3, BranchPolicyMeans
<1>9. (r.op = "pull_request_create") =>
        (EvaluateCreatePolicy(c, r) <=>
           \/ c.kind = "mock"
           \/ /\ c.kind = Remote /\ c.remoteGit /\ c.prCreate
              /\ r.repo \in c.repos /\ r.prefixOk /\ c.githubConfigured)
  BY <1>2, <1>3, PullRequestPolicyMeans
<1>10. /\ ValidateGitHubGate(c, r) <=>
            /\ c.remoteGit /\ RemoteOperationAllowed(c, r.op) /\ c.githubConfigured
            /\ r.repo \in c.repos /\ r.prefixOk
       /\ ValidateGitHubGate(c, read) <=> (c.remoteGit /\ c.githubConfigured /\ r.repo \in c.repos)
  BY <1>2, <1>5 DEF ValidateGitHubGate
<1>11. CreateAllowed(c, r) => (ProviderAccepts(c, r) \/ (c.kind = "local" /\ ~c.localBranch))
  <2>1. CASE r.op = "branch_create"
    BY <1>2, <1>3, <1>5, <1>6, <1>8, <1>10, <2>1
       DEF CreateAllowed, ProviderAccepts, ValidateWrite, Configuration, Remote
  <2>2. CASE r.op = "pull_request_create"
    BY <1>2, <1>3, <1>5, <1>6, <1>9, <1>10, <2>2
       DEF CreateAllowed, ProviderAccepts, ValidatePullRequest, Configuration, Remote
  <2> QED  BY <1>2, <2>1, <2>2
<1>12. (c.kind = Remote) =>
          (ValidateGitHubGate(c, r) <=> (EvaluateRemotePolicy(c, r) /\ EvaluateCreatePolicy(c, r)))
  BY <1>2, <1>5, <1>6, <1>8, <1>9, <1>10 DEF Remote
<1>13. (c.kind # Remote /\ c.remoteGit) => ~CreateAllowed(c, r)
  BY <1>6 DEF CreateAllowed
<1>14. ChangedFilesAllowed(c, read) <=>
          (c.kind = Remote /\ RefreshPolicy(c, TRUE) /\ ProviderAccepts(c, read))
  <2>1. RefreshPolicy(c, TRUE) <=> (c.remoteGit /\ c.githubConfigured)
    BY <1>3, RefreshPolicyMeans
  <2>2. (c.kind = Remote) => (ProviderAccepts(c, read) <=> ValidateRead(c, r.repo))
    BY <1>2 DEF ProviderAccepts, Remote
  <2> QED  BY <1>7, <1>10, <2>1, <2>2 DEF ChangedFilesAllowed, ValidateRead
<1> QED  BY <1>4, <1>11, <1>12, <1>13, <1>14 DEF GitLayersAgree, c, r, read

(***************************************************************************)
(* Tool calls                                                              *)
(***************************************************************************)

LEMMA TogetherValues ==
    ASSUME NEW f, NEW g
    PROVE  /\ DOMAIN Together(f, g) = DOMAIN f \cup DOMAIN g
           /\ \A k \in DOMAIN f : Together(f, g)[k] = f[k]
           /\ \A k \in DOMAIN g \ DOMAIN f : Together(f, g)[k] = g[k]
BY DEF Together

\* What a rule expects of both its parts.
LEMMA TogetherMatches ==
    ASSUME NEW f, NEW g, DOMAIN f \cap DOMAIN g = {}, NEW env
    PROVE  MapMatches(Together(f, g), env) <=> (MapMatches(f, env) /\ MapMatches(g, env))
<1>1. /\ DOMAIN Together(f, g) = DOMAIN f \cup DOMAIN g
      /\ \A k \in DOMAIN f : Together(f, g)[k] = f[k]
      /\ \A k \in DOMAIN g \ DOMAIN f : Together(f, g)[k] = g[k]
  BY Zenon, TogetherValues
<1> QED  BY <1>1 DEF MapMatches

LEMMA NoMatches ==
    ASSUME NEW keys, NEW env
    PROVE  MapMatches(No(keys), env) <=> \A k \in keys : k \in DOMAIN env /\ env[k] = FALSE
BY NoValues DEF MapMatches

LEMMA FactsMatch ==
    ASSUME NEW yes, NEW no, yes \cap no = {}, NEW env
    PROVE  MapMatches(Facts(yes, no), env)
             <=> /\ \A k \in yes : k \in DOMAIN env /\ env[k] = TRUE
                 /\ \A k \in no : k \in DOMAIN env /\ env[k] = FALSE
<1>1. /\ DOMAIN Facts(yes, no) = yes \cup no
      /\ \A k \in yes : Facts(yes, no)[k] = TRUE
      /\ \A k \in no : Facts(yes, no)[k] = FALSE
  BY FactValues
<1> QED  BY <1>1 DEF MapMatches

LEMMA RolesAndFacts ==
    ASSUME NEW roles, NEW facts, NEW r
    PROVE  ConditionMatches([roles |-> roles, env |-> facts], r)
             <=> (roles \cap r.roles # {} /\ MapMatches(facts, r.env))
BY DEF ConditionMatches

\* The rule that allows an action on tools or servers is the only one for it.
LEMMA ToolRuleDecides ==
    ASSUME NEW q, NEW rule \in McpRules, rule.effect = "allow",
           rule.action = q.action, rule.kind = q.kind
    PROVE  Allowed(q) <=> ConditionMatches(rule.conditions, q)
<1>1. rule \in Rules
  BY DEF Rules
<1>2. ASSUME NEW b \in Rules, b.action = q.action PROVE b = rule
  <2>1. b \in McpRules
    BY <1>1, <1>2, SameChapter
  <2> QED  BY <1>2, <2>1, RuleFields DEF McpRules
<1> QED  BY <1>1, <1>2, AllowedByTheRule

LEMMA ToolDecision ==
    ASSUME NEW q, q.action \in {"mcp.tool.invoke.low_risk", "mcp.tool.invoke"}, q.kind = "mcp_tool"
    PROVE  Allowed(q) <=> (ToolUsers \cap q.roles # {} /\ MapMatches(LowRiskTool, q.env))
<1> DEFINE rule == Rule("allow", q.action, "mcp_tool", 200, [roles |-> ToolUsers, env |-> LowRiskTool])
<1>1. rule \in McpRules
  BY DEF McpRules
<1>2. /\ rule.action = q.action /\ rule.kind = "mcp_tool" /\ rule.effect = "allow"
      /\ rule.conditions = [roles |-> ToolUsers, env |-> LowRiskTool]
  BY RuleFields
<1> HIDE DEF rule
<1>3. Allowed(q) <=> ConditionMatches(rule.conditions, q)
  BY <1>1, <1>2, ToolRuleDecides
<1> QED  BY <1>2, <1>3, RolesAndFacts

LEMMA ListDecisions ==
    ASSUME NEW q
    PROVE  /\ (q.action = "mcp.server.list" /\ q.kind = "mcp_server") =>
                (Allowed(q) <=> /\ Readers \cap q.roles # {}
                                /\ MapMatches(No({"realTransportEnabled"}), q.env))
           /\ (q.action = "mcp.tool.list" /\ q.kind = "mcp_tool") =>
                (Allowed(q) <=> /\ Readers \cap q.roles # {}
                                /\ MapMatches(Together([serverKind |-> "mock", serverStatus |-> "active"],
                                                       No({"realTransportEnabled"})), q.env))
<1> DEFINE noTransport == No({"realTransportEnabled"})
           onMock  == Together([serverKind |-> "mock", serverStatus |-> "active"], noTransport)
           servers == Rule("allow", "mcp.server.list", "mcp_server", 200,
                           [roles |-> Readers, env |-> noTransport])
           tools   == Rule("allow", "mcp.tool.list", "mcp_tool", 200,
                           [roles |-> Readers, env |-> onMock])
<1>1. servers \in McpRules /\ tools \in McpRules
  BY DEF McpRules
<1>2. /\ servers.action = "mcp.server.list" /\ servers.kind = "mcp_server" /\ servers.effect = "allow"
      /\ servers.conditions = [roles |-> Readers, env |-> noTransport]
      /\ tools.action = "mcp.tool.list" /\ tools.kind = "mcp_tool" /\ tools.effect = "allow"
      /\ tools.conditions = [roles |-> Readers, env |-> onMock]
  BY RuleFields
<1> HIDE DEF servers, tools, onMock, noTransport
<1>3. (q.action = "mcp.server.list" /\ q.kind = "mcp_server") =>
         (Allowed(q) <=> ConditionMatches(servers.conditions, q))
  BY <1>1, <1>2, ToolRuleDecides
<1>4. (q.action = "mcp.tool.list" /\ q.kind = "mcp_tool") =>
         (Allowed(q) <=> ConditionMatches(tools.conditions, q))
  BY <1>1, <1>2, ToolRuleDecides
<1>5. ConditionMatches(servers.conditions, q) <=> (Readers \cap q.roles # {} /\ MapMatches(noTransport, q.env))
  BY <1>2, RolesAndFacts
<1>6. ConditionMatches(tools.conditions, q) <=> (Readers \cap q.roles # {} /\ MapMatches(onMock, q.env))
  BY <1>2, RolesAndFacts
<1> QED  BY <1>3, <1>4, <1>5, <1>6 DEF onMock, noTransport

LEMMA RiskyToolsRefused ==
    ASSUME NEW q, q.action \in {"mcp.tool.invoke.high_risk", "mcp.tool.invoke.critical"}
    PROVE  ~Allowed(q)
<1> DEFINE rule == Rule("deny", q.action, "mcp_tool", 1000, Always)
<1>1. rule \in McpRules /\ rule \in Rules /\ rule.action = q.action
  BY RuleFields DEF McpRules, Rules
<1> HIDE DEF rule
<1>2. ASSUME NEW x \in Candidates(q) PROVE x.effect # "allow"
  <2>1. x \in Rules /\ x.action = q.action
    BY DEF Candidates
  <2>2. x \in McpRules
    BY <1>1, <2>1, SameChapter
  <2> QED  BY <2>1, <2>2, RuleFields DEF McpRules
<1> QED  BY <1>2, AllowedWhen

\* A tool and a server whose flags are set or not.
Flagged(server, tool) ==
    /\ \A flag \in ToolFlags : tool[flag] \in BOOLEAN
    /\ server.secrets \in BOOLEAN

LEMMA LowRiskMeans ==
    ASSUME NEW server, NEW tool, Flagged(server, tool)
    PROVE  MapMatches(LowRiskTool, PolicyEnvironment(server, tool)) <=>
             /\ server.kind = "mock" /\ server.status = "active" /\ tool.status = "active"
             /\ tool.risk = "low" /\ tool.readOnly
             /\ ~tool.secrets /\ ~server.secrets /\ ~tool.network /\ ~tool.write
             /\ ~tool.deploy /\ ~tool.localExecution
<1> DEFINE env   == PolicyEnvironment(server, tool)
           state == [serverKind |-> "mock", serverStatus |-> "active",
                     toolStatus |-> "active", riskLevel |-> "low"]
           no    == {"requiresSecrets", "networkRequired", "writeOperation",
                     "deployOperation", "realTransportEnabled", "localExecutionRequired"}
<1>1. /\ tool.readOnly \in BOOLEAN /\ tool.secrets \in BOOLEAN /\ tool.network \in BOOLEAN
      /\ tool.write \in BOOLEAN /\ tool.deploy \in BOOLEAN /\ tool.localExecution \in BOOLEAN
      /\ server.secrets \in BOOLEAN
  BY DEF Flagged, ToolFlags
<1>2. /\ DOMAIN env = {"serverKind", "serverStatus", "toolStatus", "riskLevel", "readOnly",
                       "requiresSecrets", "networkRequired", "writeOperation", "deployOperation",
                       "realTransportEnabled", "localExecutionRequired"}
      /\ env["serverKind"] = server.kind /\ env["serverStatus"] = server.status
      /\ env["toolStatus"] = tool.status /\ env["riskLevel"] = tool.risk
      /\ env["readOnly"] = tool.readOnly
      /\ env["requiresSecrets"] = (tool.secrets \/ server.secrets)
      /\ env["networkRequired"] = tool.network /\ env["writeOperation"] = tool.write
      /\ env["deployOperation"] = tool.deploy /\ env["realTransportEnabled"] = FALSE
      /\ env["localExecutionRequired"] = tool.localExecution
  BY DEF PolicyEnvironment
<1>3. MapMatches(state, env) <=>
        /\ server.kind = "mock" /\ server.status = "active"
        /\ tool.status = "active" /\ tool.risk = "low"
  <2>1. /\ DOMAIN state = {"serverKind", "serverStatus", "toolStatus", "riskLevel"}
        /\ state["serverKind"] = "mock" /\ state["serverStatus"] = "active"
        /\ state["toolStatus"] = "active" /\ state["riskLevel"] = "low"
    OBVIOUS
  <2> HIDE DEF state, env
  <2> QED  BY <1>2, <2>1 DEF MapMatches
<1>4. MapMatches(Facts({"readOnly"}, no), env) <=>
        /\ env["readOnly"] = TRUE
        /\ \A k \in no : env[k] = FALSE
  <2>1. {"readOnly"} \cap no = {} /\ no \subseteq DOMAIN env /\ "readOnly" \in DOMAIN env
    BY <1>2
  <2> HIDE DEF no, env
  <2>2. MapMatches(Facts({"readOnly"}, no), env) <=>
          /\ \A k \in {"readOnly"} : k \in DOMAIN env /\ env[k] = TRUE
          /\ \A k \in no : k \in DOMAIN env /\ env[k] = FALSE
    BY <2>1, FactsMatch
  <2> QED  BY <2>1, <2>2
<1>5. DOMAIN state \cap DOMAIN Facts({"readOnly"}, no) = {}
  <2>1. DOMAIN Facts({"readOnly"}, no) = {"readOnly"} \cup no
    BY DEF Facts
  <2> QED  BY <2>1
<1>6. MapMatches(LowRiskTool, env)
        <=> (MapMatches(state, env) /\ MapMatches(Facts({"readOnly"}, no), env))
  <2>1. LowRiskTool = Together(state, Facts({"readOnly"}, no))
    BY DEF LowRiskTool
  <2> HIDE DEF state, no, env
  <2> QED  BY <1>5, <2>1, TogetherMatches
<1> HIDE DEF env
<1>7. (env["readOnly"] = TRUE /\ \A k \in no : env[k] = FALSE) <=>
        /\ tool.readOnly /\ ~tool.secrets /\ ~server.secrets /\ ~tool.network /\ ~tool.write
        /\ ~tool.deploy /\ ~tool.localExecution
  BY <1>1, <1>2
<1> QED  BY <1>3, <1>4, <1>6, <1>7 DEF env

LEMMA ToolRequestFields ==
    ASSUME NEW actor, NEW action, NEW server, NEW tool
    PROVE  LET r == ToolRequest(action, server, tool)
               q == ToPolicySubject(actor, r)
           IN  /\ r.action = action /\ r.kind = "mcp_tool"
               /\ q.action = action /\ q.kind = "mcp_tool" /\ q.roles = actor.roles
               /\ q.env = PolicyEnvironment(server, tool)
BY DEF ToolRequest, ToPolicySubject, Request

LEMMA PoliciesOnTools ==
    ASSUME NEW actor, NEW server, NEW tool, NEW action,
           action \in {"mcp.tool.invoke.low_risk", "mcp.tool.invoke"}
    PROVE  Allowed(ToPolicySubject(actor, ToolRequest(action, server, tool)))
             <=> /\ ToolUsers \cap actor.roles # {}
                 /\ MapMatches(LowRiskTool, PolicyEnvironment(server, tool))
BY ToolRequestFields, ToolDecision

\* What an authorized call is: the actor is active and bound, and the tool is
\* one of low risk.
LEMMA AuthorizedMeans ==
    ASSUME NEW actor, NEW server, NEW tool, NEW task,
           Authorize(actor, server, tool, task) = "allowed"
    PROVE  /\ actor.active
           /\ ToolUsers \cap actor.roles # {}
           /\ MapMatches(LowRiskTool, PolicyEnvironment(server, tool))
           /\ \E b \in actor.bindings :
                 /\ b.role \in actor.roles
                 /\ "mcp.tool.invoke.low_risk" \in RolePermissions[b.role]
                 /\ ScopeMatches(b.scope, TaskScope(task), "mcp_tool", tool.id)
<1> DEFINE action == RiskAction(tool.risk)
           r == ToolRequest(action, server, tool)
<1>1. r.action = action /\ r.kind = "mcp_tool"
  BY ToolRequestFields
<1>2. action \in {"mcp.tool.invoke.critical", "mcp.tool.invoke.high_risk", "mcp.tool.invoke.low_risk"}
  BY DEF RiskAction
<1>3. action \notin RbacOnly
  BY <1>2 DEF RbacOnly
<1> HIDE DEF action
<1>4. Evaluate(actor, r, tool.id, TaskScope(task)) = "allowed"
  BY DEF Authorize, action
<1> HIDE DEF r
<1>5. Granted(actor, r, tool.id, TaskScope(task)) /\ Allowed(ToPolicySubject(actor, r))
  BY <1>1, <1>3, <1>4 DEF Evaluate
<1>6. action = "mcp.tool.invoke.low_risk"
  <2>1. ToPolicySubject(actor, r).action = action
    BY ToolRequestFields DEF r
  <2> QED  BY <1>2, <1>5, <2>1, RiskyToolsRefused
<1>7. /\ ToolUsers \cap actor.roles # {}
      /\ MapMatches(LowRiskTool, PolicyEnvironment(server, tool))
  BY <1>5, <1>6, PoliciesOnTools DEF r
<1>8. actor.active /\ PermissionGrantedByActiveBinding(actor, action, "mcp_tool", tool.id, TaskScope(task))
  BY <1>1, <1>5 DEF Granted
<1> QED  BY <1>6, <1>7, <1>8 DEF PermissionGrantedByActiveBinding

LEMMA CompletedMeans ==
    ASSUME NEW actorId, NEW server, NEW tool, NEW task,
           InvokeTool(actorId, server, tool, task) = "completed"
    PROVE  /\ CatalogAdmits(server, tool)
           /\ Authorize(ResolveAuthContext(actorId), server, tool, task) = "allowed"
<1> DEFINE actor == ResolveAuthContext(actorId)
<1>1. ValidateInvocation(actor, server, tool, task) = "completed"
  BY DEF InvokeTool
<1> HIDE DEF actor
<1>2. Authorize(actor, server, tool, task) \in {"allowed", "auth_denied", "policy_denied"}
  BY DEF Authorize, Evaluate
<1> QED  BY <1>1, <1>2 DEF ValidateInvocation, actor

\* Who may call a tool of low risk, and see the servers and the tools.
LEMMA RolesOnTools ==
    /\ \A r \in {"viewer", "reviewer", "security_admin"} :
          "mcp.tool.invoke.low_risk" \notin RolePermissions[r]
    /\ \A r \in {"system_admin", "developer"} :
          {"mcp.server.list", "mcp.tool.list"} \subseteq RolePermissions[r]
    /\ {"mcp.server.list", "mcp.tool.list"} \subseteq Permissions
<1>1. \A r \in {"viewer", "reviewer", "security_admin"} :
          "mcp.tool.invoke.low_risk" \notin RolePermissions[r]
  BY DEF RolePermissions
<1>2. {"mcp.server.list", "mcp.tool.list"} \subseteq Permissions
  BY DEF Permissions
<1>3. RolePermissions["system_admin"] = Permissions
  BY DEF RolePermissions
<1>4. {"mcp.server.list", "mcp.tool.list"} \subseteq RolePermissions["developer"]
  BY DEF RolePermissions
<1> QED  BY <1>1, <1>2, <1>3, <1>4

LEMMA BindingFields ==
    \A r, scope : Binding(r, scope).role = r /\ Binding(r, scope).scope = scope
BY DEF Binding

LEMMA ActorsAre ==
    ASSUME NEW id
    PROVE  LET actor == ResolveAuthContext(id) IN
           \/ id \in {"", "mock_admin"}
              /\ actor = Actor(TRUE, {"system_admin", "platform_admin"}, Global)
           \/ id = "user_demo_developer" /\ actor = Actor(TRUE, {"developer"}, Global)
           \/ id = "svc_runner"
              /\ actor = Actor(TRUE, {"service_account_runner"},
                               [kind |-> "task", id |-> "task_demo_backend"])
           \/ \E r \in {"viewer", "reviewer", "security_admin"} : actor = Actor(TRUE, {r}, Global)
           \/ actor = Actor(FALSE, {}, Global)
<1> DEFINE actor == ResolveAuthContext(id)
<1>1. /\ DOMAIN Actors = {"mock_admin", "user_demo_developer", "user_demo_viewer",
                          "user_demo_reviewer", "user_security_admin", "svc_runner",
                          "anonymous_mock"}
      /\ Actors["mock_admin"] = Actor(TRUE, {"system_admin", "platform_admin"}, Global)
      /\ Actors["user_demo_developer"] = Actor(TRUE, {"developer"}, Global)
      /\ Actors["user_demo_viewer"] = Actor(TRUE, {"viewer"}, Global)
      /\ Actors["user_demo_reviewer"] = Actor(TRUE, {"reviewer"}, Global)
      /\ Actors["user_security_admin"] = Actor(TRUE, {"security_admin"}, Global)
      /\ Actors["svc_runner"] = Actor(TRUE, {"service_account_runner"},
                                      [kind |-> "task", id |-> "task_demo_backend"])
      /\ Actors["anonymous_mock"] = Actor(FALSE, {}, Global)
  BY DEF Actors
<1>2. /\ id = "" => actor = Actors["mock_admin"]
      /\ (id # "" /\ id \in DOMAIN Actors) => actor = Actors[id]
      /\ (id # "" /\ id \notin DOMAIN Actors) => actor = Actor(FALSE, {}, Global)
  BY DEF ResolveAuthContext
<1> HIDE DEF actor
<1>3. CASE id \in {"", "mock_admin"}
  <2>1. actor = Actor(TRUE, {"system_admin", "platform_admin"}, Global)
    BY Zenon, <1>1, <1>2, <1>3
  <2> QED  BY <1>3, <2>1 DEF actor
<1>4. CASE id = "user_demo_developer"
  <2>1. actor = Actor(TRUE, {"developer"}, Global)
    BY <1>1, <1>2, <1>4
  <2> QED  BY <1>4, <2>1 DEF actor
<1>5. CASE id = "svc_runner"
  <2>1. actor = Actor(TRUE, {"service_account_runner"}, [kind |-> "task", id |-> "task_demo_backend"])
    BY <1>1, <1>2, <1>5
  <2> QED  BY <1>5, <2>1 DEF actor
<1>6. CASE id \in {"user_demo_viewer", "user_demo_reviewer", "user_security_admin"}
  <2>1. PICK r \in {"viewer", "reviewer", "security_admin"} : Actors[id] = Actor(TRUE, {r}, Global)
    BY <1>1, <1>6
  <2>2. actor = Actors[id]
    BY <1>1, <1>2, <1>6
  <2> QED  BY <2>1, <2>2 DEF actor
<1>7. CASE id = "anonymous_mock" \/ (id # "" /\ id \notin DOMAIN Actors)
  <2>1. CASE id = "anonymous_mock"
    <3>1. actor = Actor(FALSE, {}, Global)
      BY <1>1, <1>2, <2>1
    <3> QED  BY <3>1 DEF actor
  <2>2. CASE id # "" /\ id \notin DOMAIN Actors
    BY <1>2, <2>2 DEF actor
  <2> QED  BY <1>7, <2>1, <2>2
<1> QED
  <2>1. \/ id \in {"", "mock_admin"} \/ id = "user_demo_developer" \/ id = "svc_runner"
        \/ id \in {"user_demo_viewer", "user_demo_reviewer", "user_security_admin"}
        \/ id = "anonymous_mock" \/ (id # "" /\ id \notin DOMAIN Actors)
    BY <1>1
  <2> QED  BY <1>3, <1>4, <1>5, <1>6, <1>7, <2>1

\* A global binding lets its holder see the servers and their tools.
LEMMA ListsAllowed ==
    ASSUME NEW roles, NEW role \in roles, role \in {"system_admin", "developer"},
           NEW server, server.status = "active", server.kind = "mock"
    PROVE  LET actor == Actor(TRUE, roles, Global)
           IN  ListServersAllowed(actor) /\ ListToolsAllowed(actor, server)
<1> DEFINE actor == Actor(TRUE, roles, Global)
           onServers == [readOnly |-> TRUE, serverKind |-> "mock", serverStatus |-> "active",
                         realTransportEnabled |-> FALSE]
           onTools == [readOnly |-> TRUE, serverKind |-> server.kind,
                       serverStatus |-> server.status, realTransportEnabled |-> FALSE]
           askServers == [Request("mcp.server.list", "mcp_server") EXCEPT !.env = onServers]
           askTools   == [Request("mcp.tool.list", "mcp_tool") EXCEPT !.env = onTools]
<1>1. /\ actor.active = TRUE /\ actor.roles = roles
      /\ \E b \in actor.bindings : b.role = role /\ b.scope = Global
  <2>1. /\ actor.active = TRUE /\ actor.roles = roles
        /\ \A r \in roles : \E b \in actor.bindings : b.role = r /\ b.scope = Global
    <3>1. /\ actor.active = TRUE /\ actor.roles = roles
          /\ actor.bindings = {Binding(r, Global) : r \in roles}
      BY DEF Actor
    <3> HIDE DEF actor
    <3>2. \A r \in roles : Binding(r, Global) \in actor.bindings
      BY <3>1
    <3> QED  BY <3>1, <3>2, BindingFields
  <2> HIDE DEF actor
  <2> QED  BY <2>1
<1> HIDE DEF actor
<1>2. role \in Readers \cap roles
  BY DEF Readers
<1>3. \A scope, kind, id : ScopeMatches(Global, scope, kind, id)
  BY DEF ScopeMatches, Global
<1>4. ASSUME NEW action \in {"mcp.server.list", "mcp.tool.list"}, NEW r, r.action = action, NEW id
      PROVE  Granted(actor, r, id, NoScope)
  BY <1>1, <1>3, <1>4, RolesOnTools DEF Granted, PermissionGrantedByActiveBinding
<1>5. /\ askServers.action = "mcp.server.list" /\ askServers.kind = "mcp_server"
      /\ ToPolicySubject(actor, askServers).action = "mcp.server.list"
      /\ ToPolicySubject(actor, askServers).kind = "mcp_server"
      /\ ToPolicySubject(actor, askServers).roles = actor.roles
      /\ ToPolicySubject(actor, askServers).env = onServers
  BY DEF ToPolicySubject, Request
<1>6. /\ askTools.action = "mcp.tool.list" /\ askTools.kind = "mcp_tool"
      /\ ToPolicySubject(actor, askTools).action = "mcp.tool.list"
      /\ ToPolicySubject(actor, askTools).kind = "mcp_tool"
      /\ ToPolicySubject(actor, askTools).roles = actor.roles
      /\ ToPolicySubject(actor, askTools).env = onTools
  BY DEF ToPolicySubject, Request
<1> DEFINE none == {"realTransportEnabled"}
<1>7. MapMatches(No(none), onServers)
  <2>1. \A k \in none : k \in DOMAIN onServers /\ onServers[k] = FALSE
    OBVIOUS
  <2> HIDE DEF none, onServers
  <2> QED  BY <2>1, NoMatches
<1>8. MapMatches(Together([serverKind |-> "mock", serverStatus |-> "active"],
                          No({"realTransportEnabled"})), onTools)
  <2> DEFINE state == [serverKind |-> "mock", serverStatus |-> "active"]
  <2>1. MapMatches(No(none), onTools)
    <3>1. \A k \in none : k \in DOMAIN onTools /\ onTools[k] = FALSE
      OBVIOUS
    <3> HIDE DEF none, onTools
    <3> QED  BY <3>1, NoMatches
  <2>2. MapMatches(state, onTools)
    BY DEF MapMatches
  <2>3. DOMAIN No(none) \cap DOMAIN state = {}
    BY DEF No
  <2> HIDE DEF state, onTools, none
  <2>4. MapMatches(Together(state, No(none)), onTools)
    BY <2>1, <2>2, <2>3, TogetherMatches
  <2> QED  BY <2>4 DEF state, none
<1>9. ListServersAllowed(actor) <=> Evaluate(actor, askServers, "mcp_servers", NoScope) = "allowed"
  BY DEF ListServersAllowed
<1>10. ListToolsAllowed(actor, server) <=> Evaluate(actor, askTools, server.id, NoScope) = "allowed"
  BY DEF ListToolsAllowed
<1> HIDE DEF askServers, askTools, onServers, onTools
<1>11. Allowed(ToPolicySubject(actor, askServers)) /\ Allowed(ToPolicySubject(actor, askTools))
  BY <1>1, <1>2, <1>5, <1>6, <1>7, <1>8, ListDecisions
<1>12. Evaluate(actor, askServers, "mcp_servers", NoScope) = "allowed"
  BY <1>4, <1>5, <1>11 DEF Evaluate
<1>13. Evaluate(actor, askTools, server.id, NoScope) = "allowed"
  BY <1>4, <1>6, <1>11 DEF Evaluate
<1> QED  BY <1>9, <1>10, <1>12, <1>13 DEF actor

(* A call of a tool that completes is a read of low risk, of an active     *)
(* tool without secrets, network, writes or deployments, on a server of    *)
(* the catalog that admits it, for an active actor who could also list it; *)
(* the service account calls only for its own task. The policies already   *)
(* refuse what the gateway's own checks would refuse.                      *)
THEOREM ToolCallsAlwaysConfined == InputOK => ToolCallsConfined
<1> SUFFICES ASSUME InputOK, input.part = "tool" PROVE ToolCallsConfined
  BY DEF ToolCallsConfined
<1> DEFINE actor  == ResolveAuthContext(input.actor)
           server == input.server
           tool   == input.tool
           task   == input.task
           outcome == InvokeTool(input.actor, server, tool, task)
<1>1. Flagged(server, tool)
  BY DEF InputOK, ToolInput, Flagged
<1>2. MapMatches(LowRiskTool, PolicyEnvironment(server, tool)) <=>
        /\ server.kind = "mock" /\ server.status = "active" /\ tool.status = "active"
        /\ tool.risk = "low" /\ tool.readOnly
        /\ ~tool.secrets /\ ~server.secrets /\ ~tool.network /\ ~tool.write
        /\ ~tool.deploy /\ ~tool.localExecution
  BY <1>1, LowRiskMeans
<1> DEFINE authorized == Authorize(actor, server, tool, task) = "allowed"
<1>3. authorized =>
        /\ actor.active /\ ToolUsers \cap actor.roles # {}
        /\ MapMatches(LowRiskTool, PolicyEnvironment(server, tool))
        /\ \E b \in actor.bindings :
              /\ b.role \in actor.roles
              /\ "mcp.tool.invoke.low_risk" \in RolePermissions[b.role]
              /\ ScopeMatches(b.scope, TaskScope(task), "mcp_tool", tool.id)
  BY AuthorizedMeans
<1>4. (outcome = "completed") => (CatalogAdmits(server, tool) /\ authorized)
  BY CompletedMeans
<1>5. authorized => GenericPolicy(actor, server, tool)
  BY <1>3, PoliciesOnTools DEF GenericPolicy
<1> HIDE DEF actor, server, tool, task, outcome, authorized
<1>6. authorized => HardChecks(server, tool) = "completed"
  BY <1>2, <1>3 DEF HardChecks
<1>7. authorized => input.actor \in {"", "mock_admin", "user_demo_developer", "svc_runner"}
  <2>1. CASE \E r \in {"viewer", "reviewer", "security_admin"} : actor = Actor(TRUE, {r}, Global)
    <3>1. PICK r \in {"viewer", "reviewer", "security_admin"} : actor = Actor(TRUE, {r}, Global)
      BY <2>1
    <3>2. \A b \in actor.bindings : b.role = r
      <4>1. \A b \in actor.bindings : b.role \in {r}
        <5>1. actor.bindings = {Binding(x, Global) : x \in {r}}
          BY <3>1 DEF Actor
        <5>2. ASSUME NEW b \in actor.bindings PROVE b.role \in {r}
          <6>1. PICK x \in {r} : b = Binding(x, Global)
            BY <5>1
          <6> QED  BY <6>1, BindingFields
        <5> QED  BY <5>2
      <4> QED  BY <4>1
    <3> QED  BY <1>3, <3>2, RolesOnTools
  <2>2. CASE actor = Actor(FALSE, {}, Global)
    <3>1. Actor(FALSE, {}, Global).active = FALSE
      BY DEF Actor
    <3> QED  BY <1>3, <2>2, <3>1
  <2> QED  BY <2>1, <2>2, ActorsAre DEF actor
<1>8. (authorized /\ input.actor = "svc_runner") => (task = "task_demo_backend")
  <2> SUFFICES ASSUME authorized, input.actor = "svc_runner" PROVE task = "task_demo_backend"
    OBVIOUS
  <2> DEFINE own == [kind |-> "task", id |-> "task_demo_backend"]
  <2>1. actor = Actor(TRUE, {"service_account_runner"}, own)
    BY DEF actor, ResolveAuthContext, Actors
  <2>2. \A b \in actor.bindings : b.scope = own
    <3> DEFINE roles == {"service_account_runner"}
    <3> HIDE DEF own, roles
    <3>1. actor.bindings = {Binding(x, own) : x \in roles}
      BY <2>1 DEF Actor, roles
    <3>2. ASSUME NEW b \in actor.bindings PROVE b.scope = own
      <4>1. PICK x \in roles : b = Binding(x, own)
        BY <3>1
      <4> QED  BY <4>1, BindingFields
    <3> QED  BY <3>2
  <2>3. ScopeMatches(own, TaskScope(task), "mcp_tool", tool.id)
    BY <1>3, <2>2
  <2>4. CASE task = ""
    BY <2>3, <2>4 DEF ScopeMatches, TaskScope, NoScope
  <2>5. CASE task # ""
    BY <2>3, <2>5 DEF ScopeMatches, TaskScope, NoScope
  <2> QED  BY <2>4, <2>5
<1>9. (CatalogAdmits(server, tool) /\ authorized /\ input.actor # "svc_runner")
        => (ListServersAllowed(actor) /\ ListToolsAllowed(actor, server))
  <2> SUFFICES ASSUME CatalogAdmits(server, tool), authorized, input.actor # "svc_runner"
               PROVE  ListServersAllowed(actor) /\ ListToolsAllowed(actor, server)
    OBVIOUS
  <2>1. server.status = "active" /\ server.kind = "mock"
    BY DEF CatalogAdmits
  <2>2. CASE input.actor = "user_demo_developer"
    <3>1. actor = Actor(TRUE, {"developer"}, Global)
      BY <2>2 DEF actor, ResolveAuthContext, Actors
    <3>2. "developer" \in {"developer"}
      OBVIOUS
    <3> QED  BY Zenon, <2>1, <3>1, <3>2, ListsAllowed
  <2>3. CASE input.actor \in {"", "mock_admin"}
    <3>1. actor = Actor(TRUE, {"system_admin", "platform_admin"}, Global)
      <4>1. actor = Actors["mock_admin"]
        BY <2>3 DEF actor, ResolveAuthContext, Actors
      <4> QED  BY <4>1 DEF Actors
    <3> DEFINE roles == {"system_admin", "platform_admin"}
    <3>2. "system_admin" \in roles
      OBVIOUS
    <3> HIDE DEF roles
    <3>3. LET a == Actor(TRUE, roles, Global) IN ListServersAllowed(a) /\ ListToolsAllowed(a, server)
      BY Zenon, <2>1, <3>2, ListsAllowed
    <3> QED  BY <3>1, <3>3 DEF roles
  <2> QED  BY <1>7, <2>2, <2>3
<1>10. (outcome = "completed") =>
         /\ tool.readOnly /\ tool.risk = "low" /\ tool.status = "active"
         /\ \A flag \in ToolFlags \ {"readOnly"} : ~tool[flag]
         /\ server.kind = "mock" /\ server.status = "active" /\ ~server.secrets
         /\ tool.id \in server.allowedTools /\ tool.server = server.id
  BY <1>2, <1>3, <1>4 DEF CatalogAdmits, ToolFlags
<1> QED
  BY <1>4, <1>5, <1>6, <1>7, <1>8, <1>9, <1>10
     DEF ToolCallsConfined, actor, server, tool, task, outcome, authorized

(***************************************************************************)
(* The resolution of dependencies                                          *)
(***************************************************************************)

\* f answers for the sets of visited names that leave at most n names.
Resolves(f, in, n) ==
    /\ f = [visiting \in SUBSET Keys(in) |-> f[visiting]]
    /\ \A visiting \in SUBSET Keys(in) : (Cardinality(Keys(in) \ visiting) <= n) =>
          f[visiting] = [e \in in.registry |->
                            EntryDependencies(in, e, visiting, f[visiting \union {CurrentKey(e)}])]

LEMMA CyclesEnd ==
    ASSUME NEW in, NEW e, NEW visiting, CurrentKey(e) \in visiting, NEW below
    PROVE  EntryDependencies(in, e, visiting, below) = Cycle
BY DEF EntryDependencies

LEMMA KeysFinite ==
    ASSUME NEW in, IsFiniteSet(in.registry)
    PROVE  IsFiniteSet(Keys(in)) /\ \A e \in in.registry : CurrentKey(e) \in Keys(in)
<1> DEFINE key == [e \in in.registry |-> CurrentKey(e)]
<1>1. key \in [in.registry -> Keys(in)]
  BY DEF Keys
<1>2. \A k \in Keys(in) : \E e \in in.registry : key[e] = k
  BY DEF Keys
<1>3. key \in Surjection(in.registry, Keys(in))
  BY <1>1, <1>2 DEF Surjection
<1>4. IsFiniteSet(Keys(in))
  BY <1>3, FS_Surjection
<1> QED  BY <1>4 DEF Keys

\* One name more is visited, so one less is left.
LEMMA FewerLeft ==
    ASSUME NEW K, IsFiniteSet(K), NEW visiting \in SUBSET K, NEW k \in K, k \notin visiting
    PROVE  /\ Cardinality(K \ visiting) \in Nat
           /\ Cardinality(K \ (visiting \union {k})) \in Nat
           /\ Cardinality(K \ (visiting \union {k})) = Cardinality(K \ visiting) - 1
<1>1. IsFiniteSet(K \ visiting)
  BY FS_Difference
<1>2. (K \ visiting) \ {k} = K \ (visiting \union {k})
  OBVIOUS
<1>3. Cardinality((K \ visiting) \ {k}) = Cardinality(K \ visiting) - 1
  BY <1>1, FS_RemoveElement
<1>4. IsFiniteSet(K \ (visiting \union {k}))
  BY FS_Difference
<1> QED  BY <1>1, <1>2, <1>3, <1>4, FS_CardinalityType

LEMMA ResolvesZero ==
    ASSUME NEW in, IsFiniteSet(in.registry)
    PROVE  \E f : Resolves(f, in, 0)
<1> DEFINE K == Keys(in)
           f == [visiting \in SUBSET K |-> [e \in in.registry |-> Cycle]]
<1>1. IsFiniteSet(K) /\ \A e \in in.registry : CurrentKey(e) \in K
  BY KeysFinite
<1>2. f = [visiting \in SUBSET K |-> f[visiting]]
  OBVIOUS
<1>3. ASSUME NEW visiting \in SUBSET K, Cardinality(K \ visiting) <= 0
      PROVE  f[visiting] = [e \in in.registry |->
                EntryDependencies(in, e, visiting, f[visiting \union {CurrentKey(e)}])]
  <2>1. IsFiniteSet(K \ visiting)
    BY <1>1, FS_Difference
  <2>2. Cardinality(K \ visiting) = 0
    BY <1>3, <2>1, FS_CardinalityType
  <2>3. K \ visiting = {}
    BY <2>1, <2>2, FS_EmptySet
  <2>4. ASSUME NEW e \in in.registry
        PROVE  EntryDependencies(in, e, visiting, f[visiting \union {CurrentKey(e)}]) = Cycle
    <3>1. CurrentKey(e) \in visiting
      BY <1>1, <2>3
    <3> QED  BY <3>1, CyclesEnd
  <2>5. f[visiting] = [e \in in.registry |-> Cycle]
    OBVIOUS
  <2> HIDE DEF f
  <2> QED  BY <2>4, <2>5
<1> HIDE DEF f
<1> QED  BY <1>2, <1>3 DEF Resolves

LEMMA ResolvesNext ==
    ASSUME NEW in, IsFiniteSet(in.registry), NEW n \in Nat, NEW f, Resolves(f, in, n)
    PROVE  \E g : Resolves(g, in, n + 1)
<1> DEFINE K == Keys(in)
           Row(h, visiting) ==
             [e \in in.registry |-> EntryDependencies(in, e, visiting, h[visiting \union {CurrentKey(e)}])]
           low == {visiting \in SUBSET K : Cardinality(K \ visiting) <= n}
           g == [visiting \in SUBSET K |-> IF visiting \in low THEN f[visiting] ELSE Row(f, visiting)]
<1>1. IsFiniteSet(K) /\ \A e \in in.registry : CurrentKey(e) \in K
  BY KeysFinite
<1>2. \A visiting \in low : f[visiting] = Row(f, visiting)
  BY DEF Resolves
<1>3. \A visiting \in SUBSET K : g[visiting] = IF visiting \in low THEN f[visiting] ELSE Row(f, visiting)
  OBVIOUS
<1>4. g = [visiting \in SUBSET K |-> g[visiting]]
  OBVIOUS
<1> HIDE DEF g
<1>5. ASSUME NEW visiting \in SUBSET K, Cardinality(K \ visiting) <= n + 1
      PROVE  Row(g, visiting) = Row(f, visiting)
  <2>1. ASSUME NEW e \in in.registry
        PROVE  EntryDependencies(in, e, visiting, g[visiting \union {CurrentKey(e)}])
                 = EntryDependencies(in, e, visiting, f[visiting \union {CurrentKey(e)}])
    <3>1. CASE CurrentKey(e) \in visiting
      BY <3>1, CyclesEnd
    <3>2. CASE CurrentKey(e) \notin visiting
      <4> DEFINE here == visiting \union {CurrentKey(e)}
      <4>1. here \in SUBSET K
        BY <1>1
      <4>2. Cardinality(K \ here) = Cardinality(K \ visiting) - 1 /\ Cardinality(K \ visiting) \in Nat
        BY <1>1, <3>2, FewerLeft
      <4>3. here \in low
        BY <1>5, <4>1, <4>2
      <4> HIDE DEF here, low
      <4>4. g[here] = f[here]
        BY <1>3, <4>1, <4>3
      <4> QED  BY <4>4 DEF here
    <3> QED  BY <3>1, <3>2
  <2> QED  BY <2>1
<1>6. ASSUME NEW visiting \in SUBSET K, Cardinality(K \ visiting) <= n + 1
      PROVE  g[visiting] = Row(g, visiting)
  <2> HIDE DEF Row, low
  <2>1. g[visiting] = Row(f, visiting)
    BY <1>2, <1>3
  <2> QED  BY <1>5, <1>6, <2>1
<1> HIDE DEF low
<1>7. Resolves(g, in, n + 1)
  BY <1>4, <1>6 DEF Resolves
<1> QED  BY <1>7

\* Every set of visited names is answered.
LEMMA ResolvesAll ==
    ASSUME NEW in, IsFiniteSet(in.registry)
    PROVE  \A n \in Nat : \E f : Resolves(f, in, n)
<1> DEFINE failing == {n \in Nat : ~\E f : Resolves(f, in, n)}
<1> SUFFICES ASSUME failing # {} PROVE FALSE
  OBVIOUS
<1>1. PICK m \in failing : \A n \in failing : m <= n
  BY LeastNatural
<1>2. m \in Nat /\ ~\E f : Resolves(f, in, m)
  OBVIOUS
<1>3. m # 0
  BY <1>2, ResolvesZero
<1>4. m - 1 \in Nat /\ m - 1 \notin failing
  BY <1>1, <1>2, <1>3
<1>5. PICK f : Resolves(f, in, m - 1)
  BY <1>4
<1>6. \E g : Resolves(g, in, (m - 1) + 1)
  BY <1>4, <1>5, ResolvesNext
<1> QED  BY <1>2, <1>6

LEMMA ResolutionIs ==
    ASSUME NEW in, IsFiniteSet(in.registry), NEW visiting \in SUBSET Keys(in), NEW e \in in.registry
    PROVE  LET R == ResolveEntryDependencies(in)
           IN  R[visiting][e] = EntryDependencies(in, e, visiting, R[visiting \union {CurrentKey(e)}])
<1> DEFINE K == Keys(in)
           R == ResolveEntryDependencies(in)
           IsResolution(f) ==
             f = [v \in SUBSET K |-> [d \in in.registry |->
                    EntryDependencies(in, d, v, f[v \union {CurrentKey(d)}])]]
<1>1. IsFiniteSet(K) /\ Cardinality(K) \in Nat
  BY KeysFinite, FS_CardinalityType
<1>2. PICK f : Resolves(f, in, Cardinality(K))
  BY <1>1, ResolvesAll
<1>3. \A v \in SUBSET K : Cardinality(K \ v) <= Cardinality(K)
  <2>1. \A v \in SUBSET K : K \ v \in SUBSET K
    OBVIOUS
  <2> QED  BY <1>1, <2>1, FS_Subset
<1>4. IsResolution(f)
  <2>1. f = [v \in SUBSET K |-> f[v]]
    BY <1>2 DEF Resolves
  <2>2. \A v \in SUBSET K : f[v] = [d \in in.registry |->
                    EntryDependencies(in, d, v, f[v \union {CurrentKey(d)}])]
    BY <1>2, <1>3 DEF Resolves
  <2> QED  BY <2>1, <2>2
<1>5. R = CHOOSE h : IsResolution(h)
  BY DEF ResolveEntryDependencies
<1> HIDE DEF R
<1>6. IsResolution(R)
  BY <1>4, <1>5
<1>7. R[visiting] = [d \in in.registry |->
                    EntryDependencies(in, d, visiting, R[visiting \union {CurrentKey(d)}])]
  BY <1>6
<1> QED  BY <1>7 DEF R

(***************************************************************************)
(* What a resolution without errors provides                               *)
(***************************************************************************)

\* The version v is at least the base of the range, in the same major version.
InRange(v, range) ==
    \/ range.op = "latest"
    \/ v[1] = range.base[1] /\ CompareSemver(v, range.base) >= 0

\* The entry d is what the dependency dep asks for.
Meets(d, dep) == d.kind = dep.kind /\ d.name = dep.name /\ InRange(d.version, dep.range)

\* A harness that is depended on is looked up, and not selected.
Needed(dep) == dep.required /\ dep.kind # "harness"

\* What the entries es need is in all.
Provided(es, all) ==
    \A e \in es : \A dep \in e.deps : Needed(dep) => \E d \in all : Meets(d, dep)

\* What ResolveInput says of a registry.
RegistryOK(registry) ==
    \A e \in registry :
       /\ e.kind \in RegistryKinds /\ Version(e.version)
       /\ \A dep \in e.deps : dep.kind \in RegistryKinds /\ VersionRange(dep.range)

LEMMA SatisfiesInRange ==
    ASSUME NEW v, Version(v), NEW range, VersionRange(range), VersionSatisfiesRange(v, range)
    PROVE  InRange(v, range)
<1>1. range.op \in {"latest", "exact", "major", "caret", "tilde"}
  BY DEF VersionSatisfiesRange
<1>2. CASE range.op = "latest"
  BY <1>2 DEF InRange
<1>3. CASE range.op # "latest"
  <2>1. Version(range.base) /\ (range.op = "major" => range.base[2] = 0 /\ range.base[3] = 0)
    BY <1>1, <1>3 DEF VersionRange, RangeOps
  <2>2. /\ v[1] \in Nat /\ v[2] \in Nat /\ v[3] \in Nat
        /\ range.base[1] \in Nat /\ range.base[2] \in Nat /\ range.base[3] \in Nat
    BY <2>1 DEF Version
  <2>3. CASE range.op = "exact"
    BY <1>3, <2>2, <2>3 DEF VersionSatisfiesRange, InRange, CompareSemver
  <2>4. CASE range.op = "major"
    BY <1>3, <2>1, <2>2, <2>4 DEF VersionSatisfiesRange, InRange, CompareSemver
  <2>5. CASE range.op \in {"caret", "tilde"}
    BY <1>3, <2>5 DEF VersionSatisfiesRange, InRange
  <2> QED  BY <1>1, <1>3, <2>3, <2>4, <2>5
<1> QED  BY <1>2, <1>3

LEMMA HighestFits ==
    ASSUME NEW entries, NEW range
    PROVE  \A d \in HighestCompatible(entries, range) :
              d \in entries /\ VersionSatisfiesRange(d.version, range)
<1> DEFINE fit  == {e \in entries : VersionSatisfiesRange(e.version, range)}
           best == {e \in fit : \A d \in fit : ~Precedes(d, e)}
<1>1. HighestCompatible(entries, range) = IF best = {} THEN {} ELSE {CHOOSE e \in best : TRUE}
  BY DEF HighestCompatible
<1>2. best # {} => (CHOOSE e \in best : TRUE) \in best
  OBVIOUS
<1>3. best \subseteq fit
  OBVIOUS
<1>4. \A d \in fit : d \in entries /\ VersionSatisfiesRange(d.version, range)
  OBVIOUS
<1> HIDE DEF fit, best
<1> QED  BY <1>1, <1>2, <1>3, <1>4

LEMMA Merged ==
    ASSUME NEW results
    PROVE  /\ \A x : x \in Merge(results).selected <=> \E r \in results : x \in r.selected
           /\ Merge(results).errors = {} <=> \A r \in results : r.errors = {}
<1>1. /\ Merge(results).selected = UNION {r.selected : r \in results}
      /\ Merge(results).errors = UNION {r.errors : r \in results}
  BY DEF Merge
<1>2. \A x : x \in Merge(results).selected <=> \E r \in results : x \in r.selected
  BY <1>1
<1>3. \A x : x \in Merge(results).errors <=> \E r \in results : x \in r.errors
  BY <1>1
<1> QED  BY <1>2, <1>3

\* A dependency selects an open entry that meets it, when it is required.
LEMMA DependencyFound ==
    ASSUME NEW in, RegistryOK(in.registry), NEW dep, VersionRange(dep.range)
    PROVE  LET found == FindSelectableDependency(in, dep) IN
           /\ \A d \in found.selected : d \in in.registry /\ d.open /\ Meets(d, dep)
           /\ (found.errors = {} /\ dep.required) => found.selected # {}
<1> DEFINE entries == Open(Named(OfKind(in.registry, dep.kind), dep.name))
           best    == HighestCompatible(entries, dep.range)
           found   == FindSelectableDependency(in, dep)
<1>1. \A d \in entries : d \in in.registry /\ d.open /\ d.kind = dep.kind /\ d.name = dep.name
  BY DEF Open, Named, OfKind
<1>2. found = IF ~IsSupportedVersionRange(dep.range) THEN [selected |-> {}, errors |-> {"range"}]
              ELSE [selected |-> best, errors |-> IF best = {} /\ dep.required THEN {"dependency"} ELSE {}]
  BY DEF FindSelectableDependency
<1> HIDE DEF entries, found
<1>3. ASSUME NEW d \in best PROVE d \in in.registry /\ d.open /\ Meets(d, dep)
  <2>1. d \in entries /\ VersionSatisfiesRange(d.version, dep.range)
    BY HighestFits
  <2>2. Version(d.version)
    BY <1>1, <2>1 DEF RegistryOK
  <2> QED  BY <1>1, <2>1, <2>2, SatisfiesInRange DEF Meets
<1> HIDE DEF best
<1>4. \A d \in found.selected : d \in best
  BY <1>2
<1>5. (found.errors = {} /\ dep.required) => found.selected # {}
  BY <1>2
<1> QED  BY <1>3, <1>4, <1>5 DEF found

\* A result for entry e: what it selects is open and, without errors, contains
\* what e and everything it selects need.
Settles(in, e, r) ==
    /\ \A d \in r.selected : d \in in.registry /\ d.open
    /\ (r.errors = {}) => Provided({e} \cup r.selected, r.selected)

LEMMA FollowSettles ==
    ASSUME NEW in, RegistryOK(in.registry), NEW dep, VersionRange(dep.range),
           NEW visiting, NEW below, \A d \in in.registry : Settles(in, d, below[d])
    PROVE  LET r == Follow(in, dep, visiting, below) IN
           /\ \A d \in r.selected : d \in in.registry /\ d.open
           /\ (r.errors = {}) => /\ Needed(dep) => \E d \in r.selected : Meets(d, dep)
                                 /\ Provided(r.selected, r.selected)
<1> DEFINE found == FindSelectableDependency(in, dep)
           own   == [found EXCEPT !.selected = {d \in @ : d.kind # "harness"}]
           parts == {below[d] : d \in found.selected} \cup {own}
           r     == Follow(in, dep, visiting, below)
<1>1. CASE <<dep.kind, dep.name>> \in visiting
  <2>1. r = Cycle
    BY <1>1 DEF Follow
  <2> QED  BY <2>1 DEF Cycle
<1>2. CASE <<dep.kind, dep.name>> \notin visiting
  <2>1. r = Merge(parts)
    BY <1>2 DEF Follow
  <2>2. /\ \A d \in found.selected : d \in in.registry /\ d.open /\ Meets(d, dep)
        /\ (found.errors = {} /\ dep.required) => found.selected # {}
    BY DependencyFound
  <2>3. /\ own.selected = {d \in found.selected : d.kind # "harness"}
        /\ own.errors = found.errors
    BY DEF FindSelectableDependency
  <2> HIDE DEF found, own, r
  <2>4. /\ \A x : x \in r.selected <=> \/ x \in own.selected
                                       \/ \E d \in found.selected : x \in below[d].selected
        /\ (r.errors = {}) => own.errors = {} /\ \A d \in found.selected : below[d].errors = {}
    <3>1. \A x : x \in r.selected <=> \E p \in parts : x \in p.selected
      BY <2>1, Merged
    <3>2. (r.errors = {}) <=> \A p \in parts : p.errors = {}
      BY <2>1, Merged
    <3> QED  BY <3>1, <3>2
  <2>5. \A d \in r.selected : d \in in.registry /\ d.open
    BY <2>2, <2>3, <2>4 DEF Settles
  <2>6. ASSUME r.errors = {}, Needed(dep) PROVE \E d \in r.selected : Meets(d, dep)
    <3>1. PICK d \in found.selected : Meets(d, dep)
      BY <2>2, <2>3, <2>4, <2>6 DEF Needed
    <3>2. d \in own.selected
      BY <2>3, <2>6, <3>1 DEF Meets, Needed
    <3> QED  BY <2>4, <3>1, <3>2
  <2>7. ASSUME r.errors = {}, NEW x \in r.selected, NEW needs \in x.deps, Needed(needs)
        PROVE  \E d \in r.selected : Meets(d, needs)
    <3>1. PICK d \in found.selected : x = d \/ x \in below[d].selected
      BY <2>3, <2>4
    <3>2. Provided({d} \cup below[d].selected, below[d].selected)
      BY <2>2, <2>4, <2>7, <3>1 DEF Settles
    <3>3. \E y \in below[d].selected : Meets(y, needs)
      BY <2>7, <3>1, <3>2 DEF Provided
    <3> QED  BY <2>4, <3>1, <3>3
  <2> QED  BY <2>5, <2>6, <2>7 DEF Provided, r
<1> QED  BY <1>1, <1>2

LEMMA EntrySettles ==
    ASSUME NEW in, RegistryOK(in.registry), NEW e \in in.registry,
           NEW visiting, NEW below,
           (CurrentKey(e) \notin visiting) => \A d \in in.registry : Settles(in, d, below[d])
    PROVE  Settles(in, e, EntryDependencies(in, e, visiting, below))
<1> DEFINE here  == visiting \cup {CurrentKey(e)}
           parts == {Follow(in, dep, here, below) : dep \in e.deps}
           r     == EntryDependencies(in, e, visiting, below)
<1>1. CASE CurrentKey(e) \in visiting
  <2>1. r = Cycle
    BY <1>1, CyclesEnd
  <2> QED  BY <2>1 DEF Cycle, Settles
<1>2. CASE CurrentKey(e) \notin visiting
  <2>1. r = Merge(parts)
    BY <1>2 DEF EntryDependencies
  <2>2. ASSUME NEW dep \in e.deps
        PROVE  LET p == Follow(in, dep, here, below) IN
               /\ \A d \in p.selected : d \in in.registry /\ d.open
               /\ (p.errors = {}) => /\ Needed(dep) => \E d \in p.selected : Meets(d, dep)
                                     /\ Provided(p.selected, p.selected)
    <3>1. VersionRange(dep.range)
      BY DEF RegistryOK
    <3> HIDE DEF here
    <3> QED  BY <1>2, <3>1, FollowSettles
  <2>3. /\ \A x : x \in Merge(parts).selected <=> \E p \in parts : x \in p.selected
        /\ Merge(parts).errors = {} <=> \A p \in parts : p.errors = {}
    BY Merged
  <2> HIDE DEF r, here
  <2>4. /\ \A x : x \in r.selected <=> \E dep \in e.deps : x \in Follow(in, dep, here, below).selected
        /\ r.errors = {} => \A dep \in e.deps : Follow(in, dep, here, below).errors = {}
    BY <2>1, <2>3
  <2>5. \A d \in r.selected : d \in in.registry /\ d.open
    BY <2>2, <2>4
  <2>6. ASSUME r.errors = {}, NEW needs \in e.deps, Needed(needs)
        PROVE  \E d \in r.selected : Meets(d, needs)
    <3>1. PICK d \in Follow(in, needs, here, below).selected : Meets(d, needs)
      BY <2>2, <2>4, <2>6
    <3> QED  BY <2>4, <3>1
  <2>7. ASSUME r.errors = {}, NEW x \in r.selected, NEW needs \in x.deps, Needed(needs)
        PROVE  \E d \in r.selected : Meets(d, needs)
    <3>1. PICK dep \in e.deps : x \in Follow(in, dep, here, below).selected
      BY <2>4
    <3>2. Provided(Follow(in, dep, here, below).selected, Follow(in, dep, here, below).selected)
      BY <2>2, <2>4, <2>7
    <3>3. PICK d \in Follow(in, dep, here, below).selected : Meets(d, needs)
      BY <2>7, <3>1, <3>2 DEF Provided
    <3> QED  BY <2>4, <3>3
  <2> QED  BY <2>5, <2>6, <2>7 DEF Provided, Settles, r
<1> QED  BY <1>1, <1>2

\* By induction on how many names are not visited yet.
LEMMA AllSettle ==
    ASSUME NEW in, IsFiniteSet(in.registry), RegistryOK(in.registry),
           NEW visiting \in SUBSET Keys(in), NEW e \in in.registry
    PROVE  Settles(in, e, ResolveEntryDependencies(in)[visiting][e])
<1> DEFINE K == Keys(in)
           R == ResolveEntryDependencies(in)
           Bad(v) == \E d \in in.registry : ~Settles(in, d, R[v][d])
           failing == {n \in Nat : \E v \in SUBSET K : Bad(v) /\ n = Cardinality(K \ v)}
<1>1. IsFiniteSet(K) /\ \A d \in in.registry : CurrentKey(d) \in K
  BY KeysFinite
<1>2. \A v \in SUBSET K : Cardinality(K \ v) \in Nat
  BY <1>1, FS_Difference, FS_CardinalityType
<1>3. ASSUME failing # {} PROVE FALSE
  <2>1. failing \in SUBSET Nat
    OBVIOUS
  <2>2. PICK m \in failing : \A n \in failing : m <= n
    <3> HIDE DEF failing
    <3> QED  BY <1>3, <2>1, LeastNatural
  <2>3. PICK v \in SUBSET K : Bad(v) /\ m = Cardinality(K \ v)
    OBVIOUS
  <2>4. PICK d \in in.registry : ~Settles(in, d, R[v][d])
    BY <2>3
  <2> DEFINE here == v \cup {CurrentKey(d)}
  <2>5. R[v][d] = EntryDependencies(in, d, v, R[here])
    BY ResolutionIs
  <2>6. ASSUME CurrentKey(d) \notin v PROVE \A x \in in.registry : Settles(in, x, R[here][x])
    <3>1. here \in SUBSET K
      BY <1>1
    <3>2. Cardinality(K \ here) = Cardinality(K \ v) - 1 /\ Cardinality(K \ here) \in Nat
          /\ Cardinality(K \ v) \in Nat
      BY <1>1, <2>6, FewerLeft
    <3>3. ~Bad(here)
      <4>1. ASSUME Bad(here) PROVE FALSE
        <5>1. Cardinality(K \ here) \in failing
          BY <3>1, <3>2, <4>1
        <5>2. m <= Cardinality(K \ here)
          BY <2>2, <5>1
        <5> HIDE DEF K, here, Bad, failing
        <5> QED  BY <2>3, <3>2, <5>2
      <4> QED  BY <4>1
    <3> QED  BY <3>3
  <2> HIDE DEF R, here
  <2>7. Settles(in, d, R[v][d])
    BY <2>5, <2>6, EntrySettles
  <2> QED  BY <2>4, <2>7
<1>4. ~Bad(visiting)
  BY <1>2, <1>3
<1> QED  BY <1>4

LEMMA RequestedFound ==
    ASSUME NEW entries, NEW req
    PROVE  \A e \in FindRequested(entries, req).selected : e \in entries
<1> DEFINE byId  == {e \in entries : e.id = req.name}
           found == HighestCompatible(Open(Named(entries, req.name)), req.range)
<1>1. \A e \in found : e \in entries
  BY HighestFits DEF Open, Named
<1>2. \A e \in byId : e \in entries
  OBVIOUS
<1>3. \A e \in FindRequested(entries, req).selected : e \in byId \/ e \in found
  BY DEF FindRequested
<1> QED  BY <1>1, <1>2, <1>3

\* The entries that a task starts from are open, and without errors there is a
\* skill and a harness among them.
LEMMA SkillsSelected ==
    ASSUME NEW in
    PROVE  LET skills == ResolveSkillEntries(in) IN
           /\ \A e \in skills.selected : e \in in.registry /\ e.open
           /\ (skills.errors = {}) => skills.selected # {}
<1> DEFINE skills    == OfKind(in.registry, "skill")
           found     == Merge({FindRequestedSkill(skills, req) : req \in in.skillRequests})
           requested == Open(found.selected)
           conflict  == IF "conflict" \in in.topics
                        THEN FindSelectableSkill(skills, "conflict-risk-reviewer") ELSE {}
           test      == IF "test" \in in.topics
                        THEN FindSelectableSkill(skills, "jest-test-fixer") ELSE {}
           auth      == FindSelectableSkill(skills, "auth-debugging")
           first     == requested \union conflict
           default   == IF test # {} THEN test ELSE IF auth # {} THEN auth
                        ELSE HighestCompatible(Open(skills), LatestRange)
           selected  == IF first # {} THEN first ELSE default
           out       == ResolveSkillEntries(in)
<1>1. /\ out.selected = selected
      /\ out.errors = found.errors \union (IF selected = {} THEN {"no_skill"} ELSE {})
  BY DEF ResolveSkillEntries
<1>2. \A x : x \in skills => x \in in.registry
  BY DEF OfKind
<1>3. \A name : \A e \in FindSelectableSkill(skills, name) : e \in skills /\ e.open
  BY HighestFits DEF FindSelectableSkill, Open, Named
<1>4. \A e \in HighestCompatible(Open(skills), LatestRange) : e \in skills /\ e.open
  BY HighestFits DEF Open
<1>5. \A req : \A e \in FindRequestedSkill(skills, req).selected : e \in skills
  BY RequestedFound DEF FindRequestedSkill
<1>6. \A e \in requested : e \in skills /\ e.open
  BY <1>5, Merged DEF Open
<1> HIDE DEF skills, found, requested, out
<1>7. \A e \in selected : e \in skills /\ e.open
  BY <1>3, <1>4, <1>6
<1> HIDE DEF selected
<1>8. ASSUME selected = {} PROVE out.errors # {}
  <2>1. out.errors = found.errors \union {"no_skill"}
    BY <1>1, <1>8
  <2> QED  BY <2>1
<1> QED  BY <1>1, <1>2, <1>7, <1>8 DEF out

LEMMA HarnessSelected ==
    ASSUME NEW in
    PROVE  LET harness == ResolveHarnessEntry(in) IN
           /\ \A e \in harness.selected : e \in in.registry /\ e.open
           /\ (harness.errors = {}) => harness.selected # {}
<1> DEFINE harnesses == OfKind(in.registry, "harness")
           found     == Merge({FindRequestedHarness(harnesses, req) : req \in in.harnessRequests})
           requested == Open(found.selected)
           desired   == FindSelectableHarness(harnesses,
                           IF "frontend" \in in.topics THEN "frontend-node20"
                           ELSE IF "dry_run" \in in.topics THEN "local-git-dry-run" ELSE "backend-node20")
           fallback  == HighestCompatible(Open(harnesses), LatestRange)
           selected  == IF requested # {} THEN requested ELSE IF desired # {} THEN desired ELSE fallback
           out       == ResolveHarnessEntry(in)
<1>1. /\ out.selected = selected
      /\ out.errors = found.errors \union (IF selected = {} THEN {"no_harness"} ELSE {})
  BY DEF ResolveHarnessEntry
<1>2. \A x : x \in harnesses => x \in in.registry
  BY DEF OfKind
<1>3. \A name : \A e \in FindSelectableHarness(harnesses, name) : e \in harnesses /\ e.open
  BY HighestFits DEF FindSelectableHarness, Open, Named
<1>4. \A e \in fallback : e \in harnesses /\ e.open
  BY HighestFits DEF Open
<1>5. \A req : \A e \in FindRequestedHarness(harnesses, req).selected : e \in harnesses
  BY RequestedFound DEF FindRequestedHarness
<1>6. \A e \in requested : e \in harnesses /\ e.open
  BY <1>5, Merged DEF Open
<1>7. \A e \in desired : e \in harnesses /\ e.open
  BY <1>3
<1> HIDE DEF harnesses, found, requested, desired, fallback, out
<1>8. \A e \in selected : e \in harnesses /\ e.open
  BY <1>4, <1>6, <1>7
<1> HIDE DEF selected
<1>9. ASSUME selected = {} PROVE out.errors # {}
  <2>1. out.errors = found.errors \union {"no_harness"}
    BY <1>1, <1>9
  <2> QED  BY <2>1
<1> QED  BY <1>1, <1>2, <1>8, <1>9 DEF out

LEMMA InstructionsSelected ==
    ASSUME NEW in, NEW e \in ResolveInstructionEntries(in)
    PROVE  e \in in.registry /\ e.open
<1> DEFINE eligible == {x \in Open(OfKind(in.registry, "instruction")) :
                           in.agent \in x.agents /\ AppliesToRepo(x, in.repo)}
           latest(name) == HighestCompatible(Named(eligible, name), LatestRange)
<1>1. \A x \in eligible : x \in in.registry /\ x.open
  BY DEF Open, OfKind
<1>2. \A name : \A x \in latest(name) : x \in eligible
  BY HighestFits DEF Named
<1>3. \E name : e \in latest(name)
  BY DEF ResolveInstructionEntries
<1> HIDE DEF eligible, latest
<1> QED  BY <1>1, <1>2, <1>3

\* What everything selected for a task needs, resolved at once.
LEMMA RootsSettle ==
    ASSUME NEW in, IsFiniteSet(in.registry), RegistryOK(in.registry),
           NEW roots, \A e \in roots : e \in in.registry /\ e.open
    PROVE  LET below == Merge({ResolveEntryDependencies(in)[{}][e] : e \in roots}) IN
           /\ \A d \in below.selected : d \in in.registry /\ d.open
           /\ (below.errors = {}) => Provided(roots \cup below.selected, below.selected)
<1> DEFINE Top(e) == ResolveEntryDependencies(in)[{}][e]
           results == {Top(e) : e \in roots}
           below == Merge(results)
<1>1. \A e \in roots : Settles(in, e, Top(e))
  BY AllSettle
<1>2. /\ \A x : x \in below.selected <=> \E r \in results : x \in r.selected
      /\ below.errors = {} <=> \A r \in results : r.errors = {}
  BY Merged
<1> HIDE DEF below, Top
<1>3. /\ \A x : x \in below.selected <=> \E e \in roots : x \in Top(e).selected
      /\ below.errors = {} => \A e \in roots : Top(e).errors = {}
  BY <1>2
<1>4. \A d \in below.selected : d \in in.registry /\ d.open
  BY <1>1, <1>3 DEF Settles
<1>5. ASSUME below.errors = {}, NEW x \in roots \cup below.selected, NEW needs \in x.deps, Needed(needs)
      PROVE  \E d \in below.selected : Meets(d, needs)
  <2>1. PICK e \in roots : x = e \/ x \in Top(e).selected
    BY <1>3
  <2>2. Provided({e} \cup Top(e).selected, Top(e).selected)
    BY <1>1, <1>3, <1>5 DEF Settles
  <2>3. PICK d \in Top(e).selected : Meets(d, needs)
    BY <1>5, <2>1, <2>2 DEF Provided
  <2> QED  BY <1>3, <2>3
<1>6. (below.errors = {}) => Provided(roots \cup below.selected, below.selected)
  BY <1>5 DEF Provided
<1> QED  BY <1>4, <1>6 DEF below, Top

(* Whatever the registry holds and the task asks for, what the task gets   *)
(* passes the gates of the registry, and a resolution that reports no      *)
(* error (resolveRegistryContextForTask) is complete: cyclic and missing   *)
(* dependencies are never dropped silently.                                *)
THEOREM ResolutionAlwaysComplete == InputOK => ResolutionComplete
<1> DEFINE in == input.task
           skills == ResolveSkillEntries(in)
           harness == ResolveHarnessEntry(in)
           instructions == ResolveInstructionEntries(in)
           roots == skills.selected \cup harness.selected \cup instructions
           below == Merge({ResolveEntryDependencies(in)[{}][e] : e \in roots})
           out == ResolveRegistryContextForTask(in)
           all == out.skills \cup out.harness \cup out.instructions
<1> SUFFICES ASSUME InputOK, input.part = "resolve"
             PROVE  /\ \A e \in all : e.open
                    /\ (out.errors = {}) =>
                         /\ out.harness # {} /\ out.skills # {}
                         /\ \A e \in all : \A dep \in e.deps :
                              Needed(dep) => \E d \in all : Meets(d, dep)
  BY DEF ResolutionComplete, Needed, Meets, InRange
<1>1. IsFiniteSet(in.registry) /\ RegistryOK(in.registry)
  BY DEF InputOK, ResolveInput, RegistryOK
<1>2. /\ out.skills = skills.selected \cup OfKind(below.selected, "skill")
      /\ out.harness = harness.selected
      /\ out.instructions = instructions \cup OfKind(below.selected, "instruction")
      /\ out.errors = skills.errors \cup harness.errors \cup below.errors
  BY DEF ResolveRegistryContextForTask, WithDependencies
<1>3. /\ \A e \in skills.selected : e \in in.registry /\ e.open
      /\ (skills.errors = {}) => skills.selected # {}
  BY SkillsSelected
<1>4. /\ \A e \in harness.selected : e \in in.registry /\ e.open
      /\ (harness.errors = {}) => harness.selected # {}
  BY HarnessSelected
<1>5. \A e \in instructions : e \in in.registry /\ e.open
  BY InstructionsSelected
<1> HIDE DEF in, skills, harness, instructions, out
<1>6. /\ \A d \in below.selected : d \in in.registry /\ d.open
      /\ (below.errors = {}) => Provided(roots \cup below.selected, below.selected)
  BY <1>1, <1>3, <1>4, <1>5, RootsSettle
<1> HIDE DEF below
<1>7. \A e \in all : e \in roots \cup below.selected
  BY <1>2 DEF OfKind
<1>8. \A e \in all : e.open
  BY <1>3, <1>4, <1>5, <1>6, <1>7
<1>9. ASSUME out.errors = {} PROVE skills.errors = {} /\ harness.errors = {} /\ below.errors = {}
  BY <1>2, <1>9
<1>10. ASSUME out.errors = {} PROVE out.harness # {} /\ out.skills # {}
  BY <1>2, <1>3, <1>4, <1>9, <1>10
<1>11. ASSUME out.errors = {}, NEW e \in all, NEW dep \in e.deps, Needed(dep)
       PROVE  \E d \in all : Meets(d, dep)
  <2>1. PICK d \in below.selected : Meets(d, dep)
    BY <1>6, <1>7, <1>9, <1>11 DEF Provided
  <2>2. d.kind = dep.kind /\ dep.kind \in RegistryKinds \ {"harness"}
    BY <1>1, <1>3, <1>4, <1>5, <1>6, <1>7, <1>11, <2>1 DEF Meets, Needed, RegistryOK
  <2>3. d \in OfKind(below.selected, "skill") \cup OfKind(below.selected, "instruction")
    BY <2>2 DEF RegistryKinds, OfKind
  <2>4. d \in all
    BY <1>2, <2>3
  <2> QED  BY <2>1, <2>4
<1> QED  BY <1>8, <1>10, <1>11

=============================================================================
