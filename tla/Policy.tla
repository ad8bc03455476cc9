------------------------------- MODULE Policy -------------------------------
(***************************************************************************)
(* StaticPolicyEngine and its default rules. Every gateway asks it before  *)
(* it acts: the enabled rules for the action and kind of resource whose    *)
(* conditions match the request are ordered by priority, the first one     *)
(* decides, and a request that no rule matches is denied.                  *)
(*                                                                         *)
(* A request is [action, kind, roles, provider, runner, status, words,     *)
(* env, meta, risk]. words are the words of rules that the command         *)
(* contains; env and meta are functions from the facts the caller reports  *)
(* to their values, and a fact that is not reported is not in the domain.  *)
(***************************************************************************)
EXTENDS Integers, Sequences, TLC

Yes(keys) == [k \in keys |-> TRUE]
No(keys)  == [k \in keys |-> FALSE]

Facts(yes, no) == [k \in yes \cup no |-> k \in yes]

\* The facts of f, and those of g that f does not report.
Together(f, g) == [k \in DOMAIN f \cup DOMAIN g |-> IF k \in DOMAIN f THEN f[k] ELSE g[k]]

Always == <<>>

Rule(effect, action, kind, priority, conditions) ==
    [effect |-> effect, action |-> action, kind |-> kind,
     priority |-> priority, conditions |-> conditions]

NetworkWords   == {"curl", "wget", "fetch"}
RemoteGitWords == {"git fetch", "git push", "git merge", "git rebase"}

Readers   == {"viewer", "developer", "reviewer", "security_admin", "platform_admin",
              "system_admin", "system"}
ToolUsers == {"developer", "service_account_runner", "platform_admin", "system_admin", "system"}

RemoteLlmGates == Yes({"remoteLlmEnabled", "remoteCompletionEnabled", "baseUrlConfigured",
                       "credentialsConfigured", "modelAllowlisted", "budgetAllowed"})
NoCacheAccess  == {"credentialCacheAccessAllowed", "credentialMaterialStored"}
EnvSecretGates == Facts({"secretRefActive", "envSecretProviderEnabled"}, NoCacheAccess)
EnvCredentials == Facts({"secretRefActive", "envSecretProviderEnabled", "credentialsConfigured"},
                        NoCacheAccess)
LowRiskTool    == Together([serverKind |-> "mock", serverStatus |-> "active",
                            toolStatus |-> "active", riskLevel |-> "low"],
                           Facts({"readOnly"},
                                 {"requiresSecrets", "networkRequired", "writeOperation",
                                  "deployOperation", "realTransportEnabled", "localExecutionRequired"}))
Sandbox(kind)  == Together([sandboxKind |-> kind, profileStatus |-> "active"],
                           No({"networkAllowed", "secretsAllowed", "remoteGitAllowed"}))

-----------------------------------------------------------------------------
(* The rules of the table; priorities and ids decide, not their order.     *)

GitRemoteRules == {
        Rule("deny", "git.remote_operation", "git_operation", 1000,
            [env |-> No({"remoteGitEnabled"})]),
        Rule("deny", "git.remote_operation", "git_operation", 950,
            [env |-> No({"remoteOperationAllowed"})]),
        Rule("allow", "git.remote_operation", "git_operation", 300,
            [providers |-> {"github"}, env |-> Yes({"remoteGitEnabled",
             "remoteOperationAllowed", "repoAllowlisted", "credentialsConfigured"})])}

WebhookRules == {
        Rule("deny", "git.webhook.receive", "git_operation", 1000,
            [env |-> No({"githubWebhooksEnabled"})]),
        Rule("deny", "git.webhook.receive", "git_operation", 950,
            [env |-> No({"signatureVerified"})]),
        Rule("allow", "git.webhook.receive", "git_operation", 300,
            [providers |-> {"github"}, env |-> Yes({"githubWebhooksEnabled",
             "signatureVerified", "repoAllowlisted", "secretConfigured"})]),
        Rule("deny", "git.webhook.verify", "git_operation", 1000,
            [env |-> No({"githubWebhooksEnabled"})]),
        Rule("deny", "git.webhook.verify", "git_operation", 950,
            [env |-> No({"signatureVerified"})]),
        Rule("allow", "git.webhook.verify", "git_operation", 300,
            [providers |-> {"github"}, env |-> Yes({"githubWebhooksEnabled",
             "signatureVerified", "secretConfigured"})]),
        Rule("deny", "git.webhook.process", "git_operation", 1000,
            [env |-> No({"githubWebhooksEnabled"})]),
        Rule("deny", "git.webhook.process", "git_operation", 950,
            [env |-> No({"signatureVerified"})]),
        Rule("allow", "git.webhook.process", "git_operation", 300,
            [providers |-> {"github"}, env |-> Yes({"githubWebhooksEnabled",
             "signatureVerified", "repoAllowlisted", "secretConfigured"})])}

GitSyncRules == {
        Rule("allow", "git.pull_request.sync", "pull_request", 250,
            [providers |-> {"github"}, env |-> Facts({"repoAllowlisted"},
             {"destructiveOperation"})]),
        Rule("allow", "git.branch.sync", "branch", 250,
            [providers |-> {"github"}, env |-> Facts({"repoAllowlisted"},
             {"destructiveOperation"})]),
        Rule("deny", "git.changed_files.read", "git_operation", 1000,
            [env |-> No({"remoteGitEnabled"})]),
        Rule("allow", "git.changed_files.read", "git_operation", 250,
            [providers |-> {"github"}, env |-> Facts({"remoteGitEnabled",
             "remoteOperationAllowed", "repoAllowlisted", "credentialsConfigured"},
             {"destructiveOperation"})]),
        Rule("deny", "git.credential.resolve", "provider_credential", 1000,
            [env |-> No({"credentialsConfigured"})]),
        Rule("allow", "git.credential.resolve", "provider_credential", 300,
            [providers |-> {"github"}, env |-> EnvCredentials]),
        Rule("deny", "git.merge", "git_operation", 1000, Always),
        Rule("deny", "git.rebase", "git_operation", 1000, Always),
        Rule("deny", "git.branch.delete", "branch", 1000, Always)}

GitCreateRules == {
        Rule("allow", "git.branch.create", "branch", 200, [providers |-> {"mock"}]),
        Rule("allow", "git.pull_request.create", "pull_request", 200, [providers |-> {"mock"}]),
        Rule("allow", "git.branch.create", "branch", 150,
            [providers |-> {"local"}, env |-> Yes({"localFixture", "readOnly"})]),
        Rule("allow", "git.branch.create", "branch", 250,
            [providers |-> {"github"}, env |-> Yes({"remoteGitEnabled",
             "remoteBranchCreateEnabled", "repoAllowlisted", "branchPrefixAllowed",
             "credentialsConfigured"})]),
        Rule("allow", "git.pull_request.create", "pull_request", 250,
            [providers |-> {"github"}, env |-> Yes({"remoteGitEnabled",
             "remotePullRequestCreateEnabled", "repoAllowlisted", "branchPrefixAllowed",
             "credentialsConfigured"})])}

LlmRules == {
        Rule("deny", "llm.remote_completion", "llm_provider", 1000,
            [env |-> No({"remoteLlmEnabled"})]),
        Rule("deny", "llm.remote_completion", "llm_provider", 950,
            [env |-> No({"remoteCompletionEnabled"})]),
        Rule("allow", "llm.remote_completion", "llm_provider", 250,
            [providers |-> {"openai_compatible"}, env |-> RemoteLlmGates]),
        Rule("deny", "llm.model.use", "llm_model", 900, [statuses |-> {"disabled", "deprecated"}]),
        Rule("allow", "llm.completion", "llm_provider", 200,
            [providers |-> {"mock"}, env |-> Yes({"budgetAllowed"})]),
        Rule("allow", "llm.completion", "llm_provider", 250,
            [providers |-> {"openai_compatible"}, env |-> RemoteLlmGates]),
        Rule("deny", "llm.credential.resolve", "provider_credential", 1000,
            [env |-> No({"credentialsConfigured"})]),
        Rule("allow", "llm.credential.resolve", "provider_credential", 300,
            [providers |-> {"openai_compatible"}, env |-> EnvCredentials]),
        Rule("allow", "llm.model.use", "llm_model", 100, [statuses |-> {"active"}])}

LlmRoutingRules == {
        Rule("allow", "llm.route.select", "llm_route", 220, [providers |-> {"mock"}]),
        Rule("allow", "llm.route.select", "llm_route", 240,
            [providers |-> {"openai_compatible"}, env |-> RemoteLlmGates]),
        Rule("deny", "llm.fallback", "llm_fallback_policy", 1000,
            [env |-> No({"fallbackEnabled"})]),
        Rule("allow", "llm.fallback", "llm_fallback_policy", 260,
            [env |-> Yes({"fallbackEnabled", "fallbackWithinLimit", "budgetAllowed"})])}

RunnerRules == {
        Rule("deny", "runner.command.execute", "command", 100, Always),
        Rule("deny", "runner.command.execute", "command", 950,
            [words |-> NetworkWords]),
        Rule("deny", "runner.command.execute", "command", 950,
            [words |-> RemoteGitWords]),
        Rule("allow", "runner.command.execute", "command", 200,
            [env |-> Yes({"localCommandExecutionEnabled", "harnessAllowed", "workspaceSafe"})]),
        Rule("allow", "runner.execute", "runner", 100, [runners |-> {"mock", "local"}])}

RegistryRules == {
        Rule("allow", "registry.create", "registry_item", 200,
            [roles |-> {"registry_editor", "registry_admin", "system"}]),
        Rule("allow", "registry.update", "registry_item", 200,
            [roles |-> {"registry_editor", "registry_admin", "registry_reviewer", "system"}]),
        Rule("allow", "registry.approve", "registry_item", 200,
            [roles |-> {"registry_reviewer", "registry_admin", "system"}]),
        Rule("allow", "registry.rollback", "registry_item", 200,
            [roles |-> {"registry_admin", "system"}])}

ImprovementRules == {
        Rule("deny", "improvement.apply", "draft_registry_change", 1000, Always),
        Rule("allow", "improvement.proposal.create", "improvement_proposal", 200,
            [roles |-> {"system", "registry_admin", "improvement_editor"}]),
        Rule("allow", "improvement.proposal.approve", "improvement_proposal", 200,
            [roles |-> {"system", "system_admin", "platform_admin", "reviewer",
             "registry_admin", "registry_reviewer", "improvement_reviewer"}]),
        Rule("allow", "improvement.draft_change.prepare", "draft_registry_change", 200,
            [roles |-> {"system", "registry_admin", "improvement_editor"}])}

ProviderRules == {
        Rule("deny", "provider.cloud_api.invoke", "llm_provider", 1000, Always),
        Rule("deny", "provider.credential.resolve", "provider_credential", 1000,
            [env |-> No({"credentialsConfigured"})]),
        Rule("allow", "provider.credential.resolve", "provider_credential", 300,
            [providers |-> {"github", "openai_compatible"}, env |-> EnvCredentials]),
        Rule("allow", "provider.credential.resolve", "provider_credential", 250,
            [providers |-> {"openai_compatible"}, env |-> Facts({"remoteLlmEnabled",
             "remoteCompletionEnabled", "credentialsConfigured"}, NoCacheAccess)]),
        Rule("deny", "provider.pty.invoke", "llm_provider", 1000, Always)}

CredentialCacheRules == {
        Rule("deny", "credential.cache.read", "provider_credential", 1000, Always),
        Rule("deny", "credential.cache.upload", "provider_credential", 1000, Always),
        Rule("deny", "local_cli.invoke", "local_cli", 1000, Always),
        Rule("deny", "local_cli.danger_full_access", "local_cli", 1000, Always),
        Rule("deny", "local_cli.shell_execution", "local_cli", 1000, Always),
        Rule("deny", "local_cli.file_write", "local_cli", 1000, Always),
        Rule("deny", "local_cli.network_access", "local_cli", 1000, Always)}

LocalAgentRules == {
        Rule("allow", "local_agent.register", "local_agent", 300,
            [roles |-> {"system", "mock_admin", "local_agent_admin"}]),
        Rule("allow", "local_agent.channel.create", "local_agent", 300,
            [env |-> Facts({"mockTransport"}, {"realTransport"})]),
        Rule("allow", "local_agent.handshake.verify", "local_agent", 300,
            [env |-> Facts({"mockTransport"}, {"realTransport"})]),
        Rule("allow", "local_agent.capability.advertise", "local_agent", 300,
            [env |-> Yes({"mockTransport"})]),
        Rule("allow", "local_agent.compatibility.check", "local_agent", 300,
            [env |-> Yes({"mockTransport"})]),
        Rule("allow", "local_agent.revoke", "local_agent", 300,
            [roles |-> {"system", "local_agent_admin"}]),
        Rule("allow", "local_agent.cancel", "local_agent", 300,
            [roles |-> {"system", "local_agent_admin"}]),
        Rule("allow", "local_agent.event.receive", "local_agent", 300,
            [env |-> Yes({"mockTransport"})]),
        Rule("allow", "local_agent.stream.receive", "local_agent", 300,
            [env |-> Yes({"mockTransport"})]),
        Rule("allow", "local_agent.session.expire", "local_agent", 300,
            [roles |-> {"system", "local_agent_admin"}]),
        Rule("allow", "local_agent.session.approve", "local_agent", 300,
            [roles |-> {"system", "local_agent_admin"}])}

ConsentRules == {
        Rule("allow", "local_agent.consent.request", "local_agent", 300, Always),
        Rule("allow", "local_agent.consent.approve", "local_agent", 300, Always),
        Rule("deny", "local_agent.invoke", "local_agent", 1000, [statuses |-> {"revoked"}]),
        Rule("deny", "local_agent.invoke", "local_agent", 1000,
            [statuses |-> {"disconnected", "unknown", "pending"}]),
        Rule("allow", "local_agent.invoke", "local_agent", 800,
            [env |-> Yes({"localAgentConnected", "mockTransport"}),
             meta |-> Together([consentLevel |-> "read_only"], Yes({"consentApproved"}))]),
        Rule("deny", "local_cli.template.use", "local_cli", 1000, [meta |-> No({"compatible"})]),
        Rule("allow", "local_cli.template.use", "local_cli", 500,
            [meta |-> Yes({"compatible", "consentApproved"})]),
        Rule("require_approval", "local_cli.template.use", "local_cli", 400, Always),
        Rule("require_approval", "local_agent.invoke", "local_agent", 700, Always)}

ProviderInvokeRules == {
        Rule("allow", "provider.local_cli.invoke", "llm_provider", 200,
            [providers |-> {"local_cli"}]),
        Rule("allow", "provider.invoke", "llm_provider", 200, [providers |-> {"mock"}]),
        Rule("allow", "provider.invoke", "llm_provider", 250,
            [providers |-> {"openai_compatible"}, env |-> RemoteLlmGates]),
        Rule("deny", "provider.invoke", "llm_provider", 900,
            [providers |-> {"openai_compatible"}, env |-> No({"modelAllowlisted"})])}

SecretRules == {
        Rule("allow", "secret.metadata.read", "secret_ref", 200,
            [env |-> No({"secretMaterialAvailable"})]),
        Rule("allow", "secret.lease.request", "secret_lease", 1100, [env |-> EnvSecretGates]),
        Rule("require_approval", "secret.lease.request", "secret_lease", 1000, Always),
        Rule("allow", "secret.lease.issue", "secret_lease", 1100, [env |-> EnvSecretGates]),
        Rule("require_approval", "secret.lease.issue", "secret_lease", 1000, Always),
        Rule("allow", "secret.lease.revoke", "secret_lease", 200,
            [roles |-> {"system", "security_admin"}]),
        Rule("deny", "runner.secret.inject", "runner", 1000, Always),
        Rule("deny", "network.egress", "network_egress_policy", 1000, Always),
        Rule("deny", "local_agent.secret.forward", "local_agent", 1000, Always),
        Rule("deny", "audit.secret.view", "secret_scope", 1000, Always)}

SandboxRules == {
        Rule("allow", "sandbox.profile.use", "sandbox_profile", 200, [env |-> Sandbox("none")]),
        Rule("allow", "sandbox.session.create", "sandbox_session", 200, [env |-> Sandbox("none")]),
        Rule("allow", "sandbox.profile.use", "sandbox_profile", 200,
            [env |-> Sandbox("local_temp_workspace")]),
        Rule("allow", "sandbox.session.create", "sandbox_session", 200,
            [env |-> Sandbox("local_temp_workspace")])}

McpRules == {
        Rule("allow", "mcp.server.list", "mcp_server", 200,
            [roles |-> Readers, env |-> No({"realTransportEnabled"})]),
        Rule("allow", "mcp.tool.list", "mcp_tool", 200,
            [roles |-> Readers, env |-> Together([serverKind |-> "mock", serverStatus |-> "active"],
             No({"realTransportEnabled"}))]),
        Rule("allow", "mcp.tool.invoke.low_risk", "mcp_tool", 200,
            [roles |-> ToolUsers, env |-> LowRiskTool]),
        Rule("allow", "mcp.tool.invoke", "mcp_tool", 200,
            [roles |-> ToolUsers, env |-> LowRiskTool]),
        Rule("deny", "mcp.tool.invoke.high_risk", "mcp_tool", 1000, Always),
        Rule("deny", "mcp.tool.invoke.critical", "mcp_tool", 1000, Always),
        Rule("deny", "mcp.tool.secret.resolve", "mcp_tool", 1000, Always),
        Rule("deny", "mcp.tool.network_access", "mcp_tool", 1000, Always),
        Rule("deny", "mcp.tool.write", "mcp_tool", 1000, Always)}

McpCallRules == {
        Rule("deny", "mcp.tool.deploy", "mcp_tool", 1000, Always),
        Rule("deny", "mcp.tool.call", "mcp_tool", 1000, Always),
        Rule("deny", "secret.read", "secret_scope", 1000, Always)}

PlatformRules == {
        Rule("allow", "dashboard.read", "dashboard", 200, [roles |-> Readers]),
        Rule("allow", "auth.read", "auth", 200, [roles |-> Readers]),
        Rule("allow", "auth.authorize.check", "auth", 200,
            [roles |-> {"security_admin", "platform_admin", "system_admin", "system"}]),
        Rule("deny", "auth.admin", "auth", 1000, Always),
        Rule("require_approval", "task.run", "task", 500, [risk |-> 80]),
        Rule("allow", "task.run", "task", 50, Always),
        Rule("allow", "task.create", "task", 50, Always)}

Rules ==
    GitRemoteRules \cup WebhookRules \cup GitSyncRules \cup GitCreateRules \cup LlmRules
    \cup LlmRoutingRules \cup RunnerRules \cup RegistryRules \cup ImprovementRules \cup ProviderRules
    \cup CredentialCacheRules \cup LocalAgentRules \cup ConsentRules \cup ProviderInvokeRules
    \cup SecretRules \cup SandboxRules \cup McpRules \cup McpCallRules \cup PlatformRules

-----------------------------------------------------------------------------
(* The engine.                                                             *)

\* MUTANT: a fact that was not reported matches what a rule expects.
MapMatchesLoosely(expected, actual) ==
    \A k \in DOMAIN expected \intersect DOMAIN actual : actual[k] = expected[k]

MapMatches(expected, actual) ==
    \A k \in DOMAIN expected : k \in DOMAIN actual /\ actual[k] = expected[k]

ConditionMatches(c, r) ==
    /\ ("roles" \in DOMAIN c)     => (c.roles \intersect r.roles # {})
    /\ ("providers" \in DOMAIN c) => (r.provider \in c.providers)
    /\ ("runners" \in DOMAIN c)   => (r.runner \in c.runners)
    /\ ("statuses" \in DOMAIN c)  => (r.status \in c.statuses)
    /\ ("words" \in DOMAIN c)     => (c.words \intersect r.words # {})
    /\ ("env" \in DOMAIN c)       => MapMatches(c.env, r.env)
    /\ ("meta" \in DOMAIN c)      => MapMatches(c.meta, r.meta)
    /\ ("risk" \in DOMAIN c)      => (r.risk >= c.risk)

\* The rules that match.
Candidates(r) ==
    {rule \in Rules : /\ rule.action = r.action
                      /\ rule.kind = r.kind
                      /\ ConditionMatches(rule.conditions, r)}

\* Those of the highest priority; the engine takes the first by id.
Deciding(r) ==
    LET rules == Candidates(r)
    IN  {a \in rules : \A b \in rules : b.priority <= a.priority}

Decision(r) ==
    LET rules == Deciding(r)
    IN  IF rules = {} THEN "deny" ELSE (CHOOSE a \in rules : TRUE).effect

Allowed(r) == Decision(r) = "allow"

\* A request without facts, to be refined with EXCEPT.
Request(action, kind) ==
    [action |-> action, kind |-> kind, roles |-> {}, provider |-> "", runner |-> "",
     status |-> "", words |-> {}, env |-> <<>>, meta |-> <<>>, risk |-> 0]

=============================================================================
