------------------------------ MODULE GitGates ------------------------------
(***************************************************************************)
(* What stands between a request and the git host: the configuration made  *)
(* from the environment, the gates and policies of GitIntegrationService,  *)
(* the guards of the providers behind it, and the verification of webhook  *)
(* signatures.                                                             *)
(*                                                                         *)
(* An environment is [kind, enableRemote, allowBranchCreate, allowPrCreate,*)
(* allowLocalBranch, tokenRef, token, resolver, repos, enableWebhooks,     *)
(* secretRef, secret, webhookRepos]: the provider asked for, the flags,    *)
(* whether each credential and its secret reference are set, what the      *)
(* credential resolver answers ("absent" when there is none), and the      *)
(* allowlists.                                                             *)
(***************************************************************************)
EXTENDS Policy

Remote == "github"

\* MUTANT: a reference that cannot be resolved falls back to the legacy variable.
ResolveWithFallback(ref, legacy, resolver) == (ref /\ resolver = "resolved") \/ legacy

\* A configured reference is never replaced by the legacy variable.
ResolveGitHubCredential(ref, legacy, resolver) ==
    IF ref THEN resolver = "resolved" ELSE legacy

CreateGitProviderFromEnv(e) ==
    [kind             |-> IF e.kind \in {"local", Remote} THEN e.kind ELSE "mock",
     remoteGit        |-> e.enableRemote,
     branchCreate     |-> e.allowBranchCreate,
     prCreate         |-> e.allowPrCreate,
     localBranch      |-> e.allowLocalBranch,
     githubConfigured |-> ResolveGitHubCredential(e.tokenRef, e.token, e.resolver),
     repos            |-> e.repos]

\* A client that reaches the host; otherwise every call of the provider fails.
HasClient(c) == c.kind = Remote /\ c.remoteGit /\ c.githubConfigured /\ c.repos # {}

-----------------------------------------------------------------------------
(* The service.                                                            *)

\* A request is [op, repo, prefixOk, localPath].
RemoteOperationAllowed(c, op) ==
    CASE op = "branch_create"       -> c.branchCreate
      [] op = "pull_request_create" -> c.prCreate
      [] op = "changed_files"       -> TRUE

ValidateGitHubGate(c, r) ==
    /\ c.remoteGit
    /\ RemoteOperationAllowed(c, r.op)
    /\ c.githubConfigured
    /\ r.repo \in c.repos
    /\ (r.op # "changed_files") => r.prefixOk

GitRequest(c, action, kind, env) ==
    [Request(action, kind) EXCEPT !.roles = {"system"}, !.provider = c.kind, !.env = env]

EvaluateRemotePolicy(c, r) ==
    \/ c.kind # Remote /\ ~c.remoteGit
    \/ Allowed(GitRequest(c, "git.remote_operation", "git_operation",
                  [remoteGitEnabled       |-> c.remoteGit,
                   remoteOperationAllowed |-> RemoteOperationAllowed(c, r.op),
                   repoAllowlisted        |-> r.repo \in c.repos,
                   credentialsConfigured  |-> c.githubConfigured]))

EvaluateCreatePolicy(c, r) ==
    LET facts == [localFixture                   |-> c.kind = "local" /\ r.localPath,
                  readOnly                       |-> c.kind = "local",
                  remoteGitEnabled               |-> c.remoteGit,
                  remoteBranchCreateEnabled      |-> c.branchCreate,
                  remotePullRequestCreateEnabled |-> c.prCreate,
                  repoAllowlisted                |-> r.repo \in c.repos,
                  branchPrefixAllowed            |-> r.prefixOk,
                  credentialsConfigured          |-> c.githubConfigured]
    IN  CASE r.op = "branch_create" ->
               Allowed(GitRequest(c, "git.branch.create", "branch", facts))
          [] r.op = "pull_request_create" ->
               Allowed(GitRequest(c, "git.pull_request.create", "pull_request", facts))

\* What createBranch and createPullRequest check before they call the provider.
CreateAllowed(c, r) ==
    /\ (c.kind = Remote) => ValidateGitHubGate(c, r)
    /\ EvaluateRemotePolicy(c, r)
    /\ EvaluateCreatePolicy(c, r)

\* What getPullRequestChangedFiles checks; only the remote provider has it.
ChangedFilesAllowed(c, r) ==
    /\ c.kind = Remote
    /\ ValidateGitHubGate(c, r)
    /\ EvaluateRemotePolicy(c, r)

\* What refreshChangedFiles asks on top of it, with the webhook allowlist.
RefreshPolicy(c, webhookAllowed) ==
    Allowed([GitRequest(c, "git.changed_files.read", "git_operation",
                [remoteGitEnabled |-> c.remoteGit, remoteOperationAllowed |-> TRUE,
                 repoAllowlisted |-> webhookAllowed, credentialsConfigured |-> c.githubConfigured,
                 destructiveOperation |-> FALSE]) EXCEPT !.provider = Remote])

-----------------------------------------------------------------------------
(* The providers' own guards.                                              *)

ValidateRead(c, repo) == c.remoteGit /\ c.githubConfigured /\ repo \in c.repos

ValidateWrite(c, repo, prefixOk) ==
    c.remoteGit /\ c.branchCreate /\ c.githubConfigured /\ repo \in c.repos /\ prefixOk

ValidatePullRequest(c, repo, prefixOk) ==
    c.remoteGit /\ c.prCreate /\ c.githubConfigured /\ repo \in c.repos /\ prefixOk

\* The mock provider takes every request; the local one keeps pull requests in memory.
ProviderAccepts(c, r) ==
    IF c.kind = "mock" THEN TRUE
    ELSE IF c.kind = "local" THEN (r.op = "branch_create") => (c.localBranch /\ r.localPath)
    ELSE CASE r.op = "branch_create"       -> ValidateWrite(c, r.repo, r.prefixOk)
           [] r.op = "pull_request_create" -> ValidatePullRequest(c, r.repo, r.prefixOk)
           [] OTHER                        -> ValidateRead(c, r.repo)

-----------------------------------------------------------------------------
(* Webhooks.                                                               *)

CreateGitHubWebhookRuntimeFromEnv(e) ==
    [enabled |-> e.enableWebhooks,
     secret  |-> ResolveGitHubCredential(e.secretRef, e.secret, e.resolver),
     repos   |-> e.webhookRepos]

\* MUTANT: a delivery without a signature header passes.
VerifyUnsigned(w, body, signature) ==
    w.enabled /\ w.secret /\ (signature = <<>> \/ signature = <<body>>)

\* A signature is what the host computed over a body, <<>> when the header is absent.
Verify(w, body, signature) == w.enabled /\ w.secret /\ signature = <<body>>

\* An empty allowlist admits every repository.
WebhookRepoAllowed(w, repo) == w.repos = {} \/ repo \in w.repos

WebhookPolicy(w, action, verified, repo) ==
    Allowed([Request(action, "git_operation") EXCEPT
        !.roles = {"system"}, !.provider = Remote,
        !.env = [githubWebhooksEnabled |-> w.enabled, signatureVerified |-> verified,
                 repoAllowlisted |-> WebhookRepoAllowed(w, repo), secretConfigured |-> w.secret]])

SyncPolicy(w, action, kind, repo) ==
    Allowed([Request(action, kind) EXCEPT
        !.roles = {"system"}, !.provider = Remote,
        !.env = [repoAllowlisted |-> WebhookRepoAllowed(w, repo), destructiveOperation |-> FALSE]])

=============================================================================
