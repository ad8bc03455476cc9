-------------------------- MODULE SecurityControls --------------------------
(***************************************************************************)
(* SecurityControlService: references to secrets, the leases given on      *)
(* them, and sandbox sessions. A credential is resolved when its reference *)
(* is active and valid, the actor may resolve it, four policies agree and  *)
(* the environment provides it; only then a lease is issued.               *)
(*                                                                         *)
(* A reference is [provider, kind, key, status, raw], raw telling that its *)
(* metadata holds what looks like a secret. A request for a credential is  *)
(* [ref, purpose, actor, providerKind, claims], the last two being what    *)
(* the caller reports in its policy context. Leases carry an expiry that   *)
(* no operation reads: it is left out, with audit events, texts and the    *)
(* log of decisions. A resolution that fails changes nothing else.         *)
(***************************************************************************)
EXTENDS Authorization, SequencesExt, FiniteSets

CONSTANTS
    SecretEnvs,          \* environments: [enabled, allowed keys, keys with a value]
    NewRefs,             \* references by id, that may be created
    CredentialRequests,  \* what may be asked for
    MaxOps               \* requests in all

Ref(provider, kind, key, status) ==
    [provider |-> provider, kind |-> kind, key |-> key, status |-> status, raw |-> FALSE]

SeedRefs == [mock_provider_metadata   |-> Ref("mock", "mock_metadata", "", "active"),
             vault_future_placeholder |-> Ref("vault_future", "provider_api_key", "", "disabled")]

Profile(kind, status) ==
    [sandboxKind |-> kind, profileStatus |-> status, networkAllowed |-> FALSE,
     secretsAllowed |-> FALSE, remoteGitAllowed |-> FALSE]

\* One profile stands for the three that are announced for the future.
SeedProfiles == [default_deny       |-> Profile("none", "active"),
                 local_temp_fixture |-> Profile("local_temp_workspace", "active"),
                 container_future   |-> Profile("container_future", "disabled")]

MissingProfile ==
    [sandboxKind |-> "unknown", profileStatus |-> "missing", networkAllowed |-> TRUE,
     secretsAllowed |-> TRUE, remoteGitAllowed |-> TRUE]

RefStatuses == {"active", "disabled", "revoked"}

VARIABLES
    security,    \* [env, refs, leases, sessions]
    ops          \* requests so far

SecurityInit ==
    \E env \in SecretEnvs :
        /\ security = [env |-> env, refs |-> SeedRefs, leases |-> <<>>, sessions |-> <<>>]
        /\ ops = 0

Operates == ops < MaxOps /\ ops' = ops + 1

-----------------------------------------------------------------------------
(* References.                                                             *)

ValidateSecretRef(ref) == (ref.provider = "env" => ref.key # "") /\ ~ref.raw

CreateSecretRef(id) ==
    /\ Operates /\ id \notin DOMAIN security.refs
    /\ ValidateSecretRef(NewRefs[id])
    /\ security' = [security EXCEPT !.refs = (id :> NewRefs[id]) @@ @]

UpdateSecretRefStatus(id, status) ==
    /\ Operates /\ id \in DOMAIN security.refs
    /\ security' = [security EXCEPT !.refs[id].status = status]

-----------------------------------------------------------------------------
(* Leases on request: they carry no secret.                                *)

EvaluatePolicy(action, kind, env) ==
    Allowed([Request(action, kind) EXCEPT !.roles = {"system"}, !.env = env])

\* The request reports what exists, and not whether the reference is active.
RequestLeaseAllowed ==
    [exists \in BOOLEAN |->
        EvaluatePolicy("secret.lease.request", "secret_lease",
                       [secretRefExists |-> exists, scopeExists |-> TRUE, requiresApproval |-> TRUE])]

RevokeLeaseAllowed == EvaluatePolicy("secret.lease.revoke", "secret_lease", <<>>)

Lease(id, actor, status) == [ref |-> id, actor |-> actor, status |-> status]

RequestLease(id, actor) ==
    LET exists == id \in DOMAIN security.refs
        status == IF RequestLeaseAllowed[exists] THEN "issued" ELSE "denied"
    IN  /\ Operates
        /\ security' = [security EXCEPT !.leases = Append(@, Lease(id, actor, status))]

RevokeLease(n) ==
    /\ Operates /\ RevokeLeaseAllowed
    /\ security' = [security EXCEPT !.leases[n].status = "revoked"]

-----------------------------------------------------------------------------
(* Credentials.                                                            *)

\* Facts whose names sound like secrets are blotted out of what the caller
\* claims, and then match no rule.
SanitizeMetadata(claims) ==
    LET kept == DOMAIN claims \ {"credentialsConfigured", "secretRefActive", "envSecretProviderEnabled",
                                 "credentialCacheAccessAllowed", "credentialMaterialStored"}
    IN  [k \in kept |-> claims[k]]

\* What the service knows of the reference and of the provider of secrets.
CredentialFacts(ref) ==
    [credentialsConfigured |-> ref.status = "active" /\ ref.key # "",
     secretRefActive |-> ref.status = "active", envSecretProviderEnabled |-> security.env.enabled,
     credentialCacheAccessAllowed |-> FALSE, credentialMaterialStored |-> FALSE]

\* MUTANT: the caller's claims replace the facts.
CredentialEnvironmentAsClaimed(q, ref) ==
    Together(q.claims, CredentialFacts(ref))

\* The facts replace what the caller claims.
CredentialPolicyEnvironment(q, ref) ==
    Together(CredentialFacts(ref), SanitizeMetadata(q.claims))

ProviderKindForCredentialRequest(q) ==
    IF q.providerKind # "" THEN q.providerKind
    ELSE CASE q.purpose \in {"github_api_call", "github_webhook_verification"} -> "github"
           [] q.purpose = "llm_api_call" -> "openai_compatible"
           [] OTHER -> "provider"

CredentialPolicyActionForPurpose(q) ==
    CASE q.purpose \in {"github_api_call", "github_webhook_verification"} -> {"git.credential.resolve"}
      [] q.purpose = "llm_api_call" -> {"llm.credential.resolve"}
      [] OTHER -> {}

CredentialRequest(action, kind, q, ref) ==
    [Request(action, kind) EXCEPT
        !.roles = ResolveAuthContext(q.actor).roles, !.provider = ProviderKindForCredentialRequest(q),
        !.env = CredentialPolicyEnvironment(q, ref)]

\* MUTANT: whoever asks, the policies alone decide.
CredentialAuthorizedAnyone(q, ref) == TRUE

CredentialAuthorized(q, ref) ==
    Check(q.actor, CredentialRequest("provider.credential.resolve", "provider_credential", q, ref),
          q.ref, NoScope)

CredentialPolicies(q, ref) ==
    /\ \A action \in CredentialPolicyActionForPurpose(q) \cup {"provider.credential.resolve"} :
          Allowed(CredentialRequest(action, "provider_credential", q, ref))
    /\ Allowed(CredentialRequest("secret.lease.request", "secret_lease", q, ref))
    /\ Allowed(CredentialRequest("secret.lease.issue", "secret_lease", q, ref))

\* An empty allowlist admits every key.
EnvSecretProviderResolves(ref) ==
    LET env == security.env
    IN  /\ env.enabled /\ ref.provider = "env" /\ ref.key # ""
        /\ (env.allowed = {} \/ ref.key \in env.allowed)
        /\ ref.key \in env.values

\* The lease names the actor the request resolved to: no actor means the admin.
ResolvedActor(q) == IF q.actor = "" THEN "mock_admin" ELSE q.actor

ResolveCredential(q) ==
    /\ Operates
    /\ q.ref \in DOMAIN security.refs
    /\ LET ref == security.refs[q.ref]
       IN  /\ ref.status = "active" /\ ValidateSecretRef(ref)
           /\ CredentialAuthorized(q, ref)
           /\ CredentialPolicies(q, ref)
           /\ EnvSecretProviderResolves(ref)
    /\ security' = [security EXCEPT !.leases = Append(@, Lease(q.ref, ResolvedActor(q), "issued"))]

-----------------------------------------------------------------------------
(* Sandbox sessions.                                                       *)

SandboxAllowed ==
    [id \in DOMAIN SeedProfiles \cup {"unknown"} |->
        LET profile == IF id \in DOMAIN SeedProfiles THEN SeedProfiles[id] ELSE MissingProfile
        IN  /\ EvaluatePolicy("sandbox.profile.use", "sandbox_profile", profile)
            /\ EvaluatePolicy("sandbox.session.create", "sandbox_session", profile)
            /\ profile.profileStatus = "active"]

\* The service with a new session on a profile.
WithSession(s, id) == [s EXCEPT !.sessions = Append(@, [profile |-> id, status |-> "active"])]

CompleteSandboxSession(s, n) == [s EXCEPT !.sessions[n].status = "completed"]

\* POST /security/sandbox/sessions. No route ends a session.
PostSession(id) ==
    /\ Operates /\ SandboxAllowed[id]
    /\ security' = WithSession(security, id)

SecurityNext ==
    \/ \E id \in DOMAIN NewRefs : CreateSecretRef(id)
    \/ \E id \in DOMAIN security.refs, status \in RefStatuses : UpdateSecretRefStatus(id, status)
    \/ \E q \in CredentialRequests : RequestLease(q.ref, q.actor)
    \/ \E n \in DOMAIN security.leases : RevokeLease(n)
    \/ \E q \in CredentialRequests : ResolveCredential(q)
    \/ \E id \in DOMAIN SeedProfiles \cup {"unknown"} : PostSession(id)

-----------------------------------------------------------------------------
\* The n-th lease, if a step issues it: the last of all, a first issue, with
\* its reference and the environment as they are in that step.
LeaseGated(n) ==
    LET old   == IF n \in DOMAIN security.leases THEN security.leases[n].status ELSE "none"
        lease == security'.leases[n]
        env   == security.env
        ref   == security.refs[lease.ref]
    IN  (lease.status = "issued" /\ old # "issued") =>
           /\ old = "none" /\ n = Len(security.leases) + 1
           /\ lease.ref \in DOMAIN security.refs
           /\ ref.status = "active" /\ ref.provider = "env" /\ env.enabled
           /\ ref.key \in env.values /\ (env.allowed = {} \/ ref.key \in env.allowed)
           /\ lease.actor \in {"mock_admin", "user_security_admin"}

(* Leases are issued one at a time, to an administrator, on a reference    *)
(* that is active at that moment and whose key the configured environment  *)
(* admits and provides, whatever facts the caller reports; a lease that    *)
(* was issued can only be revoked, and never comes back                    *)
(* (resolveCredentialInternal, requestLease and revokeLease).              *)
CredentialsGated == [][\A n \in DOMAIN security'.leases : LeaseGated(n)]_security

\* The policies see the reference and the environment as they are: no request,
\* whatever facts its caller claims, gets their consent to a credential of a
\* reference that is not active or has no key, or while the provider of secrets
\* is off (credentialPolicyEnvironment).
ClaimsOpenNothing ==
    \A q \in CredentialRequests :
        LET ref    == security.refs[q.ref]
            closed == ref.status # "active" \/ ref.key = "" \/ ~security.env.enabled
        IN  (q.ref \in DOMAIN security.refs /\ closed) => ~CredentialPolicies(q, ref)
=============================================================================
