----------------------------- MODULE LlmGateway -----------------------------
(***************************************************************************)
(* LLMGatewayService: a completion request is routed to the first enabled  *)
(* route that matches it, if the virtual key, the permissions and the      *)
(* policies allow; the provider is called; when it fails, one more route   *)
(* may be tried. Routes, models and keys can be changed by other requests  *)
(* while a provider is being waited for. One usage record is kept of every *)
(* completion that the service answers.                                    *)
(*                                                                         *)
(* A route is [kind, provider, model, priority, enabled, classes, caps,    *)
(* secretRef, fallbackAllowed], a model [kind, status, cost], a key        *)
(* [status, kinds, models, limit]. Costs are abstract units. A request is  *)
(* [kind, provider, model, key, class, limit, maxFallback, simulate,       *)
(* actor]; "" and NoLimit stand for what it leaves open. allowedModels is  *)
(* the set of models the allowlist admits under any of their names. Audit  *)
(* events and texts are left out.                                          *)
(***************************************************************************)
EXTENDS Authorization, SequencesExt

CONSTANTS
    Envs,            \* environments the service may be started with
    NewRoutes,       \* routes by id, that may be created
    NewModels,
    NewKeys,
    Requests,        \* what may be requested
    Patchable,       \* routes and models whose status may be changed
    RouteRank,       \* the order of the route ids as strings
    MaxCalls,        \* requests
    MaxChanges       \* changes of routes, models, keys and fallback policies

NoLimit    == -1
DefaultKey == "vmk_system_mock"

-----------------------------------------------------------------------------
(* The catalogs at the start. One skeleton stands for the six, one local   *)
(* command-line tool for the three.                                        *)

MockRoute(model, priority, caps, classes) ==
    [kind |-> "mock", provider |-> "mock", model |-> model, priority |-> priority, enabled |-> TRUE,
     caps |-> {"completion"} \cup caps, classes |-> classes, secretRef |-> FALSE, fallbackAllowed |-> TRUE]

SkeletonRoute(kind, provider, model, priority) ==
    [kind |-> kind, provider |-> provider, model |-> model, priority |-> priority, enabled |-> TRUE,
     caps |-> {"completion"}, classes |-> {"code_review", "general", "unknown"},
     secretRef |-> TRUE, fallbackAllowed |-> FALSE]

SeedLlmRoutes == [
    general   |-> MockRoute("mock_model", 100, {"general"}, {"general", "unknown"}),
    coder     |-> MockRoute("mock_coder", 110, {"code_review"}, {"code_review", "general", "unknown"}),
    conflict  |-> MockRoute("mock_conflict", 105, {"conflict_resolution", "code_review"}, {"conflict_resolution"}),
    openai    |-> [SkeletonRoute("openai_compatible", "openai_api_key", "openai_default", 300)
                      EXCEPT !.caps = {"completion", "code_review"}],
    anthropic |-> SkeletonRoute("anthropic_compatible", "anthropic_api_key", "anthropic_skeleton", 500),
    claude    |-> [SkeletonRoute("local_cli", "claude_code_local", "claude_local", 900)
                      EXCEPT !.caps = {"code_review"}, !.secretRef = FALSE]]

SeedLlmModels ==
    LET model(kind, status, cost) == [kind |-> kind, status |-> status, cost |-> cost]
    IN  [mock_model |-> model("mock", "active", 1), mock_coder |-> model("mock", "active", 1),
         mock_conflict |-> model("mock", "active", 1),
         openai_default |-> model("openai_compatible", "active", 3),
         anthropic_skeleton |-> model("anthropic_compatible", "disabled", 4),
         claude_local |-> model("local_cli", "active", 0)]

DefaultVirtualModelKey ==
    [status |-> "active", kinds |-> {"mock"},
     models |-> {"mock_model", "mock_coder", "mock_conflict"}, limit |-> 100]

(* A created route has some number as its priority, one of which is the    *)
(* least; the ids have an order; the limit that is configured is parsed as *)
(* a natural number, the one that is requested may be any number.          *)
ASSUME LlmAssumption ==
    /\ \A id \in DOMAIN NewRoutes :
         /\ {"priority", "enabled"} \subseteq DOMAIN NewRoutes[id]
         /\ NewRoutes[id].priority \in Int
    /\ \E least \in {0} \cup {NewRoutes[id].priority : id \in DOMAIN NewRoutes} :
         \A id \in DOMAIN NewRoutes : least <= NewRoutes[id].priority
    /\ \A id \in DOMAIN SeedLlmRoutes \cup DOMAIN NewRoutes : RouteRank[id] \in Nat
    /\ \A e \in Envs : e.maxFallback \in Nat
    /\ \A r \in Requests : {"kind", "key", "limit", "actor", "maxFallback"} \subseteq DOMAIN r /\ r.maxFallback \in Int

-----------------------------------------------------------------------------
(* The configuration.                                                      *)

ResolveLlmCredential(env) ==
    IF env.apiKeyRef THEN env.resolver
    ELSE IF env.apiKey THEN "resolved" ELSE "missing"

CreateLlmProviderFromEnv(env) ==
    LET credential == ResolveLlmCredential(env)
    IN  [provider |-> env.provider,
         mode |-> IF env.mode # "" THEN env.mode
                  ELSE IF env.provider = "openai_compatible" THEN "single_provider" ELSE "mock_only",
         fallbackEnabled |-> env.fallback, maxFallback |-> env.maxFallback,
         remote |-> env.remote, completion |-> env.completion, baseUrl |-> env.baseUrl,
         configured |-> credential = "resolved", credential |-> credential,
         deniedModels |-> env.deniedModels, allowedModels |-> env.allowedModels,
         allowedKinds |-> env.allowedKinds, allowedIds |-> env.allowedIds, deniedIds |-> env.deniedIds]

Configs == {CreateLlmProviderFromEnv(e) : e \in Envs}

Kinds == {"mock", "openai_compatible", "anthropic_compatible", "local_cli"}

PolicyEnvironmentFor(c, allowlisted) ==
    [budgetAllowed |-> TRUE, remoteLlmEnabled |-> c.remote, remoteCompletionEnabled |-> c.completion,
     baseUrlConfigured |-> c.baseUrl, credentialsConfigured |-> c.configured,
     modelAllowlisted |-> allowlisted, credentialCacheAccessAllowed |-> FALSE,
     credentialMaterialStored |-> FALSE]

LlmRequest(action, resource, kind, c, allowlisted) ==
    [Request(action, resource) EXCEPT
        !.roles = {"system"}, !.provider = kind, !.status = "active",
        !.env = PolicyEnvironmentFor(c, allowlisted)]

(* The verdicts, which depend on the configuration and the kinds alone.    *)
RouteAuthorized ==
    [c \in Configs |-> [kind \in Kinds |-> [allowlisted \in BOOLEAN |->
        [actor \in {r.actor : r \in Requests} \cup {""} |->
            Check(actor, LlmRequest("llm.route.select", "llm_route", kind, c, allowlisted), "", NoScope)]]]]

RouteSelectPolicy ==
    [c \in Configs |-> [kind \in Kinds |-> [allowlisted \in BOOLEAN |->
        Allowed(LlmRequest("llm.route.select", "llm_route", kind, c, allowlisted))]]]

CompletionPolicy ==
    [c \in Configs |-> [kind \in Kinds |-> [allowlisted \in BOOLEAN |->
        /\ Allowed(LlmRequest("llm.model.use", "llm_model", kind, c, allowlisted))
        /\ (kind # "mock") =>
             /\ Allowed(LlmRequest("provider.credential.resolve", "provider_credential", kind, c, allowlisted))
             /\ Allowed(LlmRequest("provider.invoke", "llm_provider", kind, c, allowlisted))
             /\ Allowed(LlmRequest("llm.remote_completion", "llm_provider", kind, c, allowlisted))
        /\ Allowed(LlmRequest("llm.completion", "llm_provider", kind, c, allowlisted))]]]

FallbackPolicy ==
    [c \in Configs |->
        LET r == LlmRequest("llm.fallback", "llm_fallback_policy", "", c, TRUE)
        IN  Allowed([r EXCEPT !.env = [fallbackEnabled |-> c.fallbackEnabled,
                                       fallbackWithinLimit |-> TRUE] @@ @])]

-----------------------------------------------------------------------------
VARIABLES
    config,          \* the configuration, fixed at the start
    catalog,         \* [routes, models, keys, fallbackPolicies]
    calls,           \* the requests, in the order they came
    usage,           \* usage records, in order
    changes

gatewayVars == <<config, catalog, calls, usage, changes>>

Init ==
    /\ config \in Configs
    /\ catalog = [routes |-> SeedLlmRoutes, models |-> SeedLlmModels, keys |-> [id \in {DefaultKey} |-> DefaultVirtualModelKey],
                  fallbackPolicies |-> [id \in {"fallback_default_bounded"} |-> [enabled |-> FALSE, max |-> 0]]]
    /\ calls = <<>> /\ usage = <<>> /\ changes = 0

-----------------------------------------------------------------------------
(* Selection of a route.                                                   *)

IsModelAllowlisted(c, models, id) ==
    models[id].kind = "mock" \/ c.allowedModels = {} \/ id \in c.allowedModels

CapabilitiesForPromptClass(class) ==
    {"completion"} \cup (IF class \in {"general", "unknown"} THEN {} ELSE {class})

RouteMatchesRequest(k, id, r) ==
    LET route == k.routes[id]
    IN  /\ route.enabled
        /\ (config.mode = "mock_only") => (route.kind = "mock")
        /\ (config.mode = "single_provider") => (route.kind \in {"mock", config.provider})
        /\ r.kind \in {"", route.kind}
        /\ r.provider \in {"", route.provider, route.kind} \/ route.kind = "mock"
        /\ r.model \in {"", route.model}
        /\ config.allowedKinds = {} \/ route.kind \in config.allowedKinds
        /\ config.allowedIds = {} \/ route.provider \in config.allowedIds
        /\ route.provider \notin config.deniedIds
        /\ route.model \notin config.deniedModels
        /\ route.kind = "mock" \/ config.allowedModels = {} \/ route.model \in config.allowedModels
        /\ route.model \in DOMAIN k.models /\ k.models[route.model].status = "active"
        /\ \/ r.model # ""
           \/ /\ {r.class, "unknown"} \intersect route.classes # {}
              /\ CapabilitiesForPromptClass(r.class) \subseteq route.caps

Before(k, a, b) ==
    \/ k.routes[a].priority < k.routes[b].priority
    \/ k.routes[a].priority = k.routes[b].priority /\ RouteRank[a] <= RouteRank[b]

\* MUTANT: the key is looked up but its status is not checked.
CheckBudgetOfAnyKey(k, r, model) ==
    LET id == IF r.key = "" THEN DefaultKey ELSE r.key
    IN  /\ id \in DOMAIN k.keys
        /\ LET key == k.keys[id]
           IN  /\ k.models[model].kind \in key.kinds /\ model \in key.models
               /\ \A limit \in {r.limit, key.limit} \ {NoLimit} : k.models[model].cost <= limit

CheckBudget(k, r, model) ==
    LET id == IF r.key = "" THEN DefaultKey ELSE r.key
    IN  /\ id \in DOMAIN k.keys
        /\ LET key == k.keys[id]
           IN  /\ key.status = "active"
               /\ k.models[model].kind \in key.kinds /\ model \in key.models
               /\ \A limit \in {r.limit, key.limit} \ {NoLimit} : k.models[model].cost <= limit

ProviderHealthy(kind) ==
    \/ kind = "mock"
    \/ /\ kind = "openai_compatible"
       /\ config.remote /\ config.completion /\ config.baseUrl /\ config.credential = "resolved"

\* What becomes of the first candidate; no other candidate is looked at.
Verdict(k, r, id) ==
    LET route == k.routes[id]
        listed == IsModelAllowlisted(config, k.models, route.model)
    IN  IF route.secretRef /\ config.credential # "resolved" THEN "credentials_blocked"
        ELSE IF route.kind = "local_cli" THEN "provider_unavailable"
        ELSE IF ~CheckBudget(k, r, route.model) THEN "budget_blocked"
        ELSE IF ~RouteAuthorized[config][route.kind][listed][r.actor] THEN "policy_blocked"
        ELSE IF ~RouteSelectPolicy[config][route.kind][listed] THEN "policy_blocked"
        ELSE IF ~ProviderHealthy(route.kind) THEN "provider_unavailable"
        ELSE "selected"

(* A routing decision: [verdict, route]. Every one is recorded.            *)
RecordRoutingDecision(call, decision) == [call EXCEPT !.decisions = Append(@, decision)]

SelectRouteForRequest(k, r, excluded) ==
    LET candidates == {id \in DOMAIN k.routes \ excluded : RouteMatchesRequest(k, id, r)}
        first      == CHOOSE id \in candidates : \A other \in candidates : Before(k, id, other)
    IN  IF \/ r.model \in DOMAIN k.models /\ k.models[r.model].status # "active"
           \/ candidates = {}
        THEN [verdict |-> "no_route", route |-> ""]
        ELSE [verdict |-> Verdict(k, r, first), route |-> first]

-----------------------------------------------------------------------------
(* The providers. A call is [request, legacy, phase, route, model,         *)
(* decisions, tried]: route and model are the records as they were when    *)
(* the provider was called.                                                *)

NewCall(r, legacy) ==
    [request |-> r, legacy |-> legacy, phase |-> "blocked", decisions |-> <<>>, tried |-> <<>>,
     route |-> <<>>, model |-> <<>>]

Calling(call, phase, decision) ==
    LET route == catalog.routes[decision.route]
    IN  [RecordRoutingDecision(call, decision) EXCEPT
            !.phase = phase, !.route = route, !.model = catalog.models[route.model],
            !.tried = Append(@, decision.route)]

InFlight == {c \in DOMAIN calls : calls[c].phase \in {"first", "fallback"}}

(* What each provider may answer: the mock one what it is told to, the     *)
(* remote one anything once its own checks pass, the skeletons a failure.  *)
MockLLMProviderAnswers(call, ok) == ok = (~call.request.simulate /\ call.model.status = "active")

OpenAICompatibleLLMProviderAnswers(ok) ==
    ok => /\ config.provider = "openai_compatible"
          /\ config.remote /\ config.completion /\ config.baseUrl /\ config.configured

DisabledSkeletonLLMProviderAnswers(ok) == ~ok

\* The runner's calls go to the service's own provider, whatever the route says.
ProviderForRoute(call) == IF call.legacy THEN config.provider ELSE call.route.kind

MayAnswer(call, ok) ==
    CASE ProviderForRoute(call) = "mock" -> MockLLMProviderAnswers(call, ok)
      [] ProviderForRoute(call) = "openai_compatible" -> OpenAICompatibleLLMProviderAnswers(ok)
      [] OTHER -> DisabledSkeletonLLMProviderAnswers(ok)

\* MUTANT: what a failed provider cost is recorded as well.
RecordUsageAlways(c, call, ok) ==
    IF call.legacy THEN usage
    ELSE Append(usage, [call |-> c, route |-> Last(call.tried), model |-> call.route.model,
                        fallback |-> call.phase = "fallback"])

RecordUsage(c, call, ok) ==
    IF ~ok \/ call.legacy THEN usage
    ELSE Append(usage, [call |-> c, route |-> Last(call.tried), model |-> call.route.model,
                        fallback |-> call.phase = "fallback"])

\* completeRoute until the provider is called.
CompleteRoute(r) ==
    LET decision == SelectRouteForRequest(catalog, r, {})
        blocked  == RecordRoutingDecision(NewCall(r, FALSE), decision)
    IN  IF decision.verdict # "selected" THEN blocked
        ELSE LET model == catalog.routes[decision.route].model
             IN  IF CompletionPolicy[config][catalog.models[model].kind]
                                     [IsModelAllowlisted(config, catalog.models, model)]
                 THEN Calling(NewCall(r, FALSE), "first", decision)
                 ELSE blocked

(* complete, for the runner: as the admin, with the service's own provider *)
(* only, and no second route. The caller keeps the usage record.           *)
Complete(r) ==
    LET own      == [r EXCEPT !.kind = "", !.key = "", !.limit = NoLimit, !.actor = ""]
        decision == SelectRouteForRequest(catalog, own, {})
        blocked  == RecordRoutingDecision(NewCall(own, TRUE), decision)
    IN  IF decision.verdict # "selected" THEN blocked
        ELSE LET model == catalog.routes[decision.route].model
                 kind  == catalog.models[model].kind
             IN  IF /\ kind = config.provider
                    /\ CompletionPolicy[config][kind][IsModelAllowlisted(config, catalog.models, model)]
                 THEN Calling(NewCall(own, TRUE), "first", decision)
                 ELSE blocked

AttemptLimit(r) ==
    CASE r.maxFallback = NoLimit \/ r.maxFallback > config.maxFallback -> config.maxFallback
      [] r.maxFallback \in 0..config.maxFallback -> r.maxFallback
      [] OTHER -> 0

MayFallBack(call) ==
    /\ ~call.legacy /\ call.phase = "first"
    /\ config.fallbackEnabled /\ AttemptLimit(call.request) > 0
    /\ call.route.fallbackAllowed
    /\ call.route.model \in DOMAIN catalog.models

\* MUTANT: the route that failed is not excluded.
ExcludedNone(call) == {}

Excluded(call) == {Last(call.tried)}

TryFallback(call) ==
    IF ~MayFallBack(call) THEN [call EXCEPT !.phase = "failed"]
    ELSE IF ~FallbackPolicy[config]
    THEN [RecordRoutingDecision(call, [verdict |-> "policy_blocked", route |-> Last(call.tried)])
             EXCEPT !.phase = "failed"]
    ELSE LET decision == SelectRouteForRequest(catalog, call.request, Excluded(call))
         IN  IF decision.verdict = "selected" THEN Calling(call, "fallback", decision)
             ELSE [RecordRoutingDecision(call, decision) EXCEPT !.phase = "failed"]

-----------------------------------------------------------------------------
(* The routes of the API.                                                  *)

PostCompletion(r) ==
    /\ Len(calls) < MaxCalls
    /\ calls' = Append(calls, CompleteRoute(r))
    /\ UNCHANGED <<config, catalog, usage, changes>>

\* A decision is made and recorded; nothing is called.
PostRouteRequest(r) ==
    /\ Len(calls) < MaxCalls
    /\ calls' = Append(calls, [RecordRoutingDecision(NewCall(r, FALSE), SelectRouteForRequest(catalog, r, {}))
                                  EXCEPT !.phase = "routed"])
    /\ UNCHANGED <<config, catalog, usage, changes>>

RunnerCompletes(r) ==
    /\ Len(calls) < MaxCalls
    /\ calls' = Append(calls, Complete(r))
    /\ UNCHANGED <<config, catalog, usage, changes>>

ProviderReturns(c, ok) ==
    /\ c \in InFlight /\ MayAnswer(calls[c], ok)
    /\ calls' = [calls EXCEPT ![c] = IF ok THEN [@ EXCEPT !.phase = "succeeded"] ELSE TryFallback(@)]
    /\ usage' = RecordUsage(c, calls[c], ok)
    /\ UNCHANGED <<config, catalog, changes>>

Change(next) ==
    /\ changes < MaxChanges /\ next # catalog
    /\ catalog' = next /\ changes' = changes + 1
    /\ UNCHANGED <<config, calls, usage>>

(* The catalogs after each change. *)
With(map, key, value) ==
    [k \in DOMAIN map \cup {key} |-> IF k = key THEN value ELSE map[k]]

CreateRoute(id)               == [catalog EXCEPT !.routes = With(@, id, NewRoutes[id])]
UpdateRouteStatus(id, enabled) == [catalog EXCEPT !.routes[id].enabled = enabled]
RegisterModel(id)             == [catalog EXCEPT !.models = With(@, id, NewModels[id])]
UpdateModelStatus(id, status) == [catalog EXCEPT !.models[id].status = status]
CreateVirtualKey(id)          == [catalog EXCEPT !.keys = With(@, id, NewKeys[id])]
UpdateVirtualKeyStatus(id, status) == [catalog EXCEPT !.keys[id].status = status]
CreatePolicy(id) == [catalog EXCEPT !.fallbackPolicies = With(@, id, [enabled |-> TRUE, max |-> 1])]

PostRoute(id)            == id \notin DOMAIN catalog.routes /\ Change(CreateRoute(id))
PatchRoute(id, enabled)  == id \in DOMAIN catalog.routes /\ Change(UpdateRouteStatus(id, enabled))
PostModel(id)            == id \notin DOMAIN catalog.models /\ Change(RegisterModel(id))
PatchModel(id, status)   == id \in DOMAIN catalog.models /\ Change(UpdateModelStatus(id, status))
PostVirtualKey(id)       == id \notin DOMAIN catalog.keys /\ Change(CreateVirtualKey(id))
PatchVirtualKey(id, status) == id \in DOMAIN catalog.keys /\ Change(UpdateVirtualKeyStatus(id, status))

\* The seeded policy cannot be replaced: its id is taken.
PostFallbackPolicy(id) == id \notin DOMAIN catalog.fallbackPolicies /\ Change(CreatePolicy(id))

Next ==
    \/ \E r \in Requests : PostCompletion(r) \/ PostRouteRequest(r) \/ RunnerCompletes(r)
    \/ \E c \in DOMAIN calls, ok \in BOOLEAN : ProviderReturns(c, ok)
    \/ \E id \in DOMAIN NewRoutes : PostRoute(id)
    \/ \E id \in Patchable, enabled \in BOOLEAN : PatchRoute(id, enabled)
    \/ \E id \in DOMAIN NewModels : PostModel(id)
    \/ \E id \in Patchable, status \in {"active", "disabled"} : PatchModel(id, status)
    \/ \E id \in DOMAIN NewKeys : PostVirtualKey(id)
    \/ \E id \in {DefaultKey} \cup DOMAIN NewKeys, status \in {"active", "disabled"} : PatchVirtualKey(id, status)
    \/ PostFallbackPolicy("custom")

Spec == Init /\ [][Next]_gatewayVars

-----------------------------------------------------------------------------
(* A provider is called, first or as a fallback, only while its route is   *)
(* enabled, its model active and the key active, allowed this model and    *)
(* within its limit, whatever was changed since the request came; and the  *)
(* remote provider only with every gate open, although the fallback does   *)
(* not ask the completion policies (selectRouteForRequest, tryFallback).   *)
CallGated(call) ==
    LET id    == Last(call.tried)
        route == catalog.routes[id]
        r     == call.request
        key   == IF r.key = "" THEN DefaultKey ELSE r.key
    IN  /\ route.enabled /\ catalog.models[route.model].status = "active"
        /\ key \in DOMAIN catalog.keys /\ catalog.keys[key].status = "active"
        /\ route.model \in catalog.keys[key].models
        /\ (r.limit # NoLimit) => (catalog.models[route.model].cost <= r.limit)
        /\ (route.kind # "mock") =>
             /\ route.kind = "openai_compatible" /\ config.mode # "mock_only"
             /\ config.remote /\ config.completion /\ config.baseUrl /\ config.credential = "resolved"

CallsStartGated ==
    \A c \in DOMAIN calls' :
        (/\ calls'[c].phase \in {"first", "fallback"}
         /\ c \notin DOMAIN calls \/ calls'[c].phase # calls[c].phase) => CallGated(calls'[c])

CallsGated == [][CallsStartGated]_gatewayVars

(* Every answered completion of the API has exactly one usage record, of   *)
(* the route that answered; a request that was refused, only routed or     *)
(* failed on both routes has none.                                         *)
UsageExact ==
    /\ \A c \in DOMAIN calls :
         Cardinality({n \in DOMAIN usage : usage[n].call = c})
            = IF calls[c].phase = "succeeded" /\ ~calls[c].legacy THEN 1 ELSE 0
    /\ \A n \in DOMAIN usage :
         LET call == calls[usage[n].call]
         IN  /\ usage[n].route = Last(call.tried)
             /\ usage[n].fallback <=> (Len(call.tried) = 2)

(* No request calls a route twice or more than two routes, and every       *)
(* attempt has its own routing decision, in order; a runner's call and a   *)
(* route that forbids it never fall back.                                  *)
FallbackBounded ==
    \A c \in DOMAIN calls :
        LET call   == calls[c]
            chosen == {n \in DOMAIN call.decisions : call.decisions[n].verdict = "selected"}
        IN  /\ Len(call.tried) <= 1 + (IF config.fallbackEnabled THEN AttemptLimit(call.request) ELSE 0)
            /\ Len(call.tried) <= 2 /\ (call.legacy => Len(call.tried) <= 1)
            /\ IsInjective(call.tried)
            /\ call.tried # <<>> =>
                 /\ chosen = DOMAIN call.tried
                 /\ \A n \in chosen : call.decisions[n].route = call.tried[n]
            /\ (call.phase = "fallback") => (call.model.status = "active")

=============================================================================
