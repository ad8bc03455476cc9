---------------------------- MODULE MCLlmGateway ----------------------------
EXTENDS LlmGateway

(* Routes that may be created: one to the remote provider for a model that *)
(* is not its own, and one as urgent as a route that exists.               *)
MCNewRoutes == [mixed |-> [SkeletonRoute("openai_compatible", "openai_api_key", "mock_coder", 50)
                              EXCEPT !.caps = {"completion", "code_review"}, !.secretRef = FALSE,
                                     !.fallbackAllowed = TRUE],
                large |-> MockRoute("mock_large", 110, {"code_review"}, {"code_review", "unknown"})]

MCNewModels == [mock_large |-> [kind |-> "mock", status |-> "active", cost |-> 5]]

MCNewKeys == [team |-> [status |-> "active", kinds |-> {"mock", "openai_compatible"},
                        models |-> {"mock_coder", "openai_default", "mock_large"}, limit |-> NoLimit]]

MCPatchable == {"general", "coder", "mixed", "mock_coder", "anthropic_skeleton"}

MCRouteRank == [general |-> 4, coder |-> 3, conflict |-> 5, openai |-> 6, anthropic |-> 7, claude |-> 8,
                large |-> 1, mixed |-> 2]

LlmEnv(provider, mode, remote) ==
    [provider |-> provider, mode |-> mode, fallback |-> TRUE, maxFallback |-> 1,
     remote |-> remote, completion |-> TRUE, baseUrl |-> TRUE, apiKeyRef |-> FALSE, apiKey |-> TRUE,
     resolver |-> "denied", deniedModels |-> {}, allowedModels |-> {},
     allowedKinds |-> {}, allowedIds |-> {}, deniedIds |-> {}]

MCEnvs == {LlmEnv("mock", "", FALSE), LlmEnv("openai_compatible", "multi_provider", TRUE),
           [LlmEnv("openai_compatible", "", TRUE) EXCEPT !.apiKeyRef = TRUE, !.deniedIds = {"anthropic_api_key"}],
           [LlmEnv("mock", "multi_provider", TRUE) EXCEPT
              !.allowedKinds = {"mock", "openai_compatible"}, !.deniedModels = {"mock_coder"}]}

LlmCall(kind, model, key, simulate, actor) ==
    [kind |-> kind, provider |-> "", model |-> model, key |-> key, class |-> "code_review", limit |-> 4,
     maxFallback |-> NoLimit, simulate |-> simulate, actor |-> actor]

MCRequests == {[LlmCall("", "", "", TRUE, "user_demo_developer") EXCEPT !.class = "general"],
               LlmCall("", "", "team", FALSE, "user_demo_developer"),
               LlmCall("openai_compatible", "", "team", FALSE, "mock_admin"),
               [LlmCall("", "mock_model", "", TRUE, "svc_runner") EXCEPT !.maxFallback = 0]}
=============================================================================
