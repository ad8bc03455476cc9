---------------------------- MODULE MCAgentRunner ----------------------------
EXTENDS AgentRunner

RunnerConfig(kind, enabled, execute, root) ==
    [kind |-> kind, enabled |-> enabled, execute |-> execute, root |-> root]

MCRunnerConfigs == {RunnerConfig("mock", FALSE, TRUE, {}),
                    RunnerConfig("local", FALSE, TRUE, {}),
                    RunnerConfig("local", TRUE, FALSE, {"fixture", "repository"}),
                    RunnerConfig("local", TRUE, TRUE, {"fixture", "repository"})}

Plain == [denied |-> FALSE, network |-> FALSE, remote |-> FALSE, words |-> {}, shell |-> FALSE,
          executable |-> "allowed", throws |-> FALSE]

\* pnpm test; node with an argument that cannot be passed; a script with
\* "prefetch" in its name; git push.
MCCommands == [test     |-> Plain,
               nul      |-> [Plain EXCEPT !.throws = TRUE],
               prefetch |-> [Plain EXCEPT !.words = {"fetch"}],
               push     |-> [Plain EXCEPT !.denied = TRUE, !.remote = TRUE, !.words = {"git push"},
                                          !.executable = "blocked"]]

RunRequest(path, allowed, tests, prompt) ==
    [path |-> path, allowed |-> allowed, tests |-> tests, prompt |-> prompt]

MCRunRequests == {RunRequest("", {}, <<"test">>, "plain"),
                  RunRequest("fixture", {}, <<>>, "block"),
                  RunRequest("fixture", {}, <<"test">>, "fail"),
                  RunRequest("fixture", {"test"}, <<"test", "test">>, "plain"),
                  RunRequest("fixture", {"test", "nul"}, <<"test", "nul">>, "plain"),
                  RunRequest("repository", {"test"}, <<"test">>, "plain"),
                  RunRequest("outside", {"push"}, <<"test">>, "plain")}

Order(path, command, allowed, defaultDenied) ==
    [path |-> path, command |-> command, allowed |-> allowed, defaultDenied |-> defaultDenied]

MCOrders == {Order("", "test", {"test"}, TRUE), Order("temp", "test", {"test"}, TRUE),
             Order("repository", "test", {"test"}, TRUE), Order("fixture", "push", {"push"}, FALSE),
             Order("fixture", "prefetch", {"prefetch"}, FALSE)}

MCSecretEnvs == {[enabled |-> TRUE, allowed |-> {"TOKEN"}, values |-> {"TOKEN", "OTHER"}],
                 [enabled |-> FALSE, allowed |-> {}, values |-> {"TOKEN"}]}

MCNewRefs == [github |-> Ref("env", "github_token", "TOKEN", "active"),
              other  |-> Ref("env", "llm_api_key", "OTHER", "active")]

CredentialCall(ref, purpose, actor, kind, claims) ==
    [ref |-> ref, purpose |-> purpose, actor |-> actor, providerKind |-> kind, claims |-> claims]

MCCredentialRequests ==
    {CredentialCall("github", "github_api_call", "", "", <<>>),
     CredentialCall("github", "github_api_call", "user_demo_developer", "", <<>>),
     CredentialCall("github", "github_api_call", "mock_admin", "", EnvCredentials),
     CredentialCall("other", "llm_api_call", "user_security_admin", "", <<>>),
     CredentialCall("vault_future_placeholder", "llm_api_call", "mock_admin", "openai_compatible",
                    Yes({"remoteLlmEnabled", "remoteCompletionEnabled", "secretRefActive"}))}
=============================================================================
