---------------------------- MODULE MCAlgorithms ----------------------------
(* Inputs of the algorithms, reached one change at a time.                 *)
EXTENDS Algorithms

CONSTANT
    MaxDeviations    \* facts of a request that differ from what a rule expects

(* "x" matches both the test and the docs pattern, as tests/README.md      *)
(* does; three files share a top-level directory.                          *)
MCDir == [f \in Files |-> IF f \in {"app", "auth", "md"} THEN "src"
                          ELSE IF f = "pkg" THEN "" ELSE "tests"]

Toggle(fs, f) == IF f \in fs THEN fs \ {f} ELSE fs \cup {f}

MCNames    == {"conflict-risk-reviewer", "auth-debugging", "backend-node20", "frontend-node20",
               "org-secure-coding-baseline", "conflict-manager-guidance"}
MCNameRank == [n \in MCNames |-> IF n = "auth-debugging" THEN 1 ELSE 2]

Dep(kind, name, range, required) ==
    [kind |-> kind, name |-> name, range |-> range, required |-> required]

RegistryEntry(kind, id, name, version, deps) ==
    [kind |-> kind, id |-> id, name |-> name, version |-> version, open |-> TRUE,
     agents |-> {"codex"}, repos |-> {}, deps |-> deps]

Caret(v) == [op |-> "caret", base |-> v]
Tilde(v) == [op |-> "tilde", base |-> v]

(* Two versions of a skill, a skill and a harness that need the old or the *)
(* new one, and two instructions that need each other.                     *)
MCRegistryEntries == {
    RegistryEntry("skill", "c10", "conflict-risk-reviewer", <<1, 0, 0>>, {}),
    RegistryEntry("skill", "c12", "conflict-risk-reviewer", <<1, 2, 0>>,
        {Dep("instruction", "conflict-manager-guidance", LatestRange, TRUE)}),
    RegistryEntry("skill", "a", "auth-debugging", <<1, 0, 0>>,
        {Dep("skill", "conflict-risk-reviewer", Tilde(<<1, 0, 0>>), TRUE)}),
    RegistryEntry("harness", "h", "backend-node20", <<1, 0, 0>>,
        {Dep("skill", "conflict-risk-reviewer", Caret(<<1, 1, 0>>), TRUE),
         Dep("instruction", "org-secure-coding-baseline", [op |-> "exact", base |-> <<2, 0, 0>>], FALSE)}),
    RegistryEntry("harness", "g", "frontend-node20", <<1, 0, 0>>, {}),
    RegistryEntry("instruction", "b", "org-secure-coding-baseline", <<1, 0, 0>>, {}),
    RegistryEntry("instruction", "d", "conflict-manager-guidance", <<1, 0, 0>>,
        {Dep("skill", "conflict-risk-reviewer", [op |-> "major", base |-> <<1, 0, 0>>], TRUE)})}

ById(id) == [name |-> id, range |-> [op |-> "none"]]

(* A request that meets every condition of a rule.                         *)
Meeting(rule) ==
    LET c == rule.conditions
        any(f, default) == IF f \in DOMAIN c THEN CHOOSE x \in c[f] : TRUE ELSE default
    IN  [Request(rule.action, rule.kind) EXCEPT
            !.roles    = IF "roles" \in DOMAIN c THEN {any("roles", "")} ELSE {"system"},
            !.provider = any("providers", ""),
            !.runner   = any("runners", ""),
            !.status   = any("statuses", ""),
            !.words    = IF "words" \in DOMAIN c THEN c.words ELSE {},
            !.env      = IF "env" \in DOMAIN c THEN c.env ELSE <<>>,
            !.meta     = IF "meta" \in DOMAIN c THEN c.meta ELSE <<>>,
            !.risk     = IF "risk" \in DOMAIN c THEN c.risk ELSE 0]

MCServer == [id |-> "server", kind |-> "mock", status |-> "active", allowedTools |-> {"tool"},
             secrets |-> FALSE]
MCTool   == [id |-> "tool", server |-> "server", risk |-> "low", status |-> "active",
             readOnly |-> TRUE, secrets |-> FALSE, network |-> FALSE, write |-> FALSE,
             deploy |-> FALSE, localExecution |-> FALSE]

Init ==
    \/ input = [part |-> "risk", source |-> {}, target |-> {},
                pair |-> NoSimulation, own |-> NoSimulation]
    \/ \E rule \in Rules :
          input = [part |-> "policy", request |-> Meeting(rule), deviations |-> 0]
    \/ \E topics \in SUBSET {"conflict", "frontend"},
          skills \in {{}, {ById("a")}, {[name |-> "conflict-risk-reviewer", range |-> Caret(<<1, 1, 0>>)]}},
          harnesses \in {{}, {ById("h")}, {[name |-> "backend-node20", range |-> Caret(<<2, 0, 0>>)]}} :
          input = [part |-> "resolve",
                   task |-> [registry |-> MCRegistryEntries, topics |-> topics,
                             skillRequests |-> skills, harnessRequests |-> harnesses,
                             agent |-> "codex", repo |-> "repo"]]
    \/ \E kind \in {"mock", "local", "github", "other"}, resolver \in {"absent", "denied", "resolved"},
          request \in [op : {"branch_create", "pull_request_create"}, repo : {"repo", "foreign"},
                       prefixOk : BOOLEAN, localPath : BOOLEAN] :
          input = [part |-> "git", request |-> request, env |-> [k \in GitFlags |-> FALSE] @@
                      [kind |-> kind, resolver |-> resolver, repos |-> {"repo"}, webhookRepos |-> {}]]
    \/ \E actor \in DOMAIN Actors \cup {"", "nobody"}, task \in {"", "task_demo_backend", "other"} :
          input = [part |-> "tool", actor |-> actor, task |-> task, server |-> MCServer,
                   tool |-> MCTool, deviations |-> 0]

TouchFile ==
    /\ input.part = "risk"
    /\ \E f \in Files :
          \/ input' = [input EXCEPT !.source = Toggle(@, f)]
          \/ input' = [input EXCEPT !.target = Toggle(@, f)]

Resimulate ==
    /\ input.part = "risk"
    /\ \E p, o \in OptionalStatuses : input' = [input EXCEPT !.pair = p, !.own = o]

FactsOf(action) ==
    UNION {DOMAIN rule.conditions.env :
              rule \in {r \in Rules : r.action = action /\ "env" \in DOMAIN r.conditions}}

TextFacts == {"serverKind", "serverStatus", "toolStatus", "riskLevel", "sandboxKind",
              "profileStatus", "consentLevel"}

Other(k, v) == IF k \in TextFacts THEN "other" ELSE ~v

\* A flag or a credential of the environment is set.
SetVariable ==
    /\ input.part = "git"
    /\ \E k \in GitFlags : ~input.env[k] /\ input' = [input EXCEPT !.env[k] = TRUE]

(* The tool or its server is of another kind than the harmless ones.       *)
ChangeTool ==
    /\ input.part = "tool" /\ input.deviations < MaxDeviations
    /\ LET to(next) == input' = [next EXCEPT !.deviations = @ + 1]
       IN  \/ \E k \in {"readOnly", "secrets", "network", "write", "deploy", "localExecution"} :
                 to([input EXCEPT !.tool[k] = ~@])
           \/ \E r \in {"medium", "high", "critical"} : to([input EXCEPT !.tool.risk = r])
           \/ to([input EXCEPT !.tool.status = "disabled"])
           \/ to([input EXCEPT !.tool.server = "another"])
           \/ to([input EXCEPT !.server.status = "disabled"])
           \/ to([input EXCEPT !.server.kind = "http_future"])
           \/ to([input EXCEPT !.server.secrets = TRUE])
           \/ to([input EXCEPT !.server.allowedTools = {}])

(* A fact is unreported or has another value, a role or a word is dropped, *)
(* the resource has another status.                                        *)
ChangeRequest ==
    /\ input.part = "policy" /\ input.deviations < MaxDeviations
    /\ LET r == input.request
           to(q) == input' = [input EXCEPT !.request = q, !.deviations = @ + 1]
       IN  \/ \E k \in DOMAIN r.env : to([r EXCEPT !.env = Without(@, k)])
           \/ \E k \in DOMAIN r.env : to([r EXCEPT !.env[k] = Other(k, @)])
           \/ \E k \in FactsOf(r.action) \ (DOMAIN r.env \cup TextFacts), v \in BOOLEAN :
                 to([r EXCEPT !.env = @ @@ (k :> v)])
           \/ \E k \in DOMAIN r.meta : to([r EXCEPT !.meta = Without(@, k)])
           \/ \E k \in DOMAIN r.meta : to([r EXCEPT !.meta[k] = Other(k, @)])
           \/ \E s \in {"", "active", "revoked", "disabled"} : to([r EXCEPT !.status = s])
           \/ \E w \in {{}, {"curl"}} : to([r EXCEPT !.words = w])
           \/ \E x \in {0, 79, 80} : to([r EXCEPT !.risk = x])

(* An entry is withdrawn from the registry, or no longer passes the gates. *)
ChangeRegistry ==
    /\ input.part = "resolve"
    /\ \E e \in input.task.registry :
          \/ input' = [input EXCEPT !.task.registry = @ \ {e}]
          \/ e.open /\ input' = [input EXCEPT !.task.registry = (@ \ {e}) \cup {[e EXCEPT !.open = FALSE]}]

Next == TouchFile \/ Resimulate \/ ChangeRequest \/ ChangeRegistry \/ SetVariable \/ ChangeTool

Spec == Init /\ [][Next]_input

=============================================================================
