---------------------------- MODULE Authorization ----------------------------
(***************************************************************************)
(* AuthorizationService with the mock provider and its static catalog. A   *)
(* request names an actor; its roles come from its own record and from the *)
(* bindings of its principal. A check passes when the actor is active, an  *)
(* active binding grants the permission within its scope, and the policies *)
(* allow the action, where it is one they know.                            *)
(*                                                                         *)
(* A permission is its action. A scope is [kind, id]. Teams have no        *)
(* bindings in the catalog and are left out, and so are audit records.     *)
(***************************************************************************)
EXTENDS Policy

NoScope == [kind |-> "none", id |-> ""]

\* Permissions whose action the policy engine does not know.
RbacOnly == {"task.read", "git.repo.read", "git.audit.read", "llm.audit.read", "registry.read",
             "improvement.eval.attach", "secret.ref.create", "secret.ref.update",
             "secret.ref.disable", "secret.ref.revoke", "secret.audit.read",
             "security.audit.read", "policy.evaluate", "policy.audit.read", "mcp.audit.read"}

Permissions == RbacOnly \cup
    {"task.create", "task.run", "git.branch.create", "git.pull_request.create",
     "git.remote_operation", "git.credential.resolve", "git.webhook.process", "git.merge",
     "git.rebase", "llm.completion", "llm.remote_completion", "llm.model.use",
     "llm.route.select", "llm.fallback", "llm.credential.resolve", "runner.execute",
     "runner.command.execute", "registry.create", "registry.update", "registry.approve",
     "registry.rollback", "improvement.proposal.create", "improvement.proposal.approve",
     "improvement.apply", "provider.invoke", "provider.credential.resolve", "secret.read",
     "secret.lease.request", "secret.lease.issue", "local_agent.invoke",
     "local_agent.consent.approve", "dashboard.read", "mcp.server.list", "mcp.tool.list",
     "mcp.tool.invoke.low_risk", "mcp.tool.invoke.high_risk", "mcp.tool.invoke.critical",
     "auth.read", "auth.authorize.check", "auth.admin"}

RolePermissions == [
    system_admin |-> Permissions,
    platform_admin |-> Permissions \
        {"task.create", "task.run", "task.read", "improvement.proposal.create",
         "improvement.proposal.approve", "improvement.eval.attach", "improvement.apply",
         "secret.read", "secret.lease.request", "secret.lease.issue", "local_agent.invoke",
         "local_agent.consent.approve"},
    developer |->
        {"dashboard.read", "task.read", "task.create", "task.run", "git.repo.read",
         "git.branch.create", "git.pull_request.create", "runner.execute", "llm.completion",
         "llm.model.use", "llm.route.select", "registry.read", "mcp.server.list",
         "mcp.tool.list", "mcp.tool.invoke.low_risk"},
    reviewer |->
        {"dashboard.read", "task.read", "registry.read", "registry.approve",
         "improvement.proposal.approve", "improvement.eval.attach", "git.repo.read",
         "mcp.server.list", "mcp.tool.list", "mcp.audit.read"},
    security_admin |->
        {"dashboard.read", "auth.read", "auth.authorize.check", "secret.lease.request",
         "secret.audit.read", "security.audit.read", "policy.audit.read",
         "provider.credential.resolve", "git.credential.resolve", "llm.credential.resolve",
         "mcp.server.list", "mcp.tool.list", "mcp.audit.read"},
    service_account_runner |->
        {"task.run", "runner.execute", "llm.completion", "llm.model.use", "llm.route.select",
         "git.branch.create", "mcp.tool.invoke.low_risk"},
    viewer |-> {"dashboard.read", "mcp.server.list", "mcp.tool.list"}]

Binding(role, scope) == [role |-> role, scope |-> scope]

Global == [kind |-> "global", id |-> ""]

\* The actors of the catalog: their roles, the bindings of their principals.
Actor(active, roles, scope) ==
    [active |-> active, roles |-> roles, bindings |-> {Binding(r, scope) : r \in roles}]

Actors == [
    mock_admin |-> Actor(TRUE, {"system_admin", "platform_admin"}, Global),
    user_demo_developer |-> Actor(TRUE, {"developer"}, Global),
    user_demo_viewer |-> Actor(TRUE, {"viewer"}, Global),
    user_demo_reviewer |-> Actor(TRUE, {"reviewer"}, Global),
    user_security_admin |-> Actor(TRUE, {"security_admin"}, Global),
    svc_runner |-> Actor(TRUE, {"service_account_runner"},
                         [kind |-> "task", id |-> "task_demo_backend"]),
    anonymous_mock |-> Actor(FALSE, {}, Global)]

\* An actor that is not in the catalog is disabled; no actor means the admin.
ResolveAuthContext(actorId) ==
    IF actorId = "" THEN Actors["mock_admin"]
    ELSE IF actorId \in DOMAIN Actors THEN Actors[actorId]
    ELSE Actor(FALSE, {}, Global)

\* MUTANT: a scoped binding grants what names no scope.
ScopeMatchesUnlessNamed(binding, scope, kind, id) ==
    binding.kind = "global" \/ scope = NoScope
    \/ (binding.kind = scope.kind /\ binding.id \in {"", scope.id})

ScopeMatches(binding, scope, kind, id) ==
    \/ binding.kind = "global"
    \/ /\ scope # NoScope
       /\ binding.kind = scope.kind /\ binding.id \in {"", scope.id}
    \/ /\ scope = NoScope
       /\ binding.kind = kind /\ binding.id \in {"", id}

PermissionGrantedByActiveBinding(actor, action, kind, id, scope) ==
    /\ \E r \in actor.roles : action \in RolePermissions[r]
    /\ \E b \in actor.bindings :
          /\ b.role \in actor.roles
          /\ action \in RolePermissions[b.role]
          /\ ScopeMatches(b.scope, scope, kind, id)

\* The request as the policy engine sees it: the roles are the actor's.
ToPolicySubject(actor, r) == [r EXCEPT !.roles = actor.roles]

Granted(actor, r, id, scope) ==
    /\ actor.active
    /\ r.action \in Permissions
    /\ PermissionGrantedByActiveBinding(actor, r.action, r.kind, id, scope)

\* Why a check fails, or "allowed".
Evaluate(actor, r, id, scope) ==
    IF ~Granted(actor, r, id, scope) THEN "auth_denied"
    ELSE IF r.action \notin RbacOnly /\ ~Allowed(ToPolicySubject(actor, r)) THEN "policy_denied"
    ELSE "allowed"

Check(actorId, r, id, scope) == Evaluate(ResolveAuthContext(actorId), r, id, scope) = "allowed"
=============================================================================
