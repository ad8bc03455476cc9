----------------------------- MODULE McpGateway -----------------------------
(***************************************************************************)
(* MockMCPGateway: a call of a tool is checked against the catalog, the    *)
(* permissions of the actor, the policies and once more against what the   *)
(* tool needs; it completes with a canned answer or is refused, and either *)
(* way one result is recorded.                                             *)
(*                                                                         *)
(* A server is [id, kind, status, allowedTools, secrets]; a tool is [id,   *)
(* server, risk, status, secrets] and the flags of its metadata.           *)
(***************************************************************************)
EXTENDS Authorization

RiskAction(risk) ==
    IF risk = "critical" THEN "mcp.tool.invoke.critical"
    ELSE IF risk \in {"high", "medium"} THEN "mcp.tool.invoke.high_risk"
    ELSE "mcp.tool.invoke.low_risk"

PolicyEnvironment(server, tool) ==
    [serverKind |-> server.kind, serverStatus |-> server.status, toolStatus |-> tool.status,
     riskLevel |-> tool.risk, readOnly |-> tool.readOnly,
     requiresSecrets |-> tool.secrets \/ server.secrets, networkRequired |-> tool.network,
     writeOperation |-> tool.write, deployOperation |-> tool.deploy,
     realTransportEnabled |-> FALSE, localExecutionRequired |-> tool.localExecution]

TaskScope(task) == IF task = "" THEN NoScope ELSE [kind |-> "task", id |-> task]

ToolRequest(action, server, tool) ==
    [Request(action, "mcp_tool") EXCEPT !.env = PolicyEnvironment(server, tool)]

Authorize(actor, server, tool, task) ==
    Evaluate(actor, ToolRequest(RiskAction(tool.risk), server, tool), tool.id, TaskScope(task))

GenericPolicy(actor, server, tool) ==
    Allowed(ToPolicySubject(actor, ToolRequest("mcp.tool.invoke", server, tool)))

(* The checks behind the policies.                                         *)
HardChecks(server, tool) ==
    IF tool.secrets \/ server.secrets THEN "secret_denied"
    ELSE IF tool.network \/ tool.write \/ tool.deploy THEN "policy_denied"
    ELSE IF tool.localExecution THEN "unavailable"
    ELSE "completed"

CatalogAdmits(server, tool) ==
    /\ tool.server = server.id
    /\ server.status = "active" /\ tool.status = "active"
    /\ server.kind = "mock"
    /\ tool.id \in server.allowedTools

ValidateInvocation(actor, server, tool, task) ==
    IF ~CatalogAdmits(server, tool)
    THEN IF tool.server = server.id /\ server.status = "active" /\ tool.status = "active"
            /\ server.kind # "mock"
         THEN "unavailable" ELSE "blocked"
    ELSE LET verdict == Authorize(actor, server, tool, task)
         IN  IF verdict = "policy_denied" /\ (tool.secrets \/ server.secrets) THEN "secret_denied"
             ELSE IF verdict # "allowed" THEN verdict
             ELSE IF ~GenericPolicy(actor, server, tool) THEN "policy_denied"
             ELSE HardChecks(server, tool)

(* The route lets the caller name another server than the tool's.          *)
InvokeTool(actorId, server, tool, task) ==
    ValidateInvocation(ResolveAuthContext(actorId), server, tool, task)

ListServersAllowed(actor) ==
    Evaluate(actor, [Request("mcp.server.list", "mcp_server") EXCEPT
                        !.env = [readOnly |-> TRUE, serverKind |-> "mock", serverStatus |-> "active",
                                 realTransportEnabled |-> FALSE]], "mcp_servers", NoScope) = "allowed"

ListToolsAllowed(actor, server) ==
    /\ server.status = "active"
    /\ Evaluate(actor, [Request("mcp.tool.list", "mcp_tool") EXCEPT
                           !.env = [readOnly |-> TRUE, serverKind |-> server.kind,
                                    serverStatus |-> server.status,
                                    realTransportEnabled |-> FALSE]], server.id, NoScope) = "allowed"
=============================================================================
