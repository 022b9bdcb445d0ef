------------------------------ MODULE Validation -------------------------------
(***************************************************************************)
(* The rules of Validate about the configuration of nodes, their ports and *)
(* the state (engine/graph/validate.go), next to what the two orchestrators*)
(* make of a configuration when they come to it.  Errors says what is      *)
(* refused, Runs what each orchestrator can start on, and Gaps names the   *)
(* configurations that are accepted though they do not run.  GraphOrder    *)
(* has the rules about the shape of the graph.                             *)
(***************************************************************************)
EXTENDS Integers, Sequences, FiniteSets

\* An optional number.
Unset == [set |-> FALSE, n |-> 0]
Num(n) == [set |-> TRUE, n |-> n]
OrDefault(x, d) == IF x.set THEN x.n ELSE d
BadLimit(x) == x.set /\ x.n <= 0

If(code, wrong) == IF wrong THEN {code} ELSE {}

-----------------------------------------------------------------------------
(* The tool loop of an LLM node.                                           *)

\* Mutant: an API target of which only one half is given counts as one.
RouteErrorsOfHalves(r) ==
    If("TOOL_ROUTE_NO_TARGET", ~r.mcp /\ ~r.tool /\ ~r.endpoint)
        \cup If("TOOL_ROUTE_AMBIGUOUS", r.mcp /\ (r.tool \/ r.endpoint))
        \cup If("TOOL_ROUTE_BAD_TIMEOUT", BadLimit(r.timeout))
        \cup If("TOOL_ROUTE_COMPACTED_NO_MCP", r.compacted /\ ~r.mcp)

RouteErrors(r) ==
    If("TOOL_ROUTE_NO_TARGET", ~r.mcp /\ ~r.tool /\ ~r.endpoint)
        \cup If("TOOL_ROUTE_AMBIGUOUS", r.mcp /\ (r.tool \/ r.endpoint))
        \cup If("TOOL_ROUTE_INCOMPLETE", r.tool /\ ~r.endpoint)
        \cup If("TOOL_ROUTE_BAD_TIMEOUT", BadLimit(r.timeout))
        \cup If("TOOL_ROUTE_COMPACTED_NO_MCP", r.compacted /\ ~r.mcp)

\* validateToolLoopConfigs.  "fromState" is whether tool_routing_from_state is set and the
\* field it names exists, "choice" what tool_choice names.
LLMErrors(c) ==
    If("TOOL_LOOP_NO_ROUTING",
       c.routes = << >> /\ c.fromState = "unset" /\ ~c.fromInput /\ c.apiTools = << >>)
        \cup If("API_TOOL_REF_NO_ID", \E i \in DOMAIN c.apiTools : ~c.apiTools[i].tool)
        \cup If("API_TOOL_REF_NO_ENDPOINT", \E i \in DOMAIN c.apiTools : ~c.apiTools[i].endpoint)
        \cup If("TOOL_ROUTING_INPUT_PORT_MISSING", c.fromInput /\ ~c.routingPort)
        \cup UNION {RouteErrors(c.routes[i]) : i \in DOMAIN c.routes}
        \cup If("TOOL_LOOP_BAD_LIMIT", BadLimit(c.maxCalls) \/ BadLimit(c.maxIterations))
        \cup If("TOOL_CHOICE_INVALID", c.choice = "unknown")

\* A call goes to the API's endpoint if there is an api_tool_id, to the MCP server if not.
Reaches(r) == IF r.tool THEN r.endpoint ELSE r.mcp

\* What both need: positive limits, a choice the provider knows, and routes that lead to a
\* server in the time they are given.
LLMStarts(c) ==
    /\ OrDefault(c.maxCalls, 25) > 0 /\ OrDefault(c.maxIterations, 10) > 0
    /\ c.choice # "unknown"
    /\ \A i \in DOMAIN c.routes : Reaches(c.routes[i]) /\ OrDefault(c.routes[i].timeout, 30) > 0

\* resolveToolRoutingForDispatch, the orchestrator's, knows routes and the state.
LLMRunsInWorker(c) == (c.routes # << >> \/ c.fromState = "field") /\ LLMStarts(c)

\* resolveToolRouting, in the executor, makes do with API tools; resolveAPIToolRefs looks
\* up each of them.
LLMRunsInProcess(c) ==
    /\ \/ c.routes # << >> \/ c.fromState = "field"
       \/ c.fromState = "unset" /\ c.apiTools # << >>
    /\ \A i \in DOMAIN c.apiTools : c.apiTools[i].tool /\ c.apiTools[i].endpoint
    /\ LLMStarts(c)

LLMGaps(c) ==
    LET alone == c.routes = << >>
    IN  If("tool_routing_from_input is not implemented",
           alone /\ c.fromState = "unset" /\ c.apiTools = << >>)
          \cup If("tool_routing_from_state names a field that need not exist",
                  alone /\ c.fromState = "missing")
          \cup If("api_tools alone do not run in the worker",
                  alone /\ c.fromState = "unset" /\ c.apiTools # << >>)
          \cup If("an api_endpoint without an api_tool_id is sent to an MCP server without a URL",
                  \E i \in DOMAIN c.routes : c.routes[i].endpoint /\ ~c.routes[i].tool)

-----------------------------------------------------------------------------
(* Superagents.                                                            *)

\* Rule 2 of validateSuperagentConfigs.
SkillErrors(s) ==
    If("SUPERAGENT_INVALID_SKILL", ~s.name \/ ~s.description \/ s.mcp = s.tool)
        \cup If("SUPERAGENT_API_SKILL_NO_ENDPOINTS", s.tool /\ ~s.endpoints)
        \cup If("SUPERAGENT_COMPACTED_NO_MCP", s.compacted /\ ~s.mcp)

\* validateSuperagentConfigs.  "given" are the required fields that are set.
SuperagentErrors(c) ==
    If("SUPERAGENT_MISSING_CONFIG",
       \/ {"prompt", "provider", "model", "key"} \ c.given # {} \/ c.skills = << >>
       \/ BadLimit(c.maxIterations) \/ BadLimit(c.maxTotalToolCalls)
       \/ BadLimit(c.maxToolCallsPerIteration) \/ BadLimit(c.timeout)
       \/ c.history = "missing port")
        \cup UNION {SkillErrors(c.skills[i]) : i \in DOMAIN c.skills}
        \cup If("SUPERAGENT_NO_OUTPUT", ~c.hasOutput)
        \cup If("SUPERAGENT_MISSING_SHARED_MEMORY_STATE",
                c.memory.enabled /\ ~(c.memory.field /\ c.memory.read /\ c.memory.write))
        \* validateSuperagentOverrides; the threshold of a compaction is in quarters.
        \cup If("SUPERAGENT_INVALID_OVERRIDE",
                \/ c.override.provider /\ ~c.override.model
                \/ BadLimit(c.window)
                \/ c.threshold.set /\ c.threshold.n \notin 1 .. 4)
        \* validateCodeExecutionConfig.
        \cup If("SUPERAGENT_INVALID_CODE_EXEC",
                c.code.enabled /\ \E l \in {"time", "memory", "output", "code", "calls", "runs"} :
                    c.code[l] \in {"zero", "too much"})

\* A skill's tools come from the library's definition or from the MCP server.
Equipped(s) == IF s.tool THEN s.endpoints ELSE s.mcp

\* What both coordinators need to go through an iteration: the detector's buffer is indexed
\* modulo its length, the limits let a call through, the compaction is not always due, and
\* the memory has a field to go to.
AgentStarts(c) ==
    /\ {"provider", "model", "key"} \subseteq c.given /\ c.hasOutput
    /\ \A i \in DOMAIN c.skills : Equipped(c.skills[i])
    /\ OrDefault(c.maxIterations, 25) > 0 /\ OrDefault(c.maxTotalToolCalls, 200) > 0
    /\ OrDefault(c.maxToolCallsPerIteration, 25) > 0 /\ OrDefault(c.timeout, 600) > 0
    /\ OrDefault(c.window, 20) > 0 /\ OrDefault(c.threshold, 3) \in 1 .. 4
    /\ c.memory.enabled => c.memory.field /\ c.memory.write
    /\ c.override.provider => c.override.model

\* The code runner gives the code the time, the memory and the room of the configuration.
CodeStarts(code) ==
    code.enabled => \A l \in {"time", "memory", "output", "code", "calls", "runs"} : code[l] # "zero"

SuperagentRunsInWorker(c) == AgentStarts(c) /\ CodeStarts(c.code)

\* The inner tool loop has a limit of its own, and there is no code runner.
SuperagentRunsInProcess(c) ==
    AgentStarts(c) /\ OrDefault(c.maxToolLoopRounds, 10) > 0 /\ ~c.code.enabled

SuperagentGaps(c) ==
    If("max_tool_loop_rounds is not checked", BadLimit(c.maxToolLoopRounds))
        \cup If("code execution needs the worker", c.code.enabled)

-----------------------------------------------------------------------------
(* The api_tool node.                                                      *)

\* validateAPIToolNodeConfigs.  "inline" is inline_endpoint or << >>.
APIToolErrors(c) ==
    If("API_TOOL_NO_DEFINITION", ~c.tool /\ ~c.endpoint /\ c.inline = << >>)
        \cup If("API_TOOL_AMBIGUOUS", (c.tool \/ c.endpoint) /\ c.inline # << >>)
        \cup If("API_TOOL_REF_NO_ID", ~c.tool /\ c.endpoint)
        \cup If("API_TOOL_REF_NO_ENDPOINT", c.tool /\ ~c.endpoint)
        \cup UNION {If("API_TOOL_INLINE_NO_BASE_URL", e.url = "none")
                      \cup If("API_TOOL_INLINE_BAD_URL", e.url = "bad")
                      \cup If("API_TOOL_INLINE_NO_METHOD", e.method = "none")
                      \cup If("API_TOOL_INLINE_BAD_METHOD", e.method = "bad")
                      \cup If("API_TOOL_INLINE_NO_PATH", ~e.path) :
                         e \in {c.inline[i] : i \in DOMAIN c.inline}}

\* dispatchAPIToolNode sends the reference and nothing else.
APIToolRunsInWorker(c) == c.tool /\ c.endpoint

APIToolRunsInProcess(c) ==
    IF c.inline # << >>
    THEN c.inline[1].url = "good" /\ c.inline[1].method = "good" /\ c.inline[1].path
    ELSE c.tool /\ c.endpoint

APIToolGaps(c) == If("inline_endpoint does not reach the worker", c.inline # << >>)

-----------------------------------------------------------------------------
(* An input port, and a field of the state.                                *)

\* validateEdge, validateStateBindings and validateRequiredPorts.
PortErrors(p) ==
    If("INVALID_TARGET_PORT", ~p.declared /\ p.edges # {})
        \cup If("INVALID_STATE_PORT", ~p.declared /\ p.read # "none")
        \cup If("INVALID_STATE_REF", p.read = "missing")
        \cup If("UNWIRED_REQUIRED_PORT",
                p.declared /\ p.required /\ ~p.default /\ p.edges = {} /\ p.read = "none")

\* resolveInputs: the default, a field of the state, a forward edge.  The same in both.
PortRuns(p) ==
    /\ ~p.declared => p.edges = {} /\ p.read = "none"
    /\ p.read # "missing"
    /\ p.declared /\ p.required => p.default \/ p.read = "field" \/ "forward" \in p.edges

PortGaps(p) ==
    If("a back-edge wires a port and is not there when its node first runs",
       p.required /\ ~p.default /\ p.read = "none" /\ p.edges = {"back"})

\* validateReducerCompat.
FieldErrors(f) ==
    If("REDUCER_INCOMPATIBLE",
       (f.reducer = "append" /\ f.type # "array") \/ (f.reducer = "merge" /\ f.type # "object"))

\* initState: the value a field starts with, of which applyStateWrites only asks whether it
\* is a list.  The reducer is not looked at.
Starting(f) == IF f.initial # "none" THEN f.initial ELSE f.type
Effect(f) == IF Starting(f) = "array" THEN "append" ELSE "replace"

FieldRuns(f) == Effect(f) = f.reducer

FieldGaps(f) ==
    If("a merge replaces", f.reducer = "merge" /\ Starting(f) # "array")
        \cup If("a list is appended to whatever its reducer", f.reducer # "append" /\ Starting(f) = "array")
        \cup If("the initial value of a list need not be one", f.reducer = "append" /\ Starting(f) # "array")

-----------------------------------------------------------------------------
(* A configuration of any kind.                                            *)

Errors(s) ==
    CASE s.kind = "llm" -> LLMErrors(s.of)
      [] s.kind = "superagent" -> SuperagentErrors(s.of)
      [] s.kind = "api_tool" -> APIToolErrors(s.of)
      [] s.kind = "port" -> PortErrors(s.of)
      [] s.kind = "field" -> FieldErrors(s.of)

RunsInWorker(s) ==
    CASE s.kind = "llm" -> LLMRunsInWorker(s.of)
      [] s.kind = "superagent" -> SuperagentRunsInWorker(s.of)
      [] s.kind = "api_tool" -> APIToolRunsInWorker(s.of)
      [] s.kind = "port" -> PortRuns(s.of)
      [] s.kind = "field" -> FieldRuns(s.of)

RunsInProcess(s) ==
    CASE s.kind = "llm" -> LLMRunsInProcess(s.of)
      [] s.kind = "superagent" -> SuperagentRunsInProcess(s.of)
      [] s.kind = "api_tool" -> APIToolRunsInProcess(s.of)
      [] OTHER -> RunsInWorker(s)

Gaps(s) ==
    CASE s.kind = "llm" -> LLMGaps(s.of)
      [] s.kind = "superagent" -> SuperagentGaps(s.of)
      [] s.kind = "api_tool" -> APIToolGaps(s.of)
      [] s.kind = "port" -> PortGaps(s.of)
      [] s.kind = "field" -> FieldGaps(s.of)

=============================================================================
