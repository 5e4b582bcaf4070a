----------------------------- MODULE RuntimePolicy -----------------------------
(***************************************************************************)
(* The operator's deny-only controls (src/src/runtime_policy.py): startup    *)
(* settings fix a ceiling, and a controls file, read again at each operation *)
(* boundary, may lower it while the process runs.                           *)
(***************************************************************************)

ActionTypes ==
    {"CREATE_INDEX", "ANALYZE_TABLE", "TERMINATE_BACKEND", "REWRITE_QUERY"}

Mutations ==
    {"CREATE_INDEX", "ANALYZE_TABLE", "TERMINATE_BACKEND", "DROP_INDEX"}

Operations ==
    {"AGENT_RUN", "OBSERVE", "EXPLAIN_ANALYZE", "BENCHMARK",
     "COMPARE_QUERY_RESULTS"} \cup ActionTypes \cup Mutations

RuntimeTools == {"analyze_query", "get_query_plan"}

Environments == {"development", "staging", "production", "benchmark"}

Switches == {"agent", "mutations", "runtime_analysis", "benchmarks"}

\* What is switched off, at startup or by the file.
Denials == [switches : SUBSET Switches, actions : SUBSET ActionTypes]

NoDenials == [switches |-> {}, actions |-> {}]

\* An environment that is none of the four stands for every unknown name.
Settings ==
    [environment : Environments \cup {"unknown"}, required : BOOLEAN,
     denials : Denials]

\* The controls file: there is none, or it cannot be read as controls (partly
\* written, too large, a duplicate or unknown key, a wrong type), or it denies.
ControlFiles == [state : {"missing", "malformed"}, denials : {NoDenials}]
                    \cup [state : {"readable"}, denials : Denials]

Missing == [state |-> "missing", denials |-> NoDenials]

\* _read_controls returns, and does not raise.
ReadsControls(settings, file) ==
    CASE file.state = "missing"   -> ~settings.required
      [] file.state = "malformed" -> FALSE
      [] file.state = "readable"  -> TRUE

PolicyIsValid(settings, file) ==
    settings.environment \in Environments /\ ReadsControls(settings, file)

BlockedByEnvironment(environment) ==
    IF environment = "production"
    THEN {"EXPLAIN_ANALYZE", "BENCHMARK", "COMPARE_QUERY_RESULTS",
          "CREATE_INDEX", "DROP_INDEX", "ANALYZE_TABLE", "REWRITE_QUERY"}
    ELSE {}

\* Mutant: a stop of the benchmarks leaves the actions that need them.
BlockedByBareSwitch(switch) ==
    CASE switch = "agent" -> Operations
      [] switch = "mutations" -> Mutations
      [] switch = "benchmarks" -> {"BENCHMARK"}
      [] switch = "runtime_analysis" ->
            {"EXPLAIN_ANALYZE", "BENCHMARK", "COMPARE_QUERY_RESULTS"}

BlockedBySwitch(switch) ==
    CASE switch = "agent" -> Operations
      [] switch = "mutations" -> Mutations
      [] switch = "benchmarks" ->
            {"BENCHMARK", "REWRITE_QUERY", "CREATE_INDEX", "ANALYZE_TABLE"}
      [] switch = "runtime_analysis" ->
            {"EXPLAIN_ANALYZE", "BENCHMARK", "COMPARE_QUERY_RESULTS",
             "REWRITE_QUERY", "CREATE_INDEX", "ANALYZE_TABLE"}

\* Creating an index is disabled with the drop that would roll it back.
BlockedByAction(action) ==
    IF action = "CREATE_INDEX" THEN {action, "DROP_INDEX"} ELSE {action}

BlockedByDenials(denials) ==
    (UNION {BlockedBySwitch(s) : s \in denials.switches})
        \cup (UNION {BlockedByAction(a) : a \in denials.actions})

\* get_runtime_policy()["blocked"]: controls that are not valid block everything.
Blocked(settings, file) ==
    IF PolicyIsValid(settings, file)
    THEN BlockedByEnvironment(settings.environment)
            \cup BlockedByDenials(settings.denials)
            \cup BlockedByDenials(file.denials)
    ELSE Operations

\* require_operation returns.
Allowed(settings, file, operation) ==
    operation \in Operations \ Blocked(settings, file)

\* require_tool: the tools of the agent, at their dispatch.
ToolAllowed(settings, file, tool) ==
    /\ Allowed(settings, file, "AGENT_RUN")
    /\ tool \in RuntimeTools => Allowed(settings, file, "EXPLAIN_ANALYZE")

\* filter_tools: the tools offered to the model for its turn.
OfferedTools(settings, file, tools) ==
    IF "AGENT_RUN" \in Blocked(settings, file) THEN {}
    ELSE IF "EXPLAIN_ANALYZE" \in Blocked(settings, file)
         THEN tools \ RuntimeTools
         ELSE tools

=============================================================================
