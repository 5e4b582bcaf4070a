----------------------------- MODULE Maintenance -----------------------------
(***************************************************************************)
(* The other controlled actions of src/src/executor.py: CREATE_INDEX,        *)
(* ANALYZE_TABLE and REWRITE_QUERY, each one a call of                       *)
(* execute_action_proposal in a process of its own, over one table, one      *)
(* column and the index name that follows from them, between an intent and   *)
(* an outcome in one audit log (AuditChain) and under live runtime controls  *)
(* (RuntimePolicy), with other sessions of the database around.              *)
(***************************************************************************)
EXTENDS AuditChain, RuntimePolicy

CONSTANTS
    StartupSettings,  \* the settings of the processes
    ControlStates     \* the contents the controls file may get

ASSUME SettingsAssumption ==
    StartupSettings \in Settings /\ ControlStates \subseteq ControlFiles

\* The names of who else may have created the index or written to the log.
ASSUME WritersAssumption == Writers \cap {"dba", "nobody", "legacy"} = {}

VARIABLES
    controls,  \* the controls file
    index,     \* who created the index of that name: an action, "dba", "nobody"
    analyzed,  \* history: the actions whose ANALYZE took effect
    op         \* op[o]: the action of process o

opVars == <<index, analyzed, op>>

vars == <<auditVars, controls, opVars>>

Kinds == {"CREATE_INDEX", "ANALYZE_TABLE", "REWRITE_QUERY"}

\* The outcomes that say that the database is as it was.
CleanRefusals ==
    {"BLOCKED", "BLOCKED_AUDIT_UNAVAILABLE", "BLOCKED_RUNTIME_POLICY", 
     "BLOCKED_VALIDATION", "BLOCKED_SNAPSHOT_MISMATCH", "CANCELLED"}

RolledBack == {"ROLLED_BACK", "ROLLED_BACK_AFTER_VERIFICATION_ERROR"}

Refreshed == {"STATISTICS_REFRESH_CONFIRMED", "STATISTICS_REFRESH_INCONCLUSIVE"}

\* Outcomes that ask for a review, or say that the statement failed.
Doubtful == {"FAILED", "FAILED_UNHANDLED", "ROLLBACK_FAILED",
             "SUCCESS_AUDIT_FAILED"}

Statuses ==
    CleanRefusals \cup RolledBack \cup Refreshed \cup Doubtful
        \cup {"SUCCESS", "REWRITE_ACCEPTED", "REWRITE_REJECTED"}

Operation ==
    [kind     : Kinds,
     at       : {"start", "intent", "gate", "validate", "approve", "before",
                 "compare", "connect", "execute", "after", "measure", "rollback",
                 "drop", "outcome", "returned", "dead"},
     approved : BOOLEAN,
     cause    : {"none", "measured", "unverified"},
     status   : Statuses \cup {"none"}]

Line ==
    [sequence : Nat, previous : {<<>>, <<"legacy">>}
                        \cup (Writers \X (Statuses \cup {"INTENT_RECEIVED"})),
     record : {<<"legacy">>} \cup (Writers \X (Statuses \cup {"INTENT_RECEIVED"}))]

MaintenanceTypeOK ==
    /\ log \in Seq(Line)
    /\ torn \in BOOLEAN
    /\ locked \subseteq Writers
    /\ \A w \in Writers :
        writer[w].at \in {"idle", "waiting", "locked", "verified", "appending",
                          "ended"}
    /\ reader \in {"idle", "invalid"}
    /\ controls \in {Missing} \cup ControlStates
    /\ index \in Writers \cup {"dba", "nobody"}
    /\ analyzed \subseteq Writers
    /\ op \in [Writers -> Operation]

Init ==
    /\ AuditInit
    /\ controls = Missing
    /\ index = "nobody"
    /\ analyzed = {}
    /\ \E kind \in [Writers -> Kinds] :
        op = [o \in Writers |-> [kind |-> kind[o], at |-> "start",
                                 approved |-> FALSE, cause |-> "none",
                                 status |-> "none"]]

Permitted(operation) == Allowed(StartupSettings, controls, operation)

\* RISK_LEVELS, assess_risk, requires_approval and is_operation_allowed.
AssessRisk(kind) ==
    CASE kind \in {"EXPLAIN_ANALYZE", "REWRITE_QUERY"} -> "LOW"
      [] kind \in {"CREATE_INDEX", "ANALYZE_TABLE"} -> "MEDIUM"
      [] kind \in {"DROP_INDEX", "TERMINATE_BACKEND"} -> "HIGH"
      [] OTHER -> "CRITICAL"

\* Mutant: the approval is asked above MEDIUM only.
RequiresApprovalAbove(risk) == risk \in {"HIGH", "CRITICAL"}

RequiresApproval(risk) == risk \in {"MEDIUM", "HIGH", "CRITICAL"}

IsOperationAllowed(risk) == risk # "CRITICAL"

Goto(o, at) == op' = [op EXCEPT ![o] = [@ EXCEPT !.at = at]]

\* write_action_audit of an outcome, and the return of its result after it.
Conclude(o, status) ==
    /\ StartWrite(o, <<o, status>>)
    /\ op' = [op EXCEPT ![o] = [@ EXCEPT !.at = "outcome", !.cause = "none",
                                         !.status = status]]
    /\ UNCHANGED <<log, torn, locked, reader>>

\* An exception nothing below execute_action_proposal catches.
Unhandled(o) == Conclude(o, "FAILED_UNHANDLED")

Same == UNCHANGED <<auditVars, controls, index, analyzed>>

SameButAudit == UNCHANGED <<controls, index, analyzed>>

-----------------------------------------------------------------------------
(* execute_action_proposal *)

RequestAction(o) ==
    /\ op[o].at = "start"
    /\ StartWrite(o, <<o, "INTENT_RECEIVED">>)
    /\ Goto(o, "intent")
    /\ UNCHANGED <<log, torn, locked, reader, controls, index, analyzed>>

\* Without a durable intent nothing is attempted, or even audited.
IntentRecorded(o) ==
    /\ op[o].at = "intent"
    /\ writer[o].at = "ended"
    /\ IF writer[o].written
       THEN Goto(o, "gate")
       ELSE op' = [op EXCEPT ![o] = [@ EXCEPT
                        !.at = "returned",
                        !.status = "BLOCKED_AUDIT_UNAVAILABLE"]]
    /\ Same

\* The runtime policy, before anything is asked or measured.
PolicyGate(o) ==
    /\ op[o].at = "gate"
    /\ IF Permitted(op[o].kind)
       THEN Goto(o, "validate") /\ UNCHANGED auditVars
       ELSE Conclude(o, "BLOCKED_RUNTIME_POLICY")
    /\ SameButAudit

AfterValidation(o) ==
    CASE op[o].kind = "REWRITE_QUERY" -> "compare"
      [] RequiresApproval(AssessRisk(op[o].kind)) -> "approve"
      [] OTHER -> "before"

\* validate_action_proposal, of a well-formed proposal or not. The catalog must
\* show the table, the column and, for a new index, no index on it already; it
\* is read through an observer connection, which the policy may refuse.
ValidateProposal(o) ==
    /\ op[o].at = "validate"
    /\ \/ Conclude(o, "BLOCKED_VALIDATION")
       \/ /\ op[o].kind # "REWRITE_QUERY"
          /\ Unhandled(o)
       \/ /\ op[o].kind = "CREATE_INDEX" => index = "nobody"
          /\ op[o].kind # "REWRITE_QUERY" => Permitted("OBSERVE")
          /\ IF IsOperationAllowed(AssessRisk(op[o].kind))
             THEN Goto(o, AfterValidation(o)) /\ UNCHANGED auditVars
             ELSE Conclude(o, "BLOCKED")
    /\ SameButAudit

\* Anything but y cancels; the end of the input raises.
Approve(o) ==
    /\ op[o].at = "approve"
    /\ \/ /\ op' = [op EXCEPT ![o] = [@ EXCEPT !.at = "before", !.approved = TRUE]]
          /\ UNCHANGED auditVars
       \/ Conclude(o, "CANCELLED")
       \/ Unhandled(o)
    /\ SameButAudit

\* Mutant: the result does not depend on its audit.
OutcomeUnqualified(o) ==
    /\ op[o].at = "outcome"
    /\ writer[o].at = "ended"
    /\ Goto(o, "returned")
    /\ Same

\* Only a success is qualified by an audit that failed; every other outcome
\* stands as it is.
Qualified(o) ==
    IF ~writer[o].written /\ op[o].status = "SUCCESS"
    THEN "SUCCESS_AUDIT_FAILED" ELSE op[o].status

\* write_action_audit returns.
OutcomeRecorded(o) ==
    /\ op[o].at = "outcome"
    /\ writer[o].at = "ended"
    /\ op' = [op EXCEPT ![o] = [@ EXCEPT !.at = "returned", !.status = Qualified(o)]]
    /\ Same

-----------------------------------------------------------------------------
(* Measurements *)

\* _run_explain with ANALYZE after its preflight: what get_query_plan asks.
PlanPermitted == Permitted("EXPLAIN_ANALYZE") /\ Permitted("OBSERVE")

\* benchmark_query asks before every sample, and then for its plan.
BenchmarkPermitted == Permitted("BENCHMARK") /\ PlanPermitted

\* The evidence before an action: a benchmark with the plan for an index, the
\* plan and the statistics for ANALYZE. Refused or failed, it raises.
CaptureBefore(o) ==
    /\ op[o].at = "before"
    /\ \/ /\ IF op[o].kind = "CREATE_INDEX" THEN BenchmarkPermitted
                                            ELSE PlanPermitted
          /\ Goto(o, "connect")
          /\ UNCHANGED auditVars
       \/ Unhandled(o)
    /\ SameButAudit

\* The evidence after ANALYZE, and its deterministic acceptance.
CaptureAfterAnalyze(o) ==
    /\ op[o].at = "after"
    /\ op[o].kind = "ANALYZE_TABLE"
    /\ \/ PlanPermitted /\ \E status \in Refreshed : Conclude(o, status)
       \/ Unhandled(o)
    /\ SameButAudit

\* The evidence after CREATE INDEX. An exception starts the rollback.
CaptureAfterIndex(o) ==
    /\ op[o].at = "after"
    /\ op[o].kind = "CREATE_INDEX"
    /\ \/ /\ BenchmarkPermitted
          /\ Goto(o, "measure")
       \/ op' = [op EXCEPT ![o] = [@ EXCEPT !.at = "rollback",
                                            !.cause = "unverified"]]
    /\ Same

\* compare_query_results, on one snapshot.
CompareResults(o) ==
    /\ op[o].at = "compare"
    /\ \/ /\ Permitted("COMPARE_QUERY_RESULTS") /\ Permitted("OBSERVE")
          /\ \/ Goto(o, "measure") /\ UNCHANGED auditVars
             \/ Conclude(o, "BLOCKED_SNAPSHOT_MISMATCH")
       \/ Unhandled(o)
    /\ SameButAudit

\* Both queries are measured, and nothing is changed whatever they show.
MeasureRewrite(o) ==
    /\ op[o].at = "measure"
    /\ op[o].kind = "REWRITE_QUERY"
    /\ \/ /\ BenchmarkPermitted
          /\ \E status \in {"REWRITE_ACCEPTED", "REWRITE_REJECTED"} :
                Conclude(o, status)
       \/ Unhandled(o)
    /\ SameButAudit

-----------------------------------------------------------------------------
(* Mutations *)

\* The statement of an action fails, which its executor catches.
Fail(o) == Conclude(o, "FAILED")

\* create_index and analyze_table ask the policy, then connect.
Connect(o) ==
    /\ op[o].at = "connect"
    /\ \/ Permitted(op[o].kind) /\ Goto(o, "execute") /\ UNCHANGED auditVars
       \/ Fail(o)
    /\ SameButAudit

\* Mutant: what the question before the connection said is relied upon.
CreateIndexUnasked(o) ==
    /\ op[o].at = "execute"
    /\ op[o].kind = "CREATE_INDEX"
    /\ \/ /\ index = "nobody"
          /\ index' = o
          /\ Goto(o, "after") /\ UNCHANGED auditVars
       \/ Fail(o) /\ UNCHANGED index
    /\ UNCHANGED <<controls, analyzed>>

\* They ask again and execute; the commit is that of the connection's exit, and
\* its acknowledgement may be lost.
CreateIndex(o) ==
    /\ op[o].at = "execute"
    /\ op[o].kind = "CREATE_INDEX"
    /\ \/ /\ Permitted("CREATE_INDEX")
          /\ index = "nobody"
          /\ index' = o
          /\ \/ Goto(o, "after") /\ UNCHANGED auditVars
             \/ Fail(o)
       \/ Fail(o) /\ UNCHANGED index
    /\ UNCHANGED <<controls, analyzed>>

AnalyzeTable(o) ==
    /\ op[o].at = "execute"
    /\ op[o].kind = "ANALYZE_TABLE"
    /\ \/ /\ Permitted("ANALYZE_TABLE")
          /\ analyzed' = analyzed \cup {o}
          /\ \/ Goto(o, "after") /\ UNCHANGED auditVars
             \/ Fail(o)
       \/ Fail(o) /\ UNCHANGED analyzed
    /\ UNCHANGED <<controls, index>>

\* The index is kept if the query became faster by the minimum and its plan has
\* a scan of an index of that name.
DecideIndex(o) ==
    /\ op[o].at = "measure"
    /\ op[o].kind = "CREATE_INDEX"
    /\ \/ Conclude(o, "SUCCESS")
       \/ /\ op' = [op EXCEPT ![o] = [@ EXCEPT !.at = "rollback",
                                               !.cause = "measured"]]
          /\ UNCHANGED auditVars
    /\ SameButAudit

\* drop_index asks the policy, connects and compares the identity the name has
\* now with that of the index created.
CheckRollbackTarget(o) ==
    /\ op[o].at = "rollback"
    /\ \/ /\ Permitted("DROP_INDEX")
          /\ index = o
          /\ Goto(o, "drop")
          /\ UNCHANGED auditVars
       \/ Conclude(o, "ROLLBACK_FAILED")
    /\ SameButAudit

\* Mutant: the cause is taken for the status.
RollbackCause(o) == op[o].cause

RollbackStatus(o) ==
    IF op[o].cause = "unverified" THEN "ROLLED_BACK_AFTER_VERIFICATION_ERROR"
                                  ELSE "ROLLED_BACK"

\* Mutant: a drop that failed is taken for done.
DropIndexUnheeded(o) ==
    /\ op[o].at = "drop"
    /\ \/ index # "nobody" /\ index' = "nobody"
       \/ UNCHANGED index
    /\ Conclude(o, RollbackStatus(o))
    /\ UNCHANGED <<controls, analyzed>>

\* Then it asks again and drops by name, whatever has the name by now.
DropIndex(o) ==
    /\ op[o].at = "drop"
    /\ \/ /\ Permitted("DROP_INDEX")
          /\ index # "nobody"
          /\ index' = "nobody"
          /\ Conclude(o, RollbackStatus(o)) \/ Conclude(o, "ROLLBACK_FAILED")
       \/ Conclude(o, "ROLLBACK_FAILED") /\ UNCHANGED index
    /\ UNCHANGED <<controls, analyzed>>

-----------------------------------------------------------------------------
(* Disturbances *)

\* The process ends, or Ctrl-C ends the action: no exception handler of the
\* executor catches it, so that neither a rollback nor an outcome follows.
Die(o) ==
    /\ "crash" \in Disturbances
    /\ op[o].at \notin {"start", "returned", "dead"}
    /\ op' = [op EXCEPT ![o] = [@ EXCEPT !.at = "dead", !.cause = "none"]]
    /\ WriterDies(o)
    /\ SameButAudit

\* The operator replaces the controls file, which takes effect at once.
SetControls ==
    /\ "controls" \in Disturbances
    /\ controls' \in {Missing} \cup ControlStates
    /\ controls' # controls
    /\ UNCHANGED <<auditVars, opVars>>

\* Another session creates an index of that name, or drops the one there is.
OtherSession ==
    /\ "dba" \in Disturbances
    /\ index' = IF index = "nobody" THEN "dba" ELSE "nobody"
    /\ UNCHANGED <<auditVars, controls, analyzed, op>>

OperationStep(o) ==
    \/ RequestAction(o)
    \/ IntentRecorded(o)
    \/ PolicyGate(o)
    \/ ValidateProposal(o)
    \/ Approve(o)
    \/ CaptureBefore(o)
    \/ Connect(o)
    \/ CreateIndex(o)
    \/ AnalyzeTable(o)
    \/ CaptureAfterAnalyze(o)
    \/ CaptureAfterIndex(o)
    \/ CompareResults(o)
    \/ MeasureRewrite(o)
    \/ DecideIndex(o)
    \/ CheckRollbackTarget(o)
    \/ DropIndex(o)
    \/ OutcomeRecorded(o)

Next ==
    \/ AuditStep /\ UNCHANGED <<controls, opVars>>
    \/ \E o \in Writers : OperationStep(o) \/ Die(o)
    \/ SetControls
    \/ OtherSession

Spec == Init /\ [][Next]_vars

-----------------------------------------------------------------------------
(* Safety *)

Recorded == {log[i].record : i \in DOMAIN log}

\* An index is there and statistics were refreshed only for an action whose intent
\* is in the log and that the operator approved, whatever crashed, was refused or
\* raced since.
MutationsAreAccounted ==
    \A o \in Writers : index = o \/ o \in analyzed =>
        <<o, "INTENT_RECEIVED">> \in Recorded /\ op[o].approved

\* An outcome tells the truth about the database: none of a refused, cancelled or
\* rolled back action is left there, and statistics reported on were refreshed.
OutcomesTellTheTruth ==
    \A o \in Writers : op[o].at = "returned" =>
        /\ op[o].status \in CleanRefusals => index # o /\ o \notin analyzed
        /\ op[o].status \in RolledBack => index # o
        /\ op[o].status \in Refreshed => o \in analyzed

\* An action returns a success only when the log has it, and the log never has
\* two outcomes of one action or one that contradicts what was returned.
OutcomesAreRecorded ==
    \A o \in Writers :
        LET outcomes == {r \in Recorded : r[1] = o} \ {<<o, "INTENT_RECEIVED">>} IN
        /\ op[o].at = "returned" /\ op[o].status = "SUCCESS" =>
                <<o, "SUCCESS">> \in outcomes
        /\ \A r \in outcomes :
            \/ r[2] = op[o].status
            \/ r[2] = "SUCCESS" /\ op[o].status = "SUCCESS_AUDIT_FAILED"

\* What the policy admits now can be carried through under it: an admitted action
\* finds its measurements admitted, and for an index the drop that undoes it.
AdmittedActionsCanFinish ==
    /\ Permitted("CREATE_INDEX") => BenchmarkPermitted /\ Permitted("DROP_INDEX")
    /\ Permitted("ANALYZE_TABLE") => PlanPermitted
    /\ Permitted("REWRITE_QUERY") =>
            BenchmarkPermitted /\ Permitted("COMPARE_QUERY_RESULTS")

\* An action with a statement that it has not executed yet, and one that is over.
Unexecuted ==
    {"start", "intent", "gate", "validate", "approve", "before", "connect", "execute"}

Over == {"outcome", "returned", "dead"}

\* The action has made no mutation, and does not say that it has.
Untouched(o) ==
    /\ op[o].at \in Unexecuted \cup Over
    /\ index # o /\ o \notin analyzed
    /\ op[o].status \in {"none", "FAILED", "FAILED_UNHANDLED"} \cup CleanRefusals

\* Stop controls that come between two questions of an action hold for all it has
\* not done yet, whatever it was admitted to before, and "also apply to rollback
\* mutations" (docs/OPERATIONS.md:237). As long as they stay, an action they deny
\* that has changed nothing goes on to its end without changing or claiming
\* anything; and where they deny the drop, no action drops an index or becomes one
\* that says it was rolled back. The last question and the statement it admits are
\* one step: a stop between the two does not cancel the statement.
StopsTakeHold ==
    [][controls' = controls =>
        /\ \A o \in Writers :
            op[o].kind \in Mutations /\ Untouched(o) /\ ~Untouched(o)' =>
                Permitted(op[o].kind)
        /\ \/ \E o \in Writers :
                op'[o].status \in RolledBack /\ op[o].status \notin RolledBack
           \/ index # "nobody" /\ op' # op /\ index' # index
           => Permitted("DROP_INDEX")]_vars

=============================================================================
