--------------------------- MODULE MaintenanceProofs ---------------------------
(***************************************************************************)
(* The maintenance executors and their audit log, for every value of the     *)
(* constants: stop controls take hold of what is still ahead of an action,    *)
(* the outcomes are true of the database, every mutation has its intent and   *)
(* its approval, every outcome its one record, and the log is one chain under *)
(* any number of writers, who may die at any moment.                         *)
(***************************************************************************)
EXTENDS Maintenance, FiniteSetTheorems, TLAPS

-----------------------------------------------------------------------------
(* The controls *)

ControlsInv == controls \in ControlFiles

LEMMA MissingIsAFile == Missing \in ControlFiles
  BY DEF Missing, ControlFiles

LEMMA BlockedByOne ==
    ASSUME NEW denials
    PROVE  \A operation : operation \in BlockedByDenials(denials) <=>
                \/ \E s \in denials.switches : operation \in BlockedBySwitch(s)
                \/ \E a \in denials.actions : operation \in BlockedByAction(a)
<1> DEFINE bySwitch == UNION {BlockedBySwitch(s) : s \in denials.switches}
           byAction == UNION {BlockedByAction(a) : a \in denials.actions}
<1>1. \A x : x \in bySwitch <=> \E s \in denials.switches : x \in BlockedBySwitch(s)
  OBVIOUS
<1>2. \A x : x \in byAction <=> \E a \in denials.actions : x \in BlockedByAction(a)
  OBVIOUS
<1>3. BlockedByDenials(denials) = bySwitch \cup byAction
  BY DEF BlockedByDenials
<1> HIDE DEF bySwitch, byAction
<1>4. \A x : x \in BlockedByDenials(denials) <=> x \in bySwitch \/ x \in byAction
  BY <1>3
<1> QED
  BY <1>1, <1>2, <1>4

LEMMA ControlsInitially == Init => ControlsInv
  BY MissingIsAFile DEF Init, ControlsInv

\* Only the operator changes the file.
LEMMA StepsOfTheControls == [Next]_vars => SetControls \/ UNCHANGED controls
<1> SUFFICES ASSUME [Next]_vars
             PROVE  SetControls \/ UNCHANGED controls
  OBVIOUS
<1>1. ASSUME NEW o \in Writers, OperationStep(o) \/ Die(o)
      PROVE  UNCHANGED controls
  BY <1>1 DEF OperationStep, RequestAction, IntentRecorded, PolicyGate,
     ValidateProposal, Approve, CaptureBefore, Connect, CreateIndex, AnalyzeTable,
     CaptureAfterAnalyze, CaptureAfterIndex, CompareResults, MeasureRewrite,
     DecideIndex, CheckRollbackTarget, DropIndex, OutcomeRecorded, Die, Same,
     SameButAudit
<1> QED
  BY <1>1 DEF Next, OtherSession, vars

LEMMA ControlsStep == ControlsInv /\ [Next]_vars => ControlsInv'
  BY StepsOfTheControls, MissingIsAFile, SettingsAssumption
     DEF ControlsInv, SetControls

\* What is blocked takes with it the actions that need it.
TakesItsActions(blocked) ==
    /\ "OBSERVE" \in blocked \/ "EXPLAIN_ANALYZE" \in blocked =>
            {"CREATE_INDEX", "ANALYZE_TABLE", "REWRITE_QUERY"} \subseteq blocked
    /\ "BENCHMARK" \in blocked => {"CREATE_INDEX", "REWRITE_QUERY"} \subseteq blocked
    /\ "COMPARE_QUERY_RESULTS" \in blocked => "REWRITE_QUERY" \in blocked
    /\ "DROP_INDEX" \in blocked => "CREATE_INDEX" \in blocked

LEMMA SwitchesTakeTheirActions ==
    ASSUME NEW s \in Switches
    PROVE  TakesItsActions(BlockedBySwitch(s))
<1> USE DEF BlockedBySwitch, TakesItsActions, Operations, Mutations, ActionTypes
<1>1. CASE s = "agent"
  BY <1>1
<1>2. CASE s = "mutations"
  BY <1>2
<1>3. CASE s = "benchmarks"
  BY <1>3
<1>4. CASE s = "runtime_analysis"
  BY <1>4
<1> QED
  BY <1>1, <1>2, <1>3, <1>4 DEF Switches

LEMMA DenialsTakeTheirActions ==
    ASSUME NEW denials \in Denials
    PROVE  TakesItsActions(BlockedByDenials(denials))
<1>1. denials.switches \subseteq Switches /\ denials.actions \subseteq ActionTypes
  BY DEF Denials
<1>2. \A a \in denials.actions : TakesItsActions(BlockedByAction(a))
  BY <1>1 DEF BlockedByAction, TakesItsActions, ActionTypes
<1>3. \A s \in denials.switches : TakesItsActions(BlockedBySwitch(s))
  BY <1>1, SwitchesTakeTheirActions
<1> QED
  BY <1>2, <1>3, BlockedByOne DEF TakesItsActions

\* Under no settings and no controls is an action admitted whose measurements, or
\* for an index whose rollback, are not.
THEOREM AdmittedCanFinish == Spec => []AdmittedActionsCanFinish
<1>1. ControlsInv => AdmittedActionsCanFinish
  <2> SUFFICES ASSUME ControlsInv
               PROVE  AdmittedActionsCanFinish
    OBVIOUS
  <2> DEFINE environment == BlockedByEnvironment(StartupSettings.environment)
             started == BlockedByDenials(StartupSettings.denials)
             filed == BlockedByDenials(controls.denials)
             blocked == Blocked(StartupSettings, controls)
  <2>1. CASE ~PolicyIsValid(StartupSettings, controls)
    BY <2>1 DEF Blocked, AdmittedActionsCanFinish, Permitted, Allowed
  <2>2. CASE PolicyIsValid(StartupSettings, controls)
    <3>1. StartupSettings.denials \in Denials /\ controls.denials \in Denials
      BY SettingsAssumption
         DEF ControlsInv, ControlFiles, Settings, NoDenials, Denials
    <3>2. TakesItsActions(started) /\ TakesItsActions(filed)
      BY <3>1, DenialsTakeTheirActions
    <3>3. "OBSERVE" \notin environment /\ TakesItsActions(environment)
      BY DEF BlockedByEnvironment, TakesItsActions
    <3>4. blocked = environment \cup started \cup filed
      BY <2>2 DEF Blocked
    <3> HIDE DEF environment, started, filed
    <3>5. TakesItsActions(blocked)
      BY <3>2, <3>3, <3>4 DEF TakesItsActions
    <3> HIDE DEF blocked
    <3>6. \A operation : Permitted(operation) <=>
                            operation \in Operations \ blocked
      BY DEF Permitted, Allowed, blocked
    <3> QED
      BY <3>5, <3>6 DEF TakesItsActions, AdmittedActionsCanFinish,
         BenchmarkPermitted, PlanPermitted, Operations, Mutations
  <2> QED
    BY <2>1, <2>2
<1> QED
  BY <1>1, ControlsInitially, ControlsStep, PTL DEF Spec

-----------------------------------------------------------------------------
(* The actions *)

OpsOK == op \in [Writers -> Operation]

\* The operation of o after a step of its own, field by field; no other changes.
OpIs(o, at, approved, status) ==
    /\ op' \in [Writers -> Operation]
    /\ op'[o].kind = op[o].kind
    /\ op'[o].at = at
    /\ op'[o].approved = approved
    /\ op'[o].status = status
    /\ \A p \in Writers \ {o} : op'[p] = op[p]

Ats == {"start", "intent", "gate", "validate", "approve", "before", "compare",
        "connect", "execute", "after", "measure", "rollback", "drop", "outcome",
        "returned", "dead"}

Causes == {"none", "measured", "unverified"}

\* The record v is the operation r with these fields, whatever its cause.
IsChanged(r, v, at, approved, status) ==
    /\ v \in Operation
    /\ v.kind = r.kind
    /\ v.at = at
    /\ v.approved = approved
    /\ v.status = status

LEMMA Changes ==
    ASSUME NEW r \in Operation, NEW at \in Ats, NEW cause \in Causes,
           NEW status \in Statuses \cup {"none"}
    PROVE  /\ IsChanged(r, [r EXCEPT !.at = at], at, r.approved, r.status)
           /\ IsChanged(r, [r EXCEPT !.at = at, !.cause = cause],
                        at, r.approved, r.status)
           /\ IsChanged(r, [r EXCEPT !.at = at, !.status = status],
                        at, r.approved, status)
           /\ IsChanged(r, [r EXCEPT !.at = at, !.cause = cause, !.status = status],
                        at, r.approved, status)
           /\ IsChanged(r, [r EXCEPT !.at = at, !.approved = TRUE],
                        at, TRUE, r.status)
<1> DEFINE a == [r EXCEPT !.at = at]
           b == [r EXCEPT !.at = at, !.cause = cause]
           c == [r EXCEPT !.at = at, !.status = status]
           d == [r EXCEPT !.at = at, !.cause = cause, !.status = status]
           e == [r EXCEPT !.at = at, !.approved = TRUE]
<1>1. a.approved = r.approved /\ b.approved = r.approved
  BY DEF Operation, Ats, Causes
<1>2. c.approved = r.approved /\ d.approved = r.approved
  BY DEF Operation, Ats, Causes
<1>3. e.approved = TRUE
  BY DEF Operation
<1>4. a \in Operation /\ a.kind = r.kind /\ a.at = at /\ a.status = r.status
  BY DEF Operation, Ats
<1>5. b \in Operation /\ b.kind = r.kind /\ b.at = at /\ b.status = r.status
  BY DEF Operation, Ats, Causes
<1>6. c \in Operation /\ c.kind = r.kind /\ c.at = at /\ c.status = status
  BY DEF Operation, Ats
<1>7. d \in Operation /\ d.kind = r.kind /\ d.at = at /\ d.status = status
  BY DEF Operation, Ats, Causes
<1>8. e \in Operation /\ e.kind = r.kind /\ e.at = at /\ e.status = r.status
  BY DEF Operation, Ats
<1> HIDE DEF a, b, c, d, e
<1>9. /\ IsChanged(r, a, at, r.approved, r.status)
      /\ IsChanged(r, b, at, r.approved, r.status)
      /\ IsChanged(r, c, at, r.approved, status)
      /\ IsChanged(r, d, at, r.approved, status)
      /\ IsChanged(r, e, at, TRUE, r.status)
  BY <1>1, <1>2, <1>3, <1>4, <1>5, <1>6, <1>7, <1>8 DEF IsChanged
<1> QED
  BY <1>9 DEF a, b, c, d, e

LEMMA FieldsOfOperation ==
    ASSUME OpsOK, NEW o \in Writers
    PROVE  /\ op[o] \in Operation
           /\ op[o].kind \in Kinds /\ op[o].at \in Ats
           /\ op[o].approved \in BOOLEAN /\ op[o].cause \in Causes
           /\ op[o].status \in Statuses \cup {"none"}
  BY DEF OpsOK, Operation, Ats, Causes

LEMMA NextOperation ==
    ASSUME OpsOK, NEW o \in Writers, NEW v, NEW at, NEW approved, NEW status,
           IsChanged(op[o], v, at, approved, status), op' = [op EXCEPT ![o] = v]
    PROVE  OpIs(o, at, approved, status)
  BY DEF OpsOK, OpIs, IsChanged

LEMMA GotoMoves ==
    ASSUME OpsOK, NEW o \in Writers, NEW at \in Ats, Goto(o, at)
    PROVE  OpIs(o, at, op[o].approved, op[o].status)
<1> DEFINE v == [op[o] EXCEPT !.at = at]
<1>1. op' = [op EXCEPT ![o] = v]
  BY DEF Goto
<1>2. IsChanged(op[o], v, at, op[o].approved, op[o].status)
  BY FieldsOfOperation, Changes DEF Ats, Causes
<1> HIDE DEF v
<1> QED
  BY <1>1, <1>2, FieldsOfOperation, NextOperation

LEMMA ConcludeMoves ==
    ASSUME OpsOK, NEW o \in Writers, NEW status \in Statuses, Conclude(o, status)
    PROVE  OpIs(o, "outcome", op[o].approved, status)
<1> DEFINE v == [op[o] EXCEPT !.at = "outcome", !.cause = "none", !.status = status]
<1>1. op' = [op EXCEPT ![o] = v]
  BY DEF Conclude
<1>2. IsChanged(op[o], v, "outcome", op[o].approved, status)
  BY FieldsOfOperation, Changes DEF Ats, Causes
<1>3. "outcome" \in Ats /\ "none" \in Causes
  BY DEF Ats, Causes
<1> HIDE DEF v
<1> QED
  BY <1>1, <1>2, <1>3, FieldsOfOperation, NextOperation

LEMMA RollbackMoves ==
    ASSUME OpsOK, NEW o \in Writers, NEW cause \in Causes,
           op' = [op EXCEPT ![o] = [@ EXCEPT !.at = "rollback", !.cause = cause]]
    PROVE  OpIs(o, "rollback", op[o].approved, op[o].status)
<1> DEFINE v == [op[o] EXCEPT !.at = "rollback", !.cause = cause]
<1>1. op' = [op EXCEPT ![o] = v]
  OBVIOUS
<1>2. IsChanged(op[o], v, "rollback", op[o].approved, op[o].status)
  BY FieldsOfOperation, Changes DEF Ats, Causes
<1>3. "rollback" \in Ats
  BY DEF Ats
<1> HIDE DEF v
<1> QED
  BY <1>1, <1>2, <1>3, FieldsOfOperation, NextOperation

-----------------------------------------------------------------------------
(* What the outcomes say *)

\* An action that has not executed yet.
Pre == {"start", "intent", "gate", "validate", "approve", "before", "compare",
        "connect", "execute"}

\* What the outcome of o says, if it says it.
Tells(o, status, anIndex, done) ==
    /\ status \in CleanRefusals => anIndex # o /\ o \notin done
    /\ status \in RolledBack => anIndex # o
    /\ status \in Refreshed => o \in done

Truth(o) ==
    /\ op[o].at \in Pre => index # o /\ o \notin analyzed
    /\ op[o].at = "after" /\ op[o].kind = "ANALYZE_TABLE" => o \in analyzed
    /\ op[o].at \in {"outcome", "returned"} =>
            Tells(o, op[o].status, index, analyzed)

TruthInv == OpsOK /\ \A o \in Writers : Truth(o)

\* A step of o that the other actions do not see.
Private(o) ==
    /\ \A p \in Writers \ {o} : index' = p => index = p
    /\ analyzed \subseteq analyzed' /\ analyzed' \subseteq analyzed \cup {o}

\* A conclusion that tells what is so.
LEMMA ConcludeIsTrue ==
    ASSUME TruthInv, NEW o \in Writers, NEW status \in Statuses,
           Conclude(o, status), Private(o), Tells(o, status, index', analyzed')
    PROVE  TruthInv'
<1>1. OpIs(o, "outcome", op[o].approved, status)
  BY ConcludeMoves DEF TruthInv
<1>2. Truth(o)'
  BY <1>1 DEF OpIs, Truth, Pre
<1>3. ASSUME NEW p \in Writers \ {o}
      PROVE  Truth(p)'
  BY <1>1, <1>3 DEF OpIs, Truth, TruthInv, Tells, Private
<1> QED
  BY <1>1, <1>2, <1>3 DEF TruthInv, OpIs, OpsOK

\* A step within the action.
LEMMA MoveIsTrue ==
    ASSUME TruthInv, NEW o \in Writers, NEW at, NEW approved, NEW status,
           OpIs(o, at, approved, status), Private(o),
           at \notin {"outcome", "returned"},
           at \in Pre => op[o].at \in Pre /\ UNCHANGED <<index, analyzed>>,
           at = "after" /\ op[o].kind = "ANALYZE_TABLE" => o \in analyzed'
    PROVE  TruthInv'
<1>1. Truth(o)'
  BY DEF OpIs, Truth, TruthInv
<1>2. ASSUME NEW p \in Writers \ {o}
      PROVE  Truth(p)'
  BY <1>2 DEF OpIs, Truth, TruthInv, Tells, Private
<1> QED
  BY <1>1, <1>2 DEF TruthInv, OpIs, OpsOK

LEMMA TruthInitially == Init => TruthInv
<1> SUFFICES ASSUME Init
             PROVE  TruthInv
  OBVIOUS
<1>1. PICK kind \in [Writers -> Kinds] :
        op = [o \in Writers |-> [kind |-> kind[o], at |-> "start",
                                 approved |-> FALSE, cause |-> "none",
                                 status |-> "none"]]
  BY DEF Init
<1>2. index = "nobody" /\ analyzed = {}
  BY DEF Init
<1>3. ASSUME NEW o \in Writers
      PROVE  /\ op[o] = [kind |-> kind[o], at |-> "start", approved |-> FALSE,
                         cause |-> "none", status |-> "none"]
             /\ op[o] \in Operation /\ op[o].at = "start"
  BY <1>1, <1>3 DEF Operation
<1>4. OpsOK
  BY <1>1, <1>3 DEF OpsOK
<1>5. ASSUME NEW o \in Writers
      PROVE  Truth(o)
  BY <1>2, <1>3, WritersAssumption DEF Truth
<1> QED
  BY <1>4, <1>5 DEF TruthInv

\* Where no mutation has been made an action may conclude with anything but a
\* refresh of statistics.
LEMMA ConcludeBefore ==
    ASSUME TruthInv, NEW o \in Writers, NEW status \in Statuses \ Refreshed,
           Conclude(o, status), op[o].at \in Pre, UNCHANGED <<index, analyzed>>
    PROVE  TruthInv'
<1>1. index' # o /\ o \notin analyzed'
  BY DEF TruthInv, Truth
<1> QED
  BY <1>1, ConcludeIsTrue DEF Tells, Private

\* And anywhere with one that says nothing of the database.
LEMMA ConcludeDoubtfully ==
    ASSUME TruthInv, NEW o \in Writers,
           NEW status \in Doubtful \cup {"SUCCESS", "REWRITE_ACCEPTED",
                                         "REWRITE_REJECTED"},
           Conclude(o, status), Private(o)
    PROVE  TruthInv'
<1>1. status \in Statuses /\ Tells(o, status, index', analyzed')
  BY DEF Statuses, Doubtful, Tells, CleanRefusals, RolledBack, Refreshed
<1> QED
  BY <1>1, ConcludeIsTrue

LEMMA TruthStep == TruthInv /\ [Next]_vars => TruthInv'
<1> SUFFICES ASSUME TruthInv, [Next]_vars
             PROVE  TruthInv'
  OBVIOUS
<1> USE DEF Pre
<1>0. OpsOK
  BY DEF TruthInv
<1>1. ASSUME UNCHANGED op, UNCHANGED analyzed, index' \in {index, "dba", "nobody"}
      PROVE  TruthInv'
  <2>1. \A o \in Writers : index' = o => index = o
    BY <1>1, WritersAssumption
  <2> QED
    BY <1>1, <2>1 DEF TruthInv, Truth, Tells, OpsOK
<1>2. CASE AuditStep /\ UNCHANGED <<controls, opVars>>
  BY <1>1, <1>2 DEF opVars
<1>3. CASE SetControls
  BY <1>1, <1>3 DEF SetControls, opVars
<1>4. CASE OtherSession
  BY <1>1, <1>4 DEF OtherSession
<1>5. CASE UNCHANGED vars
  BY <1>1, <1>5 DEF vars, opVars
<1>6. ASSUME NEW o \in Writers, UNCHANGED <<index, analyzed>>
      PROVE  Private(o)
  BY <1>6 DEF Private
<1>7. ASSUME NEW o \in Writers, NEW at \in Ats \ {"outcome", "returned"}, Goto(o, at),
             UNCHANGED <<index, analyzed>>,
             at \in Pre => op[o].at \in Pre, at # "after"
      PROVE  TruthInv'
  BY <1>0, <1>6, <1>7, GotoMoves, MoveIsTrue
<1>8. ASSUME NEW o \in Writers,
             RequestAction(o) \/ PolicyGate(o) \/ ValidateProposal(o)
      PROVE  TruthInv'
  <2>1. CASE RequestAction(o)
    BY <1>7, <2>1 DEF RequestAction, Ats
  <2>2. CASE PolicyGate(o)
    <3>1. CASE Goto(o, "validate")
      BY <1>7, <2>2, <3>1 DEF PolicyGate, SameButAudit, Ats
    <3>2. CASE Conclude(o, "BLOCKED_RUNTIME_POLICY")
      BY <2>2, <3>2, ConcludeBefore
         DEF PolicyGate, SameButAudit, Statuses, CleanRefusals, Refreshed
    <3> QED
      BY <2>2, <3>1, <3>2 DEF PolicyGate
  <2>3. CASE ValidateProposal(o)
    <3>1. CASE Goto(o, AfterValidation(o))
      <4>1. AfterValidation(o) \in {"compare", "approve", "before"}
        BY DEF AfterValidation
      <4> QED
        BY <1>7, <2>3, <3>1, <4>1 DEF ValidateProposal, SameButAudit, Ats
    <3>2. CASE Conclude(o, "BLOCKED_VALIDATION")
      BY <2>3, <3>2, ConcludeBefore
         DEF ValidateProposal, SameButAudit, Statuses, CleanRefusals, Refreshed
    <3>3. CASE Conclude(o, "BLOCKED")
      BY <2>3, <3>3, ConcludeBefore
         DEF ValidateProposal, SameButAudit, Statuses, CleanRefusals, Refreshed
    <3>4. CASE Unhandled(o)
      BY <2>3, <3>4, ConcludeBefore
         DEF ValidateProposal, SameButAudit, Unhandled, Statuses, Doubtful, Refreshed
    <3> QED
      BY <2>3, <3>1, <3>2, <3>3, <3>4 DEF ValidateProposal
  <2> QED
    BY <1>8, <2>1, <2>2, <2>3
<1>9. ASSUME NEW o \in Writers, IntentRecorded(o)
      PROVE  TruthInv'
  <2>1. CASE Goto(o, "gate")
    BY <1>7, <1>9, <2>1 DEF IntentRecorded, Same, Ats
  <2>2. CASE op' = [op EXCEPT ![o] = [@ EXCEPT
                        !.at = "returned", !.status = "BLOCKED_AUDIT_UNAVAILABLE"]]
    <3> DEFINE status == "BLOCKED_AUDIT_UNAVAILABLE"
               v == [op[o] EXCEPT !.at = "returned", !.status = status]
    <3>1. op' = [op EXCEPT ![o] = v]
      BY <2>2
    <3>2. status \in Statuses
      BY DEF Statuses, CleanRefusals
    <3> HIDE DEF status
    <3>3. IsChanged(op[o], v, "returned", op[o].approved, status)
      BY <1>0, <3>2, FieldsOfOperation, Changes DEF Ats, Causes
    <3> HIDE DEF v
    <3>4. OpIs(o, "returned", op[o].approved, status)
      BY <1>0, <3>1, <3>3, NextOperation
    <3>5. /\ index' = index /\ analyzed' = analyzed
          /\ index # o /\ o \notin analyzed
      BY <1>9 DEF IntentRecorded, Same, TruthInv, Truth
    <3>6. Truth(o)'
      BY <3>4, <3>5 DEF OpIs, Truth, Tells, status, Refreshed
    <3>7. ASSUME NEW p \in Writers \ {o}
          PROVE  Truth(p)'
      BY <3>4, <3>5, <3>7 DEF OpIs, Truth, TruthInv, Tells
    <3> QED
      BY <3>4, <3>6, <3>7 DEF TruthInv, OpIs, OpsOK
  <2> QED
    BY <1>9, <2>1, <2>2 DEF IntentRecorded
<1>10. ASSUME NEW o \in Writers, Approve(o)
       PROVE  TruthInv'
  <2>1. CASE op' = [op EXCEPT ![o] = [@ EXCEPT !.at = "before", !.approved = TRUE]]
    <3> DEFINE v == [op[o] EXCEPT !.at = "before", !.approved = TRUE]
    <3>1. IsChanged(op[o], v, "before", TRUE, op[o].status)
      BY <1>0, FieldsOfOperation, Changes DEF Ats, Causes
    <3>2. op' = [op EXCEPT ![o] = v]
      BY <2>1
    <3> HIDE DEF v
    <3>3. OpIs(o, "before", TRUE, op[o].status)
      BY <1>0, <3>1, <3>2, FieldsOfOperation, NextOperation DEF Ats
    <3>4. op[o].at \in Pre /\ UNCHANGED <<index, analyzed>>
      BY <1>10 DEF Approve, SameButAudit
    <3>5. Private(o)
      BY <1>6, <3>4
    <3> DEFINE approved == TRUE
    <3> HIDE DEF approved
    <3>6. OpIs(o, "before", approved, op[o].status)
      BY <3>3 DEF approved
    <3> QED
      BY <3>4, <3>5, <3>6, MoveIsTrue
  <2>2. CASE Conclude(o, "CANCELLED")
    BY <1>10, <2>2, ConcludeBefore
       DEF Approve, SameButAudit, Statuses, CleanRefusals, Refreshed
  <2>3. CASE Unhandled(o)
    BY <1>10, <2>3, ConcludeBefore
       DEF Approve, SameButAudit, Unhandled, Statuses, Doubtful, Refreshed
  <2> QED
    BY <1>10, <2>1, <2>2, <2>3 DEF Approve
<1>11. ASSUME NEW o \in Writers, UNCHANGED <<index, analyzed>>,
              \/ Unhandled(o) \/ Fail(o)
              \/ \E status \in {"SUCCESS", "ROLLBACK_FAILED", "REWRITE_ACCEPTED",
                                "REWRITE_REJECTED"} : Conclude(o, status)
       PROVE  TruthInv'
  BY <1>6, <1>11, ConcludeDoubtfully DEF Unhandled, Fail, Doubtful
<1>12. ASSUME NEW o \in Writers,
              \/ CaptureBefore(o) \/ Connect(o) \/ CompareResults(o)
              \/ MeasureRewrite(o) \/ CheckRollbackTarget(o)
       PROVE  TruthInv'
  <2>1. CASE CaptureBefore(o)
    BY <1>7, <1>11, <2>1 DEF CaptureBefore, SameButAudit, Ats
  <2>2. CASE Connect(o)
    BY <1>7, <1>11, <2>2 DEF Connect, SameButAudit, Ats
  <2>3. CASE CompareResults(o)
    <3>1. CASE Conclude(o, "BLOCKED_SNAPSHOT_MISMATCH")
      BY <2>3, <3>1, ConcludeBefore
         DEF CompareResults, SameButAudit, Statuses, CleanRefusals, Refreshed
    <3> QED
      BY <1>7, <1>11, <2>3, <3>1 DEF CompareResults, SameButAudit, Ats
  <2>4. CASE MeasureRewrite(o)
    BY <1>11, <2>4 DEF MeasureRewrite, SameButAudit
  <2>5. CASE CheckRollbackTarget(o)
    BY <1>7, <1>11, <2>5 DEF CheckRollbackTarget, SameButAudit, Ats
  <2> QED
    BY <1>12, <2>1, <2>2, <2>3, <2>4, <2>5
<1>13. ASSUME NEW o \in Writers, NEW cause \in Causes, UNCHANGED <<index, analyzed>>,
              op' = [op EXCEPT ![o] = [@ EXCEPT !.at = "rollback", !.cause = cause]]
       PROVE  TruthInv'
  BY <1>0, <1>6, <1>13, RollbackMoves, MoveIsTrue, ZenonT(40)
<1>14. ASSUME NEW o \in Writers, CaptureAfterIndex(o) \/ DecideIndex(o)
       PROVE  TruthInv'
  <2>1. CASE CaptureAfterIndex(o)
    BY <1>7, <1>13, <2>1 DEF CaptureAfterIndex, Same, Ats, Causes
  <2>2. CASE DecideIndex(o)
    BY <1>11, <1>13, <2>2 DEF DecideIndex, SameButAudit, Causes
  <2> QED
    BY <1>14, <2>1, <2>2
<1>15. ASSUME NEW o \in Writers, CreateIndex(o)
       PROVE  TruthInv'
  <2>1. CASE Fail(o) /\ UNCHANGED index
    BY <1>11, <1>15, <2>1 DEF CreateIndex
  <2>2. CASE index' = o
    <3>1. Private(o)
      BY <1>15, <2>2 DEF CreateIndex, Private
    <3>2. CASE Goto(o, "after")
      <4>1. OpIs(o, "after", op[o].approved, op[o].status)
        BY <1>0, <3>2, GotoMoves DEF Ats
      <4>2. op[o].kind # "ANALYZE_TABLE"
        BY <1>15 DEF CreateIndex
      <4> QED
        BY <3>1, <4>1, <4>2, MoveIsTrue
    <3>3. CASE Fail(o)
      BY <3>1, <3>3, ConcludeDoubtfully DEF Fail, Doubtful
    <3> QED
      BY <1>15, <2>2, <3>2, <3>3 DEF CreateIndex
  <2> QED
    BY <1>15, <2>1, <2>2 DEF CreateIndex
<1>16. ASSUME NEW o \in Writers, AnalyzeTable(o)
       PROVE  TruthInv'
  <2>1. CASE Fail(o) /\ UNCHANGED analyzed
    BY <1>11, <1>16, <2>1 DEF AnalyzeTable
  <2>2. CASE analyzed' = analyzed \cup {o}
    <3>1. Private(o)
      BY <1>16, <2>2 DEF AnalyzeTable, Private
    <3>2. CASE Goto(o, "after")
      <4>1. OpIs(o, "after", op[o].approved, op[o].status)
        BY <1>0, <3>2, GotoMoves DEF Ats
      <4> QED
        BY <2>2, <3>1, <4>1, MoveIsTrue
    <3>3. CASE Fail(o)
      BY <3>1, <3>3, ConcludeDoubtfully DEF Fail, Doubtful
    <3> QED
      BY <1>16, <2>2, <3>2, <3>3 DEF AnalyzeTable
  <2> QED
    BY <1>16, <2>1, <2>2 DEF AnalyzeTable
<1>17. ASSUME NEW o \in Writers, CaptureAfterAnalyze(o)
       PROVE  TruthInv'
  <2>1. ASSUME NEW status \in Refreshed, Conclude(o, status)
        PROVE  TruthInv'
    <3>1. o \in analyzed /\ UNCHANGED <<index, analyzed>>
      BY <1>17 DEF CaptureAfterAnalyze, SameButAudit, TruthInv, Truth
    <3>2. status \in Statuses /\ Tells(o, status, index', analyzed')
      BY <3>1 DEF Statuses, Tells, CleanRefusals, RolledBack, Refreshed
    <3> QED
      BY <1>6, <2>1, <3>1, <3>2, ConcludeIsTrue
  <2> QED
    BY <1>11, <1>17, <2>1 DEF CaptureAfterAnalyze, SameButAudit
<1>18. ASSUME NEW o \in Writers, DropIndex(o)
       PROVE  TruthInv'
  <2>1. CASE Conclude(o, "ROLLBACK_FAILED") /\ UNCHANGED index
    BY <1>11, <1>18, <2>1 DEF DropIndex
  <2>2. CASE index' = "nobody"
    <3>1. index' # o /\ Private(o)
      BY <1>18, <2>2, WritersAssumption DEF DropIndex, Private
    <3>2. CASE Conclude(o, "ROLLBACK_FAILED")
      BY <3>1, <3>2, ConcludeDoubtfully DEF Doubtful
    <3>3. CASE Conclude(o, RollbackStatus(o))
      <4>1. RollbackStatus(o) \in RolledBack
        BY DEF RollbackStatus, RolledBack
      <4>2. /\ RollbackStatus(o) \in Statuses
            /\ Tells(o, RollbackStatus(o), index', analyzed')
        BY <3>1, <4>1 DEF Statuses, Tells, CleanRefusals, RolledBack, Refreshed
      <4> QED
        BY <3>1, <3>3, <4>2, ConcludeIsTrue
    <3> QED
      BY <1>18, <2>2, <3>2, <3>3, WritersAssumption DEF DropIndex
  <2> QED
    BY <1>18, <2>1, <2>2 DEF DropIndex
<1>19. ASSUME NEW o \in Writers, OutcomeRecorded(o)
       PROVE  TruthInv'
  <2> DEFINE status == Qualified(o)
             v == [op[o] EXCEPT !.at = "returned", !.status = status]
  <2>1. op' = [op EXCEPT ![o] = v]
    BY <1>19 DEF OutcomeRecorded
  <2>2. status = op[o].status \/ status = "SUCCESS_AUDIT_FAILED"
    BY DEF Qualified
  <2> HIDE DEF status
  <2>3. status \in Statuses \cup {"none"}
    BY <1>0, <2>2, FieldsOfOperation DEF Statuses, Doubtful
  <2>4. IsChanged(op[o], v, "returned", op[o].approved, status)
    BY <1>0, <2>3, FieldsOfOperation, Changes DEF Ats, Causes
  <2> HIDE DEF v
  <2>5. OpIs(o, "returned", op[o].approved, status)
    BY <1>0, <2>1, <2>4, NextOperation
  <2>6. /\ UNCHANGED <<index, analyzed>>
        /\ Tells(o, op[o].status, index, analyzed)
    BY <1>19 DEF OutcomeRecorded, Same, TruthInv, Truth
  <2>7. Tells(o, status, index, analyzed)
    BY <2>2, <2>6 DEF Tells, CleanRefusals, RolledBack, Refreshed
  <2>8. Truth(o)'
    BY <2>5, <2>6, <2>7 DEF OpIs, Truth
  <2>9. ASSUME NEW p \in Writers \ {o}
        PROVE  Truth(p)'
    BY <2>5, <2>6, <2>9 DEF OpIs, Truth, TruthInv, Tells
  <2> QED
    BY <2>5, <2>8, <2>9 DEF TruthInv, OpIs, OpsOK
<1>20. ASSUME NEW o \in Writers, Die(o)
       PROVE  TruthInv'
  <2> DEFINE v == [op[o] EXCEPT !.at = "dead", !.cause = "none"]
  <2>1. op' = [op EXCEPT ![o] = v]
    BY <1>20 DEF Die
  <2>2. IsChanged(op[o], v, "dead", op[o].approved, op[o].status)
    BY <1>0, FieldsOfOperation, Changes DEF Ats, Causes
  <2>3. "dead" \in Ats /\ "none" \in Causes
    BY DEF Ats, Causes
  <2> HIDE DEF v
  <2>4. OpIs(o, "dead", op[o].approved, op[o].status)
    BY <1>0, <2>1, <2>2, <2>3, FieldsOfOperation, NextOperation
  <2> QED
    BY <1>6, <1>20, <2>4, MoveIsTrue DEF Die, SameButAudit
<1> QED
  BY <1>2, <1>3, <1>4, <1>5, <1>8, <1>9, <1>10, <1>12, <1>14, <1>15, <1>16, <1>17,
     <1>18, <1>19, <1>20 DEF Next, OperationStep

\* In every behaviour, of any number of processes, what the outcome of an action
\* says of the database is so.
THEOREM OutcomesAreTrue == Spec => []OutcomesTellTheTruth
<1>1. TruthInv => OutcomesTellTheTruth
  BY DEF TruthInv, Truth, Tells, OutcomesTellTheTruth
<1> QED
  BY <1>1, TruthInitially, TruthStep, PTL DEF Spec

-----------------------------------------------------------------------------
(* What the stops hold back *)

\* What an action may say that has made no mutation.
Harmless == {"none", "FAILED", "FAILED_UNHANDLED"} \cup CleanRefusals

\* An action that has changed nothing and whose mutation is denied.
Barred(o) ==
    op[o].kind \in Mutations /\ ~Permitted(op[o].kind) /\ Untouched(o)

\* What StopsTakeHold says of a step.
Heeds ==
    /\ \A o \in Writers : Barred(o) => Untouched(o)'
    /\ ~Permitted("DROP_INDEX") =>
        /\ \A o \in Writers :
            op'[o].status \in RolledBack => op[o].status \in RolledBack
        /\ index # "nobody" /\ op' # op => index' = index

\* A step of the action o that minds the policy heeds the stops.
LEMMA StepsMind ==
    ASSUME OpsOK, NEW o \in Writers, NEW at, NEW approved, NEW status,
           OpIs(o, at, approved, status), Private(o),
           status \in RolledBack =>
                op[o].status \in RolledBack \/ Permitted("DROP_INDEX"),
           Permitted("DROP_INDEX") \/ index = "nobody" \/ index' = index,
           Barred(o) =>
                /\ at \in Unexecuted \cup Over
                /\ index' # o /\ o \notin analyzed'
                /\ status \in Harmless
    PROVE  Heeds
<1>1. Barred(o) => Untouched(o)'
  BY DEF Untouched, OpIs, Harmless
<1>2. ASSUME NEW p \in Writers \ {o}
      PROVE  op'[p] = op[p] /\ (Barred(p) => Untouched(p)')
  BY DEF Untouched, OpIs, Private, Barred
<1>3. \A p \in Writers : Barred(p) => Untouched(p)'
  BY <1>1, <1>2
<1>4. ASSUME ~Permitted("DROP_INDEX"), NEW p \in Writers,
             op'[p].status \in RolledBack
      PROVE  op[p].status \in RolledBack
  BY <1>2, <1>4 DEF OpIs
<1> QED
  BY <1>3, <1>4 DEF Heeds

\* One that leaves the database alone.
LEMMA QuietStepsMind ==
    ASSUME OpsOK, NEW o \in Writers, NEW at, NEW approved, NEW status,
           OpIs(o, at, approved, status), UNCHANGED <<index, analyzed>>,
           status \in RolledBack => op[o].status \in RolledBack,
           Barred(o) => at \in Unexecuted \cup Over /\ status \in Harmless
    PROVE  Heeds
<1>1. Private(o)
  BY DEF Private
<1>2. Barred(o) => index' # o /\ o \notin analyzed'
  BY DEF Barred, Untouched
<1> QED
  BY <1>1, <1>2, StepsMind

LEMMA MovesMind ==
    ASSUME OpsOK, NEW o \in Writers, NEW at \in Ats, Goto(o, at),
           UNCHANGED <<index, analyzed>>, Barred(o) => at \in Unexecuted
    PROVE  Heeds
<1>1. OpIs(o, at, op[o].approved, op[o].status)
  BY GotoMoves
<1>2. Barred(o) => at \in Unexecuted \cup Over /\ op[o].status \in Harmless
  BY DEF Barred, Untouched, Harmless
<1> QED
  BY <1>1, <1>2, QuietStepsMind

LEMMA ConclusionsMind ==
    ASSUME OpsOK, NEW o \in Writers, NEW status \in Statuses \ RolledBack,
           Conclude(o, status), UNCHANGED <<index, analyzed>>,
           Barred(o) => status \in Harmless
    PROVE  Heeds
<1> DEFINE at == "outcome"
<1>1. OpIs(o, at, op[o].approved, status)
  BY ConcludeMoves
<1>2. at \in Over
  BY DEF Over
<1> HIDE DEF at
<1> QED
  BY <1>1, <1>2, QuietStepsMind

\* Until it executes, an action moves towards its statement or says that it made
\* no mutation.
LEMMA EarlyStepsMind ==
    ASSUME OpsOK, NEW o \in Writers, UNCHANGED <<index, analyzed>>,
           \/ \E at \in Unexecuted : Goto(o, at)
           \/ \E status \in Harmless \ {"none"} : Conclude(o, status)
    PROVE  Heeds
<1>1. Unexecuted \subseteq Ats
  BY DEF Unexecuted, Ats
<1>2. Harmless \ {"none"} \subseteq Statuses \ RolledBack
  BY DEF Harmless, Statuses, Doubtful, CleanRefusals, RolledBack
<1> QED
  BY <1>1, <1>2, MovesMind, ConclusionsMind

\* What is past its statement, or has none, is not barred.
LEMMA LateStepsMind ==
    ASSUME OpsOK, NEW o \in Writers, UNCHANGED <<index, analyzed>>,
           op[o].at \notin Unexecuted \cup Over \/ op[o].kind = "REWRITE_QUERY",
           \/ \E at \in Ats : Goto(o, at)
           \/ \E status \in Statuses \ RolledBack : Conclude(o, status)
    PROVE  Heeds
<1>1. ~Barred(o)
  BY DEF Barred, Untouched, Mutations
<1> QED
  BY <1>1, MovesMind, ConclusionsMind

LEMMA OperationsMind ==
    ASSUME OpsOK, NEW o \in Writers, OperationStep(o) \/ Die(o)
    PROVE  Heeds
<1>1. op[o].kind \in Kinds /\ op[o].at \in Ats
  BY FieldsOfOperation
<1>2. {"FAILED", "FAILED_UNHANDLED"} \cup CleanRefusals \subseteq Harmless \ {"none"}
  BY DEF Harmless, CleanRefusals
<1>3. ASSUME Unhandled(o) \/ Fail(o)
      PROVE  \E status \in Harmless \ {"none"} : Conclude(o, status)
  BY <1>2, <1>3 DEF Unhandled, Fail
<1>4. CASE RequestAction(o) \/ PolicyGate(o) \/ CaptureBefore(o) \/ Connect(o)
  <2>1. UNCHANGED <<index, analyzed>>
    BY <1>4 DEF RequestAction, PolicyGate, CaptureBefore, Connect, SameButAudit
  <2>2. \/ Goto(o, "intent") \/ Goto(o, "validate")
        \/ Goto(o, "connect") \/ Goto(o, "execute")
        \/ Unhandled(o) \/ Fail(o) \/ Conclude(o, "BLOCKED_RUNTIME_POLICY")
    BY <1>4 DEF RequestAction, PolicyGate, CaptureBefore, Connect
  <2>3. {"intent", "validate", "connect", "execute"} \subseteq Unexecuted
    BY DEF Unexecuted
  <2>4. "BLOCKED_RUNTIME_POLICY" \in Harmless \ {"none"}
    BY DEF Harmless, CleanRefusals
  <2>5. \/ \E at \in Unexecuted : Goto(o, at)
        \/ \E status \in Harmless \ {"none"} : Conclude(o, status)
    BY <1>3, <2>2, <2>3, <2>4
  <2> QED
    BY <2>1, <2>5, EarlyStepsMind
<1>5. CASE IntentRecorded(o)
  <2>1. UNCHANGED <<index, analyzed>>
    BY <1>5 DEF IntentRecorded, Same
  <2>2. CASE Goto(o, "gate")
    BY <2>1, <2>2, EarlyStepsMind DEF Unexecuted
  <2>3. CASE op' = [op EXCEPT ![o] = [@ EXCEPT
                        !.at = "returned", !.status = "BLOCKED_AUDIT_UNAVAILABLE"]]
    <3> DEFINE at == "returned"
               status == "BLOCKED_AUDIT_UNAVAILABLE"
               v == [op[o] EXCEPT !.at = at, !.status = status]
    <3>1. op' = [op EXCEPT ![o] = v]
      BY <2>3
    <3>2. /\ status \in Statuses /\ status \in Harmless /\ status \notin RolledBack
          /\ at \in Ats /\ at \in Over
      BY DEF Statuses, CleanRefusals, Harmless, RolledBack, Ats, Over
    <3> HIDE DEF status, at
    <3>3. IsChanged(op[o], v, at, op[o].approved, status)
      BY <3>2, FieldsOfOperation, Changes DEF Causes
    <3> HIDE DEF v
    <3>4. OpIs(o, at, op[o].approved, status)
      BY <3>1, <3>3, NextOperation
    <3> QED
      BY <2>1, <3>2, <3>4, QuietStepsMind
  <2> QED
    BY <1>5, <2>2, <2>3 DEF IntentRecorded
<1>6. CASE ValidateProposal(o)
  <2>1. UNCHANGED <<index, analyzed>>
    BY <1>6 DEF ValidateProposal, SameButAudit
  <2>2. CASE Goto(o, AfterValidation(o))
    <3>1. CASE op[o].kind = "REWRITE_QUERY"
      <4>1. AfterValidation(o) \in Ats
        BY <3>1 DEF AfterValidation, Ats
      <4> QED
        BY <2>1, <2>2, <3>1, <4>1, LateStepsMind
    <3>2. CASE op[o].kind # "REWRITE_QUERY"
      <4>1. AfterValidation(o) \in Unexecuted
        BY <3>2 DEF AfterValidation, Unexecuted
      <4> QED
        BY <2>1, <2>2, <4>1, EarlyStepsMind
    <3> QED
      BY <3>1, <3>2
  <2>3. ASSUME Unhandled(o) \/ \E status \in CleanRefusals : Conclude(o, status)
        PROVE  Heeds
    <3>1. \E status \in Harmless \ {"none"} : Conclude(o, status)
      BY <1>2, <1>3, <2>3
    <3> QED
      BY <2>1, <3>1, EarlyStepsMind
  <2>4. {"BLOCKED_VALIDATION", "BLOCKED"} \subseteq CleanRefusals
    BY DEF CleanRefusals
  <2> QED
    BY <1>6, <2>2, <2>3, <2>4 DEF ValidateProposal
<1>7. CASE Approve(o)
  <2>1. UNCHANGED <<index, analyzed>>
    BY <1>7 DEF Approve, SameButAudit
  <2>2. CASE op' = [op EXCEPT ![o] = [@ EXCEPT !.at = "before", !.approved = TRUE]]
    <3> DEFINE at == "before"
               approved == TRUE
               v == [op[o] EXCEPT !.at = at, !.approved = TRUE]
    <3>1. op' = [op EXCEPT ![o] = v]
      BY <2>2
    <3>2. at \in Ats /\ at \in Unexecuted
      BY DEF Ats, Unexecuted
    <3> HIDE DEF at
    <3>3. IsChanged(op[o], v, at, TRUE, op[o].status)
      BY <3>2, FieldsOfOperation, Changes DEF Causes
    <3> HIDE DEF v
    <3>4. OpIs(o, at, approved, op[o].status)
      BY <3>1, <3>3, NextOperation
    <3> HIDE DEF approved
    <3>5. Barred(o) => op[o].status \in Harmless
      BY DEF Barred, Untouched, Harmless
    <3> QED
      BY <2>1, <3>2, <3>4, <3>5, QuietStepsMind
  <2>3. CASE Conclude(o, "CANCELLED") \/ Unhandled(o)
    <3>1. \E status \in Harmless \ {"none"} : Conclude(o, status)
      BY <1>3, <2>3 DEF Harmless, CleanRefusals
    <3> QED
      BY <2>1, <3>1, EarlyStepsMind
  <2> QED
    BY <1>7, <2>2, <2>3 DEF Approve
<1>8. CASE \/ CompareResults(o) \/ MeasureRewrite(o) \/ CaptureAfterAnalyze(o)
           \/ CaptureAfterIndex(o) \/ DecideIndex(o) \/ CheckRollbackTarget(o)
  <2>1. /\ op[o].at \in {"compare", "after", "measure", "rollback"}
        /\ UNCHANGED <<index, analyzed>>
    BY <1>8 DEF CompareResults, MeasureRewrite, CaptureAfterAnalyze,
       CaptureAfterIndex, DecideIndex, CheckRollbackTarget, Same, SameButAudit
  <2>2. op[o].at \notin Unexecuted \cup Over
    BY <2>1 DEF Unexecuted, Over
  <2>3. \/ \E at \in {"measure", "drop"} : Goto(o, at)
        \/ \E cause \in {"measured", "unverified"} :
                op' = [op EXCEPT ![o] = [@ EXCEPT !.at = "rollback", !.cause = cause]]
        \/ \E status \in Refreshed \cup
                {"BLOCKED_SNAPSHOT_MISMATCH", "FAILED_UNHANDLED", "REWRITE_ACCEPTED",
                 "REWRITE_REJECTED", "SUCCESS", "ROLLBACK_FAILED"} :
                Conclude(o, status)
    BY <1>8 DEF CompareResults, MeasureRewrite, CaptureAfterAnalyze,
       CaptureAfterIndex, DecideIndex, CheckRollbackTarget, Unhandled
  <2>4. Refreshed \cup
            {"BLOCKED_SNAPSHOT_MISMATCH", "FAILED_UNHANDLED", "REWRITE_ACCEPTED",
             "REWRITE_REJECTED", "SUCCESS", "ROLLBACK_FAILED"}
                \subseteq Statuses \ RolledBack
    BY DEF Statuses, Refreshed, Doubtful, CleanRefusals, RolledBack
  <2>5. ASSUME NEW cause \in {"measured", "unverified"},
               op' = [op EXCEPT ![o] = [@ EXCEPT !.at = "rollback", !.cause = cause]]
        PROVE  Heeds
    <3>1. OpIs(o, "rollback", op[o].approved, op[o].status)
      BY <2>5, RollbackMoves DEF Causes
    <3>2. ~Barred(o)
      BY <2>2 DEF Barred, Untouched
    <3> QED
      BY <2>1, <3>1, <3>2, QuietStepsMind
  <2>6. ASSUME NEW at \in {"measure", "drop"}, Goto(o, at)
        PROVE  Heeds
    BY <2>1, <2>2, <2>6, LateStepsMind DEF Ats
  <2>7. ASSUME NEW status \in Statuses \ RolledBack, Conclude(o, status)
        PROVE  Heeds
    BY <2>1, <2>2, <2>7, LateStepsMind
  <2> QED
    BY <2>3, <2>4, <2>5, <2>6, <2>7
<1>9. CASE CreateIndex(o) \/ AnalyzeTable(o)
  <2>1. Private(o) /\ (index = "nobody" \/ index' = index)
    BY <1>9, WritersAssumption DEF CreateIndex, AnalyzeTable, Private
  <2>2. CASE Permitted(op[o].kind)
    <3>1. ~Barred(o)
      BY <2>2 DEF Barred
    <3>2. "FAILED" \in Statuses /\ "FAILED" \notin RolledBack /\ "after" \in Ats
      BY DEF Statuses, Doubtful, RolledBack, Ats
    <3>3. CASE Goto(o, "after")
      <4>1. OpIs(o, "after", op[o].approved, op[o].status)
        BY <3>2, <3>3, GotoMoves
      <4> QED
        BY <2>1, <3>1, <4>1, StepsMind
    <3>4. CASE Conclude(o, "FAILED")
      <4>1. OpIs(o, "outcome", op[o].approved, "FAILED")
        BY <3>2, <3>4, ConcludeMoves
      <4> QED
        BY <2>1, <3>1, <3>2, <4>1, StepsMind
    <3> QED
      BY <1>9, <3>3, <3>4 DEF CreateIndex, AnalyzeTable, Fail
  <2>3. CASE ~Permitted(op[o].kind)
    <3>1. Fail(o) /\ UNCHANGED <<index, analyzed>>
      BY <1>9, <2>3 DEF CreateIndex, AnalyzeTable
    <3> QED
      BY <1>3, <3>1, EarlyStepsMind
  <2> QED
    BY <2>2, <2>3
<1>10. CASE DropIndex(o)
  <2>1. op[o].at \notin Unexecuted \cup Over
    BY <1>10 DEF DropIndex, Unexecuted, Over
  <2>2. ~Barred(o)
    BY <2>1 DEF Barred, Untouched
  <2>3. CASE Permitted("DROP_INDEX")
    <3>1. Private(o)
      <4>1. index' = index \/ index' = "nobody"
        BY <1>10 DEF DropIndex
      <4> QED
        BY <1>10, <4>1, WritersAssumption DEF DropIndex, Private
    <3>2. PICK status \in RolledBack \cup {"ROLLBACK_FAILED"} : Conclude(o, status)
      BY <1>10 DEF DropIndex, RollbackStatus, RolledBack
    <3>3. status \in Statuses
      BY DEF Statuses, Doubtful
    <3>4. OpIs(o, "outcome", op[o].approved, status)
      BY <3>2, <3>3, ConcludeMoves
    <3> QED
      BY <2>2, <2>3, <3>1, <3>4, StepsMind
  <2>4. CASE ~Permitted("DROP_INDEX")
    <3>1. Conclude(o, "ROLLBACK_FAILED") /\ UNCHANGED <<index, analyzed>>
      BY <1>10, <2>4 DEF DropIndex
    <3>2. "ROLLBACK_FAILED" \in Statuses \ RolledBack
      BY DEF Statuses, Doubtful, RolledBack
    <3> QED
      BY <2>1, <3>1, <3>2, LateStepsMind
  <2> QED
    BY <2>3, <2>4
<1>11. CASE OutcomeRecorded(o)
  <2> DEFINE at == "returned"
             status == Qualified(o)
             v == [op[o] EXCEPT !.at = at, !.status = status]
  <2>1. op' = [op EXCEPT ![o] = v] /\ UNCHANGED <<index, analyzed>>
    BY <1>11 DEF OutcomeRecorded, Same
  <2>2. \/ status = op[o].status
        \/ status = "SUCCESS_AUDIT_FAILED" /\ op[o].status = "SUCCESS"
    BY DEF Qualified
  <2>3. at \in Ats /\ at \in Over
    BY DEF Ats, Over
  <2> HIDE DEF status, at
  <2>4. /\ status \in Statuses \cup {"none"}
        /\ status \in RolledBack => op[o].status \in RolledBack
        /\ Barred(o) => status \in Harmless
    BY <2>2, FieldsOfOperation
       DEF Statuses, Doubtful, RolledBack, Harmless, CleanRefusals, Barred, Untouched
  <2>5. IsChanged(op[o], v, at, op[o].approved, status)
    BY <2>3, <2>4, FieldsOfOperation, Changes DEF Causes
  <2> HIDE DEF v
  <2>6. OpIs(o, at, op[o].approved, status)
    BY <2>1, <2>5, NextOperation
  <2> QED
    BY <2>1, <2>3, <2>4, <2>6, QuietStepsMind
<1>12. CASE Die(o)
  <2> DEFINE at == "dead"
             v == [op[o] EXCEPT !.at = at, !.cause = "none"]
  <2>1. op' = [op EXCEPT ![o] = v] /\ UNCHANGED <<index, analyzed>>
    BY <1>12 DEF Die, SameButAudit
  <2>2. at \in Ats /\ at \in Over /\ "none" \in Causes
    BY DEF Ats, Over, Causes
  <2> HIDE DEF at
  <2>3. IsChanged(op[o], v, at, op[o].approved, op[o].status)
    BY <2>2, FieldsOfOperation, Changes
  <2> HIDE DEF v
  <2>4. OpIs(o, at, op[o].approved, op[o].status)
    BY <2>1, <2>3, NextOperation
  <2>5. Barred(o) => op[o].status \in Harmless
    BY DEF Barred, Untouched, Harmless
  <2> QED
    BY <2>1, <2>2, <2>4, <2>5, QuietStepsMind
<1> QED
  BY <1>4, <1>5, <1>6, <1>7, <1>8, <1>9, <1>10, <1>11, <1>12 DEF OperationStep

LEMMA StepsHeed == OpsOK /\ [Next]_vars => (controls' = controls => Heeds)
<1> SUFFICES ASSUME OpsOK, [Next]_vars, controls' = controls
             PROVE  Heeds
  OBVIOUS
<1>1. ASSUME UNCHANGED op, UNCHANGED analyzed, index' \in {index, "dba", "nobody"}
      PROVE  Heeds
  <2>1. \A o \in Writers : index # o => index' # o
    BY <1>1, WritersAssumption
  <2> QED
    BY <1>1, <2>1 DEF Heeds, Barred, Untouched
<1>2. CASE AuditStep /\ UNCHANGED <<controls, opVars>>
  BY <1>1, <1>2 DEF opVars
<1>3. CASE SetControls
  BY <1>3 DEF SetControls
<1>4. CASE OtherSession
  BY <1>1, <1>4 DEF OtherSession
<1>5. CASE UNCHANGED vars
  BY <1>1, <1>5 DEF vars, opVars
<1> QED
  BY <1>2, <1>3, <1>4, <1>5, OperationsMind DEF Next

\* In every behaviour, of any number of processes, under any settings and any
\* contents of the controls file, and whenever it is replaced, a stop holds for
\* every mutation that is still ahead of an action, its rollback included.
THEOREM StopsHold == Spec => StopsTakeHold
<1>1. TruthInv => OpsOK
  BY DEF TruthInv
<1>2. OpsOK /\ [Next]_vars =>
        [controls' = controls =>
            /\ \A o \in Writers :
                op[o].kind \in Mutations /\ Untouched(o) /\ ~Untouched(o)' =>
                    Permitted(op[o].kind)
            /\ \/ \E o \in Writers :
                    op'[o].status \in RolledBack /\ op[o].status \notin RolledBack
               \/ index # "nobody" /\ op' # op /\ index' # index
               => Permitted("DROP_INDEX")]_vars
  BY StepsHeed DEF Heeds, Barred
<1> QED
  BY <1>1, <1>2, TruthInitially, TruthStep, PTL DEF Spec, StopsTakeHold

-----------------------------------------------------------------------------
(* Accounts: what the log says of the actions *)

-----------------------------------------------------------------------------
(* The log and its writers *)

IsCall(c) == DOMAIN c = {"at", "record", "sequence", "previous", "written"}

CallsOK ==
    /\ writer = [w \in Writers |-> writer[w]]
    /\ \A w \in Writers : IsCall(writer[w])

LogOK == \E S : log \in Seq(S)

\* The call of w after a step, and what else of the calls there is.
CallIs(w, at, record, written) ==
    /\ CallsOK'
    /\ writer'[w].at = at
    /\ writer'[w].record = record
    /\ writer'[w].written = written
    /\ \A v \in Writers \ {w} : writer'[v] = writer[v]

LEMMA NextCall ==
    ASSUME CallsOK, NEW w \in Writers, NEW c, IsCall(c),
           writer' = [writer EXCEPT ![w] = c]
    PROVE  CallIs(w, c.at, c.record, c.written)
<1>1. writer'[w] = c
  BY DEF CallsOK
<1>2. \A v \in Writers \ {w} : writer'[v] = writer[v]
  BY DEF CallsOK
<1>3. writer' = [v \in Writers |-> writer'[v]]
  BY DEF CallsOK
<1>4. CallsOK'
  BY <1>1, <1>2, <1>3 DEF CallsOK
<1> QED
  BY <1>1, <1>2, <1>4 DEF CallIs

LEMMA StartWriteStarts ==
    ASSUME CallsOK, NEW w \in Writers, NEW record, StartWrite(w, record)
    PROVE  CallIs(w, "waiting", record, FALSE)
<1> DEFINE c == [NoCall EXCEPT !.at = "waiting", !.record = record]
<1>1. IsCall(c) /\ c.at = "waiting" /\ c.record = record
  BY DEF NoCall, IsCall
<1>2. c.written = FALSE
  BY DEF NoCall
<1>3. writer' = [writer EXCEPT ![w] = c]
  BY DEF StartWrite
<1> HIDE DEF c
<1>4. CallIs(w, c.at, c.record, c.written)
  BY <1>1, <1>3, NextCall
<1> QED
  BY <1>1, <1>2, <1>4 DEF CallIs

LEMMA EndWriteEnds ==
    ASSUME CallsOK, NEW w \in Writers, NEW written \in BOOLEAN, EndWrite(w, written)
    PROVE  CallIs(w, "ended", writer[w].record, written)
<1> DEFINE c == [writer[w] EXCEPT !.at = "ended", !.written = written]
<1>1. IsCall(writer[w])
  BY DEF CallsOK
<1>2. IsCall(c) /\ c.at = "ended" /\ c.record = writer[w].record
  BY <1>1 DEF IsCall
<1>3. c.written = written
  BY <1>1 DEF IsCall
<1>4. writer' = [writer EXCEPT ![w] = c]
  BY DEF EndWrite
<1> HIDE DEF c
<1>5. CallIs(w, c.at, c.record, c.written)
  BY <1>2, <1>4, NextCall
<1> QED
  BY <1>2, <1>3, <1>5 DEF CallIs

\* A call that goes on keeps its record.
LEMMA CallGoesOn ==
    ASSUME CallsOK, NEW w \in Writers, NEW at,
           writer' = [writer EXCEPT ![w] = [@ EXCEPT !.at = at]]
    PROVE  CallIs(w, at, writer[w].record, writer[w].written)
<1> DEFINE c == [writer[w] EXCEPT !.at = at]
<1>1. IsCall(writer[w])
  BY DEF CallsOK
<1>2. IsCall(c) /\ c.at = at /\ c.record = writer[w].record
  BY <1>1 DEF IsCall
<1>3. c.written = writer[w].written
  BY <1>1 DEF IsCall
<1> HIDE DEF c
<1>4. CallIs(w, c.at, c.record, c.written)
  BY <1>2, NextCall DEF c
<1> QED
  BY <1>2, <1>3, <1>4 DEF CallIs

LEMMA CallIsVerified ==
    ASSUME CallsOK, NEW w \in Writers, NEW sequence, NEW previous,
           writer' = [writer EXCEPT ![w] = [@ EXCEPT
                        !.at = "verified", !.sequence = sequence,
                        !.previous = previous]]
    PROVE  CallIs(w, "verified", writer[w].record, writer[w].written)
<1> DEFINE c == [writer[w] EXCEPT !.at = "verified", !.sequence = sequence,
                                  !.previous = previous]
<1>1. IsCall(writer[w])
  BY DEF CallsOK
<1>2. IsCall(c) /\ c.at = "verified" /\ c.record = writer[w].record
  BY <1>1 DEF IsCall
<1>3. c.written = writer[w].written
  BY <1>1 DEF IsCall
<1>4. writer' = [writer EXCEPT ![w] = c]
  OBVIOUS
<1> HIDE DEF c
<1>5. CallIs(w, c.at, c.record, c.written)
  BY <1>2, <1>4, NextCall
<1> QED
  BY <1>2, <1>3, <1>5 DEF CallIs

LEMMA WriterDiesIdle ==
    ASSUME CallsOK, NEW w \in Writers, WriterDies(w)
    PROVE  CallIs(w, "idle", <<>>, FALSE)
<1> DEFINE c == NoCall
<1>1. IsCall(c) /\ c.at = "idle" /\ c.record = <<>>
  BY DEF NoCall, IsCall
<1>2. c.written = FALSE
  BY DEF NoCall
<1>3. writer' = [writer EXCEPT ![w] = c]
  BY DEF WriterDies
<1> HIDE DEF c
<1>4. CallIs(w, c.at, c.record, c.written)
  BY <1>1, <1>3, NextCall
<1> QED
  BY <1>1, <1>2, <1>4 DEF CallIs

LEMMA AppendRecords ==
    ASSUME LogOK, NEW line, log' = Append(log, line)
    PROVE  LogOK' /\ Recorded' = Recorded \cup {line.record}
<1>1. PICK S : log \in Seq(S)
  BY DEF LogOK
<1>2. log' \in Seq(S \cup {line})
  BY <1>1
<1>3. {log'[i].record : i \in DOMAIN log'} =
        {log[i].record : i \in DOMAIN log} \cup {line.record}
  BY <1>1, SMT
<1> QED
  BY <1>2, <1>3 DEF LogOK, Recorded

\* A step of a write: the call waits, goes on or ends, and if it ends as written
\* its record is in the log.
WriteGoesOn(w) ==
    /\ CallsOK' /\ LogOK'
    /\ writer[w].at \notin {"idle", "ended"}
    /\ writer'[w].record = writer[w].record
    /\ Recorded' \in {Recorded, Recorded \cup {writer[w].record}}
    /\ \/ writer'[w].at # "idle" /\ writer'[w].written = writer[w].written
       \/ writer'[w].at = "ended" /\ writer'[w].written = FALSE
       \/ writer'[w].at = "ended" /\ writer[w].record \in Recorded'
    /\ \A v \in Writers \ {w} : writer'[v] = writer[v]

LEMMA WriterSteps ==
    ASSUME CallsOK, LogOK, NEW w \in Writers, WriterStep(w)
    PROVE  WriteGoesOn(w)
<1>1. ASSUME UNCHANGED log
      PROVE  LogOK' /\ Recorded' = Recorded
  BY <1>1 DEF LogOK, Recorded
<1>2. ASSUME NEW written \in BOOLEAN, EndWrite(w, written)
      PROVE  CallIs(w, "ended", writer[w].record, written)
  BY <1>2, EndWriteEnds
<1>3. CASE AcquireLock(w)
  <2>1. CASE writer' = [writer EXCEPT ![w] = [@ EXCEPT !.at = "locked"]]
    <3>1. CallIs(w, "locked", writer[w].record, writer[w].written)
      BY <2>1, CallGoesOn
    <3> QED
      BY <1>1, <1>3, <3>1 DEF AcquireLock, CallIs, WriteGoesOn
  <2>2. CASE EndWrite(w, FALSE)
    <3>1. CallIs(w, "ended", writer[w].record, FALSE)
      BY <1>2, <2>2
    <3> QED
      BY <1>1, <1>3, <3>1 DEF AcquireLock, CallIs, WriteGoesOn
  <2> QED
    BY <1>3, <2>1, <2>2 DEF AcquireLock
<1>4. CASE VerifyBeforeAppend(w)
  <2>1. CASE EndWrite(w, FALSE)
    <3>1. CallIs(w, "ended", writer[w].record, FALSE)
      BY <1>2, <2>1
    <3> QED
      BY <1>1, <1>4, <3>1 DEF VerifyBeforeAppend, CallIs, WriteGoesOn
  <2>2. CASE writer' = [writer EXCEPT ![w] = [@ EXCEPT
                        !.at = "verified", !.sequence = SequenceOf(log),
                        !.previous = PreviousOf(log)]]
    <3>1. CallIs(w, "verified", writer[w].record, writer[w].written)
      BY <2>2, CallIsVerified
    <3> QED
      BY <1>1, <1>4, <3>1 DEF VerifyBeforeAppend, CallIs, WriteGoesOn
  <2> QED
    BY <1>4, <2>1, <2>2 DEF VerifyBeforeAppend
<1>5. CASE BeginAppend(w)
  <2>1. CASE writer' = [writer EXCEPT ![w] = [@ EXCEPT !.at = "appending"]]
    <3>1. CallIs(w, "appending", writer[w].record, writer[w].written)
      BY <2>1, CallGoesOn
    <3> QED
      BY <1>1, <1>5, <3>1 DEF BeginAppend, CallIs, WriteGoesOn
  <2>2. CASE EndWrite(w, FALSE)
    <3>1. CallIs(w, "ended", writer[w].record, FALSE)
      BY <1>2, <2>2
    <3> QED
      BY <1>1, <1>5, <3>1 DEF BeginAppend, CallIs, WriteGoesOn
  <2> QED
    BY <1>5, <2>1, <2>2 DEF BeginAppend
<1>6. CASE FinishAppend(w)
  <2> DEFINE line == [sequence |-> writer[w].sequence,
                      previous |-> writer[w].previous,
                      record |-> writer[w].record]
  <2>1. writer[w].at = "appending"
    BY <1>6 DEF FinishAppend
  <2>2. \/ UNCHANGED log
        \/ log' = Append(log, line)
    BY <1>6 DEF FinishAppend
  <2>3. \/ EndWrite(w, FALSE)
        \/ EndWrite(w, TRUE) /\ log' = Append(log, line)
    BY <1>6 DEF FinishAppend
  <2>4. line.record = writer[w].record
    OBVIOUS
  <2> HIDE DEF line
  <2>5. LogOK' /\ Recorded' \in {Recorded, Recorded \cup {writer[w].record}}
    BY <1>1, <2>2, <2>4, AppendRecords
  <2>6. CASE EndWrite(w, FALSE)
    <3>1. CallIs(w, "ended", writer[w].record, FALSE)
      BY <1>2, <2>6
    <3> QED
      BY <2>1, <2>5, <3>1 DEF CallIs, WriteGoesOn
  <2>7. CASE EndWrite(w, TRUE) /\ log' = Append(log, line)
    <3>1. CallIs(w, "ended", writer[w].record, TRUE)
      BY <1>2, <2>7
    <3>2. writer[w].record \in Recorded'
      BY <2>4, <2>7, AppendRecords
    <3> QED
      BY <2>1, <2>5, <3>1, <3>2 DEF CallIs, WriteGoesOn
  <2> QED
    BY <2>3, <2>6, <2>7
<1> QED
  BY <1>3, <1>4, <1>5, <1>6 DEF WriterStep

-----------------------------------------------------------------------------
(* The accounts *)

\* Where an action is between its intent and its outcome; where it has not mutated
\* anything; and where it has its approval, if it needs one.
Running == {"gate", "validate", "approve", "before", "compare", "connect",
            "execute", "after", "measure", "rollback", "drop"}

Early == {"gate", "validate", "approve", "before", "compare", "connect", "execute"}

Granted == {"before", "connect", "execute"}

Intended(o) == <<o, "INTENT_RECEIVED">> \in Recorded

\* All that the log says of o.
Says(o) ==
    \A r \in Recorded : r[1] = o =>
        \/ r = <<o, "INTENT_RECEIVED">>
        \/ /\ op[o].at \in {"outcome", "returned", "dead"}
           /\ \/ r = <<o, op[o].status>>
              \/ r = <<o, "SUCCESS">> /\ op[o].status = "SUCCESS_AUDIT_FAILED"

\* What o may be writing.
Writes(o) ==
    /\ op[o].at = "intent" => writer[o].record = <<o, "INTENT_RECEIVED">>
    /\ op[o].at = "outcome" => writer[o].record = <<o, op[o].status>>
    /\ op[o].at \notin {"intent", "outcome"} => writer[o].at \in {"idle", "ended"}
    /\ writer[o].written => writer[o].record \in Recorded

\* What has to be there for what o has done.
Accounts(o) ==
    /\ op[o].at \in Early => Intended(o)
    /\ op[o].at \in Granted => op[o].approved
    /\ index = o \/ o \in analyzed => Intended(o) /\ op[o].approved
    /\ op[o].at = "returned" /\ op[o].status = "SUCCESS" =>
            <<o, "SUCCESS">> \in Recorded

AccountInv ==
    /\ OpsOK
    /\ CallsOK
    /\ LogOK
    /\ \A o \in Writers : Says(o) /\ Writes(o) /\ Accounts(o)

LEMMA AccountsInitially == Init => AccountInv
<1> SUFFICES ASSUME Init
             PROVE  AccountInv
  OBVIOUS
<1>1. OpsOK /\ \A o \in Writers : op[o].at = "start"
  <2>1. PICK kind \in [Writers -> Kinds] :
        op = [o \in Writers |-> [kind |-> kind[o], at |-> "start",
                                 approved |-> FALSE, cause |-> "none",
                                 status |-> "none"]]
    BY DEF Init
  <2>2. \A o \in Writers : op[o].at = "start"
    BY <2>1
  <2> QED
    BY <2>2, TruthInitially DEF TruthInv
<1>2. writer = [w \in Writers |-> NoCall] /\ index = "nobody" /\ analyzed = {}
  BY DEF Init, AuditInit
<1>3. \A w \in Writers : writer[w] = NoCall
  BY <1>2
<1>4. IsCall(NoCall) /\ NoCall.at = "idle"
  BY DEF IsCall, NoCall
<1>5. ~NoCall.written
  BY DEF NoCall
<1>6. log = <<>> \/ log = <<LegacyLine>>
  BY DEF Init, AuditInit
<1>7. LogOK /\ Recorded \subseteq {<<"legacy">>}
  <2>1. CASE log = <<>>
    <3>1. log \in Seq({LegacyLine}) /\ DOMAIN log = {}
      BY <2>1
    <3> QED
      BY <3>1 DEF LogOK, Recorded
  <2>2. CASE log = <<LegacyLine>>
    <3>1. log \in Seq({LegacyLine}) /\ \A i \in DOMAIN log : log[i] = LegacyLine
      BY <2>2
    <3>2. LegacyLine.record = <<"legacy">>
      BY DEF LegacyLine
    <3> QED
      BY <3>1, <3>2 DEF LogOK, Recorded
  <2> QED
    BY <1>6, <2>1, <2>2
<1>8. ASSUME NEW o \in Writers
      PROVE  Says(o) /\ Writes(o) /\ Accounts(o)
  <2>1. \A r \in Recorded : r[1] # o
    BY <1>7, WritersAssumption
  <2>2. o # "nobody"
    BY WritersAssumption
  <2>3. Says(o)
    BY <2>1 DEF Says
  <2>4. Writes(o)
    BY <1>1, <1>3, <1>4, <1>5 DEF Writes
  <2>5. Accounts(o)
    BY <1>1, <1>2, <2>2 DEF Accounts, Early, Granted
  <2> QED
    BY <2>3, <2>4, <2>5
<1>9. CallsOK
  BY <1>2, <1>3, <1>4 DEF CallsOK
<1> QED
  BY <1>1, <1>7, <1>8, <1>9 DEF AccountInv

LEMMA SameLog ==
    ASSUME LogOK, UNCHANGED log
    PROVE  LogOK' /\ Recorded' = Recorded
  BY DEF LogOK, Recorded

\* The writers do not disturb the accounts.
LEMMA WritersKeepAccounts ==
    ASSUME AccountInv, NEW w \in Writers, WriteGoesOn(w),
           UNCHANGED <<op, index, analyzed>>
    PROVE  AccountInv'
<1>1. \/ op[w].at = "intent" /\ writer[w].record = <<w, "INTENT_RECEIVED">>
      \/ op[w].at = "outcome" /\ writer[w].record = <<w, op[w].status>>
  BY DEF AccountInv, Writes, WriteGoesOn
<1>2. Recorded \subseteq Recorded' /\ Recorded' \subseteq Recorded \cup {writer[w].record}
  BY DEF WriteGoesOn
<1>3. writer[w].record[1] = w
  BY <1>1
<1>4. ASSUME NEW o \in Writers
      PROVE  Says(o)'
  <2>1. ASSUME NEW r \in Recorded', r[1] = o, r \notin Recorded
        PROVE  o = w /\ r = writer[w].record
    BY <1>2, <1>3, <2>1
  <2>2. Says(o) /\ UNCHANGED op
    BY DEF AccountInv
  <2> QED
    BY <1>1, <2>1, <2>2 DEF Says
<1>5. Writes(w)'
  <2>1. writer[w].written => writer[w].record \in Recorded'
    BY <1>2 DEF AccountInv, Writes
  <2>2. writer'[w].written => writer'[w].record \in Recorded'
    BY <2>1 DEF WriteGoesOn
  <2> QED
    BY <1>1, <2>2 DEF Writes, WriteGoesOn
<1>6. ASSUME NEW o \in Writers \ {w}
      PROVE  Writes(o)'
  BY <1>2, <1>6 DEF AccountInv, Writes, WriteGoesOn
<1>7. ASSUME NEW o \in Writers
      PROVE  Accounts(o)'
  BY <1>2, <1>7 DEF AccountInv, Accounts, Intended
<1> QED
  BY <1>4, <1>5, <1>6, <1>7 DEF AccountInv, OpsOK, WriteGoesOn

\* A step of the action o that writes nothing to the log.
LEMMA OthersKeepAccounts ==
    ASSUME AccountInv, NEW o \in Writers, NEW at, NEW approved, NEW status,
           OpIs(o, at, approved, status), Private(o), UNCHANGED log, CallsOK',
           \A p \in Writers \ {o} : writer'[p] = writer[p],
           Says(o)', Writes(o)', Accounts(o)'
    PROVE  AccountInv'
<1>1. LogOK' /\ Recorded' = Recorded
  BY SameLog DEF AccountInv
<1>2. ASSUME NEW p \in Writers \ {o}
      PROVE  Says(p)' /\ Writes(p)' /\ Accounts(p)'
  <2>1. op'[p] = op[p] /\ writer'[p] = writer[p]
    BY DEF OpIs
  <2>2. Says(p) /\ Writes(p) /\ Accounts(p)
    BY DEF AccountInv
  <2>3. Says(p)'
    BY <1>1, <2>1, <2>2 DEF Says
  <2>4. Writes(p)'
    BY <1>1, <2>1, <2>2 DEF Writes
  <2>5. Accounts(p)'
    BY <1>1, <2>1, <2>2 DEF Accounts, Intended, Private
  <2> QED
    BY <2>3, <2>4, <2>5
<1> QED
  BY <1>1, <1>2 DEF AccountInv, OpsOK, OpIs

LEMMA MovesAccount ==
    ASSUME AccountInv, NEW o \in Writers, NEW at \in Running,
           OpIs(o, at, op[o].approved, op[o].status), Private(o),
           UNCHANGED <<log, writer>>, op[o].at \in Running,
           at \in Early => op[o].at \in Early, at \in Granted => op[o].at \in Granted,
           index' = o \/ o \in analyzed' => Intended(o) /\ op[o].approved
    PROVE  AccountInv'
<1>1. Recorded' = Recorded
  BY SameLog DEF AccountInv
<1>2. Says(o) /\ Writes(o) /\ Accounts(o)
  BY DEF AccountInv
<1>3. Says(o)'
  BY <1>1, <1>2 DEF Says, Running
<1>4. Writes(o)'
  BY <1>1, <1>2 DEF Writes, Running, OpIs
<1>5. Accounts(o)'
  BY <1>1, <1>2 DEF Accounts, Intended, Running, OpIs
<1>6. CallsOK'
  BY DEF AccountInv, CallsOK
<1> QED
  BY <1>3, <1>4, <1>5, <1>6, OthersKeepAccounts

LEMMA ConclusionsAccount ==
    ASSUME AccountInv, NEW o \in Writers, NEW status \in Statuses,
           Conclude(o, status), op[o].at \in Running, Private(o),
           index' = o \/ o \in analyzed' => Intended(o) /\ op[o].approved
    PROVE  AccountInv'
<1>1. OpIs(o, "outcome", op[o].approved, status)
  BY ConcludeMoves DEF AccountInv
<1>2. CallIs(o, "waiting", <<o, status>>, FALSE)
  BY StartWriteStarts DEF AccountInv, Conclude
<1>3. UNCHANGED log
  BY DEF Conclude
<1>4. Recorded' = Recorded
  BY <1>3, SameLog DEF AccountInv
<1>5. Says(o) /\ Accounts(o)
  BY DEF AccountInv
<1>6. Says(o)'
  BY <1>4, <1>5 DEF Says, Running
<1>7. Writes(o)'
  BY <1>1, <1>2 DEF Writes, OpIs, CallIs
<1>8. Accounts(o)'
  BY <1>1, <1>4, <1>5 DEF Accounts, Intended, OpIs, Early, Granted
<1> QED
  BY <1>1, <1>2, <1>3, <1>6, <1>7, <1>8, OthersKeepAccounts DEF CallIs

LEMMA AccountsStep == AccountInv /\ [Next]_vars => AccountInv'
<1> SUFFICES ASSUME AccountInv, [Next]_vars
             PROVE  AccountInv'
  OBVIOUS
<1>0. OpsOK /\ CallsOK /\ LogOK
  BY DEF AccountInv
<1>1. ASSUME UNCHANGED <<log, writer, op, analyzed>>,
             \A o \in Writers : index' = o => index = o
      PROVE  AccountInv'
  <2>1. LogOK' /\ Recorded' = Recorded
    BY <1>0, <1>1, SameLog
  <2> QED
    BY <1>1, <2>1 DEF AccountInv, OpsOK, CallsOK, Says, Writes, Accounts, Intended
<1>2. CASE AuditStep /\ UNCHANGED <<controls, opVars>>
  <2>1. ASSUME NEW w \in Writers, WriterStep(w)
        PROVE  AccountInv'
    <3>1. WriteGoesOn(w)
      BY <1>0, <2>1, WriterSteps
    <3> QED
      BY <1>2, <3>1, WritersKeepAccounts DEF opVars
  <2>2. CASE VerifyLog
    BY <1>1, <1>2, <2>2 DEF VerifyLog, opVars
  <2> QED
    BY <1>2, <2>1, <2>2 DEF AuditStep
<1>3. CASE SetControls
  BY <1>1, <1>3 DEF SetControls, opVars, auditVars
<1>4. CASE OtherSession
  <2>1. \A o \in Writers : index' # o
    BY <1>4, WritersAssumption DEF OtherSession
  <2> QED
    BY <1>1, <1>4, <2>1 DEF OtherSession, auditVars
<1>5. CASE UNCHANGED vars
  BY <1>1, <1>5 DEF vars, opVars, auditVars
<1>6. ASSUME NEW o \in Writers, UNCHANGED <<index, analyzed>>
      PROVE  /\ Private(o)
             /\ index' = o \/ o \in analyzed' => Intended(o) /\ op[o].approved
  BY <1>6 DEF Private, AccountInv, Accounts
<1>7. ASSUME NEW o \in Writers, NEW at \in Running, Goto(o, at),
             UNCHANGED <<log, writer, index, analyzed>>, op[o].at \in Running,
             at \in Early => op[o].at \in Early,
             at \in Granted => op[o].at \in Granted
      PROVE  AccountInv'
  <2>1. OpIs(o, at, op[o].approved, op[o].status)
    BY <1>0, <1>7, GotoMoves DEF Running, Ats
  <2> QED
    BY <1>6, <1>7, <2>1, MovesAccount
<1>8. ASSUME NEW o \in Writers, NEW status \in Statuses, Conclude(o, status),
             UNCHANGED <<index, analyzed>>, op[o].at \in Running
      PROVE  AccountInv'
  BY <1>6, <1>8, ConclusionsAccount
<1>9. ASSUME NEW o \in Writers, op[o].at \in Running,
             UNCHANGED <<index, analyzed>>, Unhandled(o) \/ Fail(o)
      PROVE  AccountInv'
  BY <1>8, <1>9 DEF Unhandled, Fail, Statuses, Doubtful
<1>10. ASSUME NEW o \in Writers, NEW cause \in Causes, op[o].at \in Running,
              op' = [op EXCEPT ![o] = [@ EXCEPT !.at = "rollback", !.cause = cause]],
              UNCHANGED <<log, writer, index, analyzed>>
       PROVE  AccountInv'
  <2>1. OpIs(o, "rollback", op[o].approved, op[o].status)
    BY <1>0, <1>10, RollbackMoves
  <2> QED
    BY <1>6, <1>10, <2>1, MovesAccount DEF Running, Early, Granted
<1>11. ASSUME NEW o \in Writers, RequestAction(o)
       PROVE  AccountInv'
  <2>1. OpIs(o, "intent", op[o].approved, op[o].status)
    BY <1>0, <1>11, GotoMoves DEF RequestAction, Ats
  <2>2. CallIs(o, "waiting", <<o, "INTENT_RECEIVED">>, FALSE)
    BY <1>0, <1>11, StartWriteStarts DEF RequestAction
  <2>3. Recorded' = Recorded /\ UNCHANGED <<log, index, analyzed>>
    BY <1>0, <1>11, SameLog DEF RequestAction
  <2>4. Says(o) /\ Accounts(o) /\ op[o].at = "start"
    BY <1>11 DEF AccountInv, RequestAction
  <2>5. Says(o)'
    BY <2>3, <2>4 DEF Says
  <2>6. Writes(o)'
    BY <2>1, <2>2 DEF Writes, OpIs, CallIs
  <2>7. Accounts(o)'
    BY <2>1, <2>3, <2>4 DEF Accounts, Intended, OpIs, Early, Granted
  <2> QED
    BY <1>6, <2>1, <2>2, <2>3, <2>5, <2>6, <2>7, OthersKeepAccounts DEF CallIs
<1>12. ASSUME NEW o \in Writers, IntentRecorded(o)
       PROVE  AccountInv'
  <2>1. Says(o) /\ Writes(o) /\ Accounts(o) /\ op[o].at = "intent"
    BY <1>12 DEF AccountInv, IntentRecorded
  <2>2. UNCHANGED <<log, writer, index, analyzed>> /\ writer[o].at = "ended"
    BY <1>12 DEF IntentRecorded, Same, auditVars
  <2>3. Recorded' = Recorded /\ CallsOK'
    BY <1>0, <2>2, SameLog DEF CallsOK
  <2>4. CASE writer[o].written /\ Goto(o, "gate")
    <3>1. OpIs(o, "gate", op[o].approved, op[o].status)
      BY <1>0, <2>4, GotoMoves DEF Ats
    <3>2. Intended(o)
      BY <2>1, <2>4 DEF Writes, Intended
    <3>3. Says(o)'
      BY <2>1, <2>3, <3>1 DEF Says, OpIs
    <3>4. Writes(o)'
      BY <2>1, <2>2, <2>3, <3>1 DEF Writes, OpIs
    <3>5. Accounts(o)'
      BY <2>1, <2>2, <2>3, <3>1, <3>2 DEF Accounts, Intended, OpIs, Granted
    <3> QED
      BY <1>6, <2>2, <2>3, <3>1, <3>3, <3>4, <3>5, OthersKeepAccounts
  <2>5. CASE op' = [op EXCEPT ![o] = [@ EXCEPT
                        !.at = "returned", !.status = "BLOCKED_AUDIT_UNAVAILABLE"]]
    <3> DEFINE status == "BLOCKED_AUDIT_UNAVAILABLE"
               v == [op[o] EXCEPT !.at = "returned", !.status = status]
    <3>1. op' = [op EXCEPT ![o] = v]
      BY <2>5
    <3>2. status \in Statuses /\ status # "SUCCESS"
      BY DEF Statuses, CleanRefusals
    <3> HIDE DEF status
    <3>3. IsChanged(op[o], v, "returned", op[o].approved, status)
      BY <1>0, <3>2, FieldsOfOperation, Changes DEF Ats, Causes
    <3> HIDE DEF v
    <3>4. OpIs(o, "returned", op[o].approved, status)
      BY <1>0, <3>1, <3>3, NextOperation
    <3>5. Says(o)'
      BY <2>1, <2>3, <3>4 DEF Says, OpIs
    <3>6. Writes(o)'
      BY <2>1, <2>2, <2>3, <3>4 DEF Writes, OpIs
    <3>7. Accounts(o)'
      BY <2>1, <2>2, <2>3, <3>2, <3>4 DEF Accounts, Intended, OpIs, Early, Granted
    <3> QED
      BY <1>6, <2>2, <2>3, <3>4, <3>5, <3>6, <3>7, OthersKeepAccounts
  <2> QED
    BY <1>12, <2>4, <2>5 DEF IntentRecorded
<1>13. ASSUME NEW o \in Writers, PolicyGate(o) \/ ValidateProposal(o)
       PROVE  AccountInv'
  <2>1. op[o].at \in Running \cap Early /\ UNCHANGED <<index, analyzed>>
    BY <1>13 DEF PolicyGate, ValidateProposal, SameButAudit, Running, Early
  <2>2. \/ Goto(o, "validate") /\ UNCHANGED auditVars
        \/ Goto(o, AfterValidation(o)) /\ UNCHANGED auditVars
        \/ Unhandled(o)
        \/ \E status \in {"BLOCKED_RUNTIME_POLICY", "BLOCKED_VALIDATION", "BLOCKED"} :
                Conclude(o, status)
    BY <1>13 DEF PolicyGate, ValidateProposal
  <2>3. AfterValidation(o) \in {"compare", "approve"}
    <3>1. op[o].kind \in {"REWRITE_QUERY", "CREATE_INDEX", "ANALYZE_TABLE"}
      BY <1>0, FieldsOfOperation DEF Kinds
    <3> QED
      BY <3>1 DEF AfterValidation, RequiresApproval, AssessRisk
  <2>4. {"BLOCKED_RUNTIME_POLICY", "BLOCKED_VALIDATION", "BLOCKED"} \subseteq Statuses
    BY DEF Statuses, CleanRefusals
  <2>5. ASSUME NEW at \in {"validate", "compare", "approve"}, Goto(o, at),
               UNCHANGED auditVars
        PROVE  AccountInv'
    BY <1>7, <2>1, <2>5 DEF auditVars, Running, Early, Granted
  <2> QED
    BY <1>8, <1>9, <2>1, <2>2, <2>3, <2>4, <2>5
<1>14. ASSUME NEW o \in Writers, Approve(o)
       PROVE  AccountInv'
  <2>1. op[o].at = "approve" /\ UNCHANGED <<index, analyzed>>
    BY <1>14 DEF Approve, SameButAudit
  <2>2. CASE /\ op' = [op EXCEPT ![o] = [@ EXCEPT !.at = "before", !.approved = TRUE]]
             /\ UNCHANGED auditVars
    <3> DEFINE v == [op[o] EXCEPT !.at = "before", !.approved = TRUE]
    <3>1. op' = [op EXCEPT ![o] = v]
      BY <2>2
    <3>2. IsChanged(op[o], v, "before", TRUE, op[o].status)
      BY <1>0, FieldsOfOperation, Changes DEF Ats, Causes
    <3> HIDE DEF v
    <3>3. OpIs(o, "before", TRUE, op[o].status)
      BY <1>0, <3>1, <3>2, NextOperation
    <3>4. Says(o) /\ Writes(o) /\ Accounts(o)
      BY DEF AccountInv
    <3>5. UNCHANGED <<log, writer>> /\ Recorded' = Recorded /\ CallsOK'
      BY <1>0, <2>2, SameLog DEF auditVars, CallsOK
    <3>6. Says(o)'
      BY <2>1, <3>4, <3>5 DEF Says
    <3>7. Writes(o)'
      BY <2>1, <3>3, <3>4, <3>5 DEF Writes, OpIs
    <3>8. op'[o].at = "before" /\ op'[o].approved
      BY <3>3 DEF OpIs
    <3>9. Accounts(o)'
      BY <2>1, <3>4, <3>5, <3>8 DEF Accounts, Intended, Early
    <3> DEFINE approved == TRUE
    <3> HIDE DEF approved
    <3>10. OpIs(o, "before", approved, op[o].status)
      BY <3>3 DEF approved
    <3> QED
      BY <1>6, <2>1, <3>5, <3>6, <3>7, <3>9, <3>10, OthersKeepAccounts
  <2>3. CASE Conclude(o, "CANCELLED")
    BY <1>8, <2>1, <2>3 DEF Statuses, CleanRefusals, Running
  <2>4. CASE Unhandled(o)
    BY <1>9, <2>1, <2>4 DEF Running
  <2> QED
    BY <1>14, <2>2, <2>3, <2>4 DEF Approve
<1>15. ASSUME NEW o \in Writers, CaptureBefore(o) \/ Connect(o)
       PROVE  AccountInv'
  <2>1. op[o].at \in {"before", "connect"} /\ UNCHANGED <<index, analyzed>>
    BY <1>15 DEF CaptureBefore, Connect, SameButAudit
  <2>2. \/ \E at \in {"connect", "execute"} : Goto(o, at) /\ UNCHANGED auditVars
        \/ Unhandled(o) \/ Fail(o)
    BY <1>15 DEF CaptureBefore, Connect
  <2>3. op[o].at \in Running \cap Early \cap Granted
    BY <2>1 DEF Running, Early, Granted
  <2>4. ASSUME NEW at \in {"connect", "execute"}, Goto(o, at), UNCHANGED auditVars
        PROVE  AccountInv'
    BY <1>7, <2>1, <2>3, <2>4 DEF auditVars, Running
  <2> QED
    BY <1>9, <2>1, <2>2, <2>3, <2>4
<1>16. ASSUME NEW o \in Writers,
              \/ CaptureAfterAnalyze(o) \/ CaptureAfterIndex(o) \/ CompareResults(o)
              \/ MeasureRewrite(o) \/ DecideIndex(o) \/ CheckRollbackTarget(o)
       PROVE  AccountInv'
  <2>1. op[o].at \in Running /\ UNCHANGED <<index, analyzed>>
    BY <1>16 DEF CaptureAfterAnalyze, CaptureAfterIndex, CompareResults,
       MeasureRewrite, DecideIndex, CheckRollbackTarget, Same, SameButAudit, Running
  <2>2. \/ \E at \in {"measure", "drop"} : Goto(o, at) /\ UNCHANGED auditVars
        \/ \E cause \in {"measured", "unverified"} :
             /\ op' = [op EXCEPT ![o] = [@ EXCEPT !.at = "rollback", !.cause = cause]]
             /\ UNCHANGED auditVars
        \/ Unhandled(o)
        \/ \E status \in Refreshed \cup {"BLOCKED_SNAPSHOT_MISMATCH",
                "REWRITE_ACCEPTED", "REWRITE_REJECTED", "SUCCESS", "ROLLBACK_FAILED"} :
                Conclude(o, status)
    BY <1>16 DEF CaptureAfterAnalyze, CaptureAfterIndex, CompareResults,
       MeasureRewrite, DecideIndex, CheckRollbackTarget, Same
  <2>3. Refreshed \cup {"BLOCKED_SNAPSHOT_MISMATCH", "REWRITE_ACCEPTED",
            "REWRITE_REJECTED", "SUCCESS", "ROLLBACK_FAILED"} \subseteq Statuses
    BY DEF Statuses, CleanRefusals, Doubtful
  <2>4. ASSUME NEW at \in {"measure", "drop"}, Goto(o, at), UNCHANGED auditVars
        PROVE  AccountInv'
    BY <1>7, <2>1, <2>4 DEF auditVars, Running, Early, Granted
  <2>5. ASSUME NEW cause \in {"measured", "unverified"}, UNCHANGED auditVars,
               op' = [op EXCEPT ![o] = [@ EXCEPT !.at = "rollback", !.cause = cause]]
        PROVE  AccountInv'
    BY <1>10, <2>1, <2>5 DEF auditVars, Causes
  <2> QED
    BY <1>8, <1>9, <2>1, <2>2, <2>3, <2>4, <2>5
<1>17. ASSUME NEW o \in Writers, CreateIndex(o) \/ AnalyzeTable(o)
       PROVE  AccountInv'
  <2>1. op[o].at = "execute"
    BY <1>17 DEF CreateIndex, AnalyzeTable
  <2>2. Intended(o) /\ op[o].approved
    BY <2>1 DEF AccountInv, Accounts, Early, Granted
  <2>3. Private(o)
    BY <1>17, WritersAssumption DEF CreateIndex, AnalyzeTable, Private
  <2>4. CASE Goto(o, "after") /\ UNCHANGED auditVars
    <3>1. OpIs(o, "after", op[o].approved, op[o].status)
      BY <1>0, <2>4, GotoMoves DEF Ats
    <3> QED
      BY <2>1, <2>2, <2>3, <2>4, <3>1, MovesAccount
         DEF auditVars, Running, Early, Granted
  <2>5. CASE Fail(o)
    BY <2>1, <2>2, <2>3, <2>5, ConclusionsAccount
       DEF Fail, Statuses, Doubtful, Running
  <2> QED
    BY <1>17, <2>4, <2>5 DEF CreateIndex, AnalyzeTable
<1>18. ASSUME NEW o \in Writers, DropIndex(o)
       PROVE  AccountInv'
  <2>1. op[o].at \in Running
    BY <1>18 DEF DropIndex, Running
  <2>2. /\ Private(o)
        /\ index' = o \/ o \in analyzed' => Intended(o) /\ op[o].approved
    <3>1. index' = index \/ index' = "nobody"
      BY <1>18 DEF DropIndex
    <3> QED
      BY <1>18, <3>1, WritersAssumption DEF DropIndex, Private, AccountInv, Accounts
  <2>3. PICK status \in RolledBack \cup {"ROLLBACK_FAILED"} : Conclude(o, status)
    BY <1>18 DEF DropIndex, RollbackStatus, RolledBack
  <2>4. status \in Statuses
    BY DEF Statuses, Doubtful
  <2> QED
    BY <2>1, <2>2, <2>3, <2>4, ConclusionsAccount
<1>19. ASSUME NEW o \in Writers, OutcomeRecorded(o)
       PROVE  AccountInv'
  <2> DEFINE status == Qualified(o)
             v == [op[o] EXCEPT !.at = "returned", !.status = status]
  <2>1. op' = [op EXCEPT ![o] = v]
    BY <1>19 DEF OutcomeRecorded
  <2>2. \/ status = op[o].status /\ (status = "SUCCESS" => writer[o].written)
        \/ status = "SUCCESS_AUDIT_FAILED" /\ op[o].status = "SUCCESS"
    BY DEF Qualified
  <2> HIDE DEF status
  <2>3. status \in Statuses \cup {"none"}
    BY <1>0, <2>2, FieldsOfOperation DEF Statuses, Doubtful
  <2>4. IsChanged(op[o], v, "returned", op[o].approved, status)
    BY <1>0, <2>3, FieldsOfOperation, Changes DEF Ats, Causes
  <2> HIDE DEF v
  <2>5. OpIs(o, "returned", op[o].approved, status)
    BY <1>0, <2>1, <2>4, NextOperation
  <2>6. Says(o) /\ Writes(o) /\ Accounts(o) /\ op[o].at = "outcome"
    BY <1>19 DEF AccountInv, OutcomeRecorded
  <2>7. UNCHANGED <<log, writer, index, analyzed>> /\ writer[o].at = "ended"
    BY <1>19 DEF OutcomeRecorded, Same, auditVars
  <2>8. Recorded' = Recorded /\ CallsOK'
    BY <1>0, <2>7, SameLog DEF CallsOK
  <2>9. Says(o)'
    BY <2>2, <2>5, <2>6, <2>8 DEF Says, OpIs
  <2>10. Writes(o)'
    BY <2>5, <2>6, <2>7, <2>8 DEF Writes, OpIs
  <2>11. status = "SUCCESS" => <<o, "SUCCESS">> \in Recorded
    BY <2>2, <2>6 DEF Writes
  <2>12. Accounts(o)'
    BY <2>5, <2>6, <2>7, <2>8, <2>11 DEF Accounts, Intended, OpIs, Early, Granted
  <2> QED
    BY <1>6, <2>5, <2>7, <2>8, <2>9, <2>10, <2>12, OthersKeepAccounts
<1>20. ASSUME NEW o \in Writers, Die(o)
       PROVE  AccountInv'
  <2> DEFINE v == [op[o] EXCEPT !.at = "dead", !.cause = "none"]
  <2>1. op' = [op EXCEPT ![o] = v]
    BY <1>20 DEF Die
  <2>2. IsChanged(op[o], v, "dead", op[o].approved, op[o].status)
    BY <1>0, FieldsOfOperation, Changes DEF Ats, Causes
  <2> HIDE DEF v
  <2>3. OpIs(o, "dead", op[o].approved, op[o].status)
    BY <1>0, <2>1, <2>2, NextOperation
  <2>4. CallIs(o, "idle", <<>>, FALSE)
    BY <1>0, <1>20, WriterDiesIdle DEF Die
  <2>5. UNCHANGED <<log, index, analyzed>>
    BY <1>20 DEF Die, WriterDies, SameButAudit
  <2>6. Recorded' = Recorded
    BY <1>0, <2>5, SameLog
  <2>7. Says(o) /\ Accounts(o) /\ op[o].at # "returned"
    BY <1>20 DEF AccountInv, Die
  <2>8. Says(o)'
    BY <2>3, <2>6, <2>7 DEF Says, OpIs
  <2>9. Writes(o)'
    BY <2>3, <2>4 DEF Writes, OpIs, CallIs
  <2>10. Accounts(o)'
    BY <2>3, <2>5, <2>6, <2>7 DEF Accounts, Intended, OpIs, Early, Granted
  <2> QED
    BY <1>6, <2>3, <2>4, <2>5, <2>8, <2>9, <2>10, OthersKeepAccounts DEF CallIs
<1> QED
  BY <1>2, <1>3, <1>4, <1>5, <1>11, <1>12, <1>13, <1>14, <1>15, <1>16, <1>17, <1>18,
     <1>19, <1>20 DEF Next, OperationStep

\* For any number of processes, an index and a refresh of statistics are there only
\* for an action whose intent is in the log and which the operator approved.
THEOREM MutationsHaveAccounts == Spec => []MutationsAreAccounted
<1>1. AccountInv => MutationsAreAccounted
  BY DEF AccountInv, Accounts, Intended, MutationsAreAccounted
<1> QED
  BY <1>1, AccountsInitially, AccountsStep, PTL DEF Spec

\* And no action returns a success that the log does not have, or has another
\* outcome in the log than the one it returned.
THEOREM OutcomesHaveRecords == Spec => []OutcomesAreRecorded
<1>1. AccountInv => OutcomesAreRecorded
  <2> SUFFICES ASSUME AccountInv, NEW o \in Writers
               PROVE  LET outcomes == {r \in Recorded : r[1] = o}
                                        \ {<<o, "INTENT_RECEIVED">>} IN
                      /\ op[o].at = "returned" /\ op[o].status = "SUCCESS" =>
                            <<o, "SUCCESS">> \in outcomes
                      /\ \A r \in outcomes :
                            \/ r[2] = op[o].status
                            \/ /\ r[2] = "SUCCESS"
                               /\ op[o].status = "SUCCESS_AUDIT_FAILED"
    BY DEF OutcomesAreRecorded
  <2>1. Says(o) /\ Accounts(o)
    BY DEF AccountInv
  <2>2. op[o].at = "returned" /\ op[o].status = "SUCCESS" =>
            <<o, "SUCCESS">> \in Recorded
    BY <2>1 DEF Accounts
  <2>3. ASSUME NEW r \in Recorded, r[1] = o, r # <<o, "INTENT_RECEIVED">>
        PROVE  \/ r[2] = op[o].status
               \/ r[2] = "SUCCESS" /\ op[o].status = "SUCCESS_AUDIT_FAILED"
    BY <2>1, <2>3 DEF Says
  <2> QED
    BY <2>2, <2>3
<1> QED
  BY <1>1, AccountsInitially, AccountsStep, PTL DEF Spec

-----------------------------------------------------------------------------
(* The chain of the log *)

-----------------------------------------------------------------------------
(* A chain goes on *)

LEMMA SequenceIsCounted ==
    ASSUME NEW S, NEW l \in Seq(S)
    PROVE  SequenceOf(l) \in Nat \ {0}
<1>1. Len(l) \in Nat /\ DOMAIN l = 1..Len(l)
  OBVIOUS
<1>2. Chained(l) \subseteq 1..Len(l)
  BY <1>1 DEF Chained
<1>3. IsFiniteSet(1..Len(l))
  BY <1>1, FS_Interval
<1>4. Cardinality(Chained(l)) \in Nat
  BY <1>2, <1>3, FS_Subset, FS_CardinalityType
<1> QED
  BY <1>4 DEF SequenceOf

LEMMA ChainGoesOn ==
    ASSUME NEW S, NEW l \in Seq(S), ChainContinues(l), NEW line, NEW m,
           m = Append(l, line),
           line.sequence = SequenceOf(l), line.previous = PreviousOf(l)
    PROVE  ChainContinues(m)
<1> DEFINE n == Len(l)
<1>1. /\ n \in Nat /\ DOMAIN l = 1..n /\ DOMAIN m = 1..(n + 1)
      /\ \A i \in 1..n : m[i] = l[i]
      /\ m[n + 1] = line
  OBVIOUS
<1>2. \A i \in 1..(n + 1) : SubSeq(m, 1, i - 1) = SubSeq(l, 1, i - 1)
  OBVIOUS
<1>3. SubSeq(l, 1, n) = l
  OBVIOUS
<1>4. line.sequence # 0
  BY SequenceIsCounted
<1> HIDE DEF n
<1>5. \A j \in Chained(m) : j \in Chained(l) \/ j = n + 1
  BY <1>1 DEF Chained
<1>6. \A j \in DOMAIN m : j \in Chained(l) \/ j = n + 1 => j \in Chained(m)
  BY <1>1, <1>4 DEF Chained
<1>7. ASSUME NEW i \in Chained(l)
      PROVE  /\ m[i].sequence = SequenceOf(SubSeq(m, 1, i - 1))
             /\ m[i].previous = PreviousOf(SubSeq(m, 1, i - 1))
             /\ \A j \in DOMAIN m : j > i => j \in Chained(m)
  <2>1. i \in 1..n
    BY <1>1 DEF Chained
  <2>2. /\ l[i].sequence = SequenceOf(SubSeq(l, 1, i - 1))
        /\ l[i].previous = PreviousOf(SubSeq(l, 1, i - 1))
        /\ \A j \in DOMAIN l : j > i => j \in Chained(l)
    BY DEF ChainContinues
  <2>3. i \in 1..(n + 1) /\ SubSeq(m, 1, i - 1) = SubSeq(l, 1, i - 1) /\ m[i] = l[i]
    BY <1>1, <1>2, <2>1
  <2>4. ASSUME NEW j \in DOMAIN m, j > i
        PROVE  j \in Chained(m)
    <3>1. j \in DOMAIN l \/ j = n + 1
      BY <1>1
    <3> QED
      BY <1>6, <2>2, <2>4, <3>1
  <2> QED
    BY <2>2, <2>3, <2>4
<1>8. ASSUME NEW i, i = n + 1
      PROVE  /\ m[i].sequence = SequenceOf(SubSeq(m, 1, i - 1))
             /\ m[i].previous = PreviousOf(SubSeq(m, 1, i - 1))
             /\ \A j \in DOMAIN m : j > i => j \in Chained(m)
  <2>1. i \in 1..(n + 1) /\ i - 1 = n /\ \A j \in DOMAIN m : ~ (j > i)
    BY <1>1, <1>8
  <2>2. SubSeq(m, 1, i - 1) = l
    BY <1>2, <1>3, <2>1
  <2> QED
    BY <1>1, <1>8, <2>1, <2>2
<1>9. \A i \in Chained(m) :
        /\ m[i].sequence = SequenceOf(SubSeq(m, 1, i - 1))
        /\ m[i].previous = PreviousOf(SubSeq(m, 1, i - 1))
        /\ \A j \in DOMAIN m : j > i => j \in Chained(m)
  BY <1>5, <1>7, <1>8
<1> QED
  BY <1>9 DEF ChainContinues

-----------------------------------------------------------------------------
(* The lock and the head *)

Holding == {"locked", "verified", "appending"}

\* One writer at most is past the lock; what it found verified is still so, and
\* only it may have left a part of a line that is not damage.
ChainInv ==
    /\ CallsOK /\ LogOK /\ torn \in BOOLEAN /\ reader \in {"idle", "invalid"}
    /\ ChainContinues(log)
    /\ \A w \in Writers :
        /\ writer[w].at \in Holding => locked = {w}
        /\ writer[w].at \in {"verified", "appending"} =>
                /\ writer[w].sequence = SequenceOf(log)
                /\ writer[w].previous = PreviousOf(log)
        /\ writer[w].at = "verified" => ~torn
    /\ OnlyDamageIsReported

\* The call of w after a step, with the head it goes on from.
HeadIs(w, at, sequence, previous) ==
    /\ CallsOK'
    /\ writer'[w].at = at
    /\ writer'[w].sequence = sequence
    /\ writer'[w].previous = previous
    /\ \A v \in Writers \ {w} : writer'[v] = writer[v]

LEMMA NextHead ==
    ASSUME CallsOK, NEW w \in Writers, NEW c, IsCall(c),
           writer' = [writer EXCEPT ![w] = c]
    PROVE  HeadIs(w, c.at, c.sequence, c.previous)
<1>1. writer'[w] = c
  BY DEF CallsOK
<1>2. \A v \in Writers \ {w} : writer'[v] = writer[v]
  BY DEF CallsOK
<1>3. writer' = [v \in Writers |-> writer'[v]]
  BY DEF CallsOK
<1>4. CallsOK'
  BY <1>1, <1>2, <1>3 DEF CallsOK
<1> QED
  BY <1>1, <1>2, <1>4 DEF HeadIs

LEMMA Heads ==
    ASSUME CallsOK, NEW w \in Writers
    PROVE  /\ \A written \in BOOLEAN : EndWrite(w, written) =>
                HeadIs(w, "ended", writer[w].sequence, writer[w].previous)
           /\ \A at : writer' = [writer EXCEPT ![w] = [@ EXCEPT !.at = at]] =>
                HeadIs(w, at, writer[w].sequence, writer[w].previous)
           /\ \A sequence, previous :
                writer' = [writer EXCEPT ![w] = [@ EXCEPT
                    !.at = "verified", !.sequence = sequence,
                    !.previous = previous]] =>
                HeadIs(w, "verified", sequence, previous)
           /\ \A record : StartWrite(w, record) => HeadIs(w, "waiting", 0, <<>>)
           /\ WriterDies(w) => HeadIs(w, "idle", 0, <<>>)
<1>0. IsCall(writer[w])
  BY DEF CallsOK
<1>1. ASSUME NEW written \in BOOLEAN, EndWrite(w, written)
      PROVE  HeadIs(w, "ended", writer[w].sequence, writer[w].previous)
  <2> DEFINE c == [writer[w] EXCEPT !.at = "ended", !.written = written]
  <2>1. /\ IsCall(c) /\ c.at = "ended"
        /\ c.sequence = writer[w].sequence /\ c.previous = writer[w].previous
    BY <1>0 DEF IsCall
  <2>2. writer' = [writer EXCEPT ![w] = c]
    BY <1>1 DEF EndWrite
  <2> HIDE DEF c
  <2>3. HeadIs(w, c.at, c.sequence, c.previous)
    BY <2>1, <2>2, NextHead
  <2> QED
    BY <2>1, <2>3
<1>2. ASSUME NEW at, writer' = [writer EXCEPT ![w] = [@ EXCEPT !.at = at]]
      PROVE  HeadIs(w, at, writer[w].sequence, writer[w].previous)
  <2> DEFINE c == [writer[w] EXCEPT !.at = at]
  <2>1. /\ IsCall(c) /\ c.at = at
        /\ c.sequence = writer[w].sequence /\ c.previous = writer[w].previous
    BY <1>0 DEF IsCall
  <2>2. writer' = [writer EXCEPT ![w] = c]
    BY <1>2
  <2> HIDE DEF c
  <2>3. HeadIs(w, c.at, c.sequence, c.previous)
    BY <2>1, <2>2, NextHead
  <2> QED
    BY <2>1, <2>3
<1>3. ASSUME NEW sequence, NEW previous,
             writer' = [writer EXCEPT ![w] = [@ EXCEPT
                    !.at = "verified", !.sequence = sequence,
                    !.previous = previous]]
      PROVE  HeadIs(w, "verified", sequence, previous)
  <2> DEFINE c == [writer[w] EXCEPT !.at = "verified", !.sequence = sequence,
                                    !.previous = previous]
  <2>1. /\ IsCall(c) /\ c.at = "verified"
        /\ c.sequence = sequence /\ c.previous = previous
    BY <1>0 DEF IsCall
  <2>2. writer' = [writer EXCEPT ![w] = c]
    BY <1>3
  <2> HIDE DEF c
  <2>3. HeadIs(w, c.at, c.sequence, c.previous)
    BY <2>1, <2>2, NextHead
  <2> QED
    BY <2>1, <2>3
<1>4. ASSUME NEW record, StartWrite(w, record)
      PROVE  HeadIs(w, "waiting", 0, <<>>)
  <2> DEFINE c == [NoCall EXCEPT !.at = "waiting", !.record = record]
  <2>1. IsCall(c) /\ c.at = "waiting" /\ c.sequence = 0 /\ c.previous = <<>>
    BY DEF NoCall, IsCall
  <2>2. writer' = [writer EXCEPT ![w] = c]
    BY <1>4 DEF StartWrite
  <2> HIDE DEF c
  <2>3. HeadIs(w, c.at, c.sequence, c.previous)
    BY <2>1, <2>2, NextHead
  <2> QED
    BY <2>1, <2>3
<1>5. ASSUME WriterDies(w)
      PROVE  HeadIs(w, "idle", 0, <<>>)
  <2> DEFINE c == NoCall
  <2>1. IsCall(c) /\ c.at = "idle" /\ c.sequence = 0 /\ c.previous = <<>>
    BY DEF NoCall, IsCall
  <2>2. writer' = [writer EXCEPT ![w] = c]
    BY <1>5 DEF WriterDies
  <2> HIDE DEF c
  <2>3. HeadIs(w, c.at, c.sequence, c.previous)
    BY <2>1, <2>2, NextHead
  <2> QED
    BY <2>1, <2>3
<1> QED
  BY <1>1, <1>2, <1>3, <1>4, <1>5

-----------------------------------------------------------------------------
(* The steps *)

\* What a step does to the log.
Growth ==
    /\ Damaged => UNCHANGED <<log, torn>> /\ Appending' = {}
    /\ Len(log') >= Len(log)
    /\ SubSeq(log', 1, Len(log)) = log

LEMMA SameLogGrows ==
    ASSUME LogOK, UNCHANGED log
    PROVE  Len(log') >= Len(log) /\ SubSeq(log', 1, Len(log)) = log
<1>1. PICK S : log \in Seq(S)
  BY DEF LogOK
<1> QED
  BY <1>1

\* A step of one writer that adds no line.
LEMMA WriterKeepsChain ==
    ASSUME ChainInv, NEW w \in Writers, NEW at, NEW sequence, NEW previous,
           HeadIs(w, at, sequence, previous), UNCHANGED <<log, reader>>,
           torn' \in BOOLEAN,
           \A v \in Writers \ {w} : locked = {v} => locked' = {v} /\ at \notin Holding,
           at \in Holding => locked' = {w},
           at \in {"verified", "appending"} =>
                sequence = SequenceOf(log) /\ previous = PreviousOf(log),
           at = "verified" => ~torn',
           at = "appending" => writer[w].at = "verified",
           torn' # torn => at = "appending"
    PROVE  ChainInv' /\ Growth
<1>1. LogOK' /\ ChainContinues(log')
  BY DEF ChainInv, LogOK
<1>2. ASSUME NEW v \in Writers \ {w}
      PROVE  /\ writer'[v].at \in Holding => locked' = {v}
             /\ writer'[v].at \in {"verified", "appending"} =>
                    /\ writer'[v].sequence = SequenceOf(log')
                    /\ writer'[v].previous = PreviousOf(log')
             /\ writer'[v].at = "verified" => ~torn'
  <2>1. writer'[v] = writer[v] /\ log' = log
    BY DEF HeadIs
  <2>2. ASSUME writer[v].at \in Holding
        PROVE  locked' = {v} /\ torn' = torn
    <3>1. locked = {v}
      BY <2>2 DEF ChainInv
    <3>2. locked' = {v} /\ at \notin Holding
      BY <3>1
    <3> QED
      BY <3>2 DEF Holding
  <2> QED
    BY <2>1, <2>2 DEF ChainInv, Holding
<1>3. /\ writer'[w].at \in Holding => locked' = {w}
      /\ writer'[w].at \in {"verified", "appending"} =>
            /\ writer'[w].sequence = SequenceOf(log')
            /\ writer'[w].previous = PreviousOf(log')
      /\ writer'[w].at = "verified" => ~torn'
  BY DEF HeadIs
<1>4. Damaged => torn' = torn /\ Appending' = {}
  <2> SUFFICES ASSUME Damaged
               PROVE  torn' = torn /\ Appending' = {}
    OBVIOUS
  <2>1. writer[w].at # "verified"
    BY DEF Damaged, ChainInv
  <2>2. at # "appending" /\ torn' = torn
    BY <2>1
  <2>3. \A v \in Writers : writer'[v].at # "appending"
    BY <2>2 DEF HeadIs, Damaged, Appending
  <2> QED
    BY <2>2, <2>3 DEF Appending
<1>5. OnlyDamageIsReported'
  BY <1>4 DEF ChainInv, OnlyDamageIsReported, Damaged
<1>6. Growth
  BY <1>4, SameLogGrows DEF Growth, ChainInv
<1>7. CallsOK' /\ reader' \in {"idle", "invalid"}
  BY DEF HeadIs, ChainInv
<1> QED
  BY <1>1, <1>2, <1>3, <1>5, <1>6, <1>7 DEF ChainInv

\* And the step that adds one.
LEMMA AppendKeepsChain ==
    ASSUME ChainInv, NEW w \in Writers, writer[w].at = "appending",
           HeadIs(w, "ended", writer[w].sequence, writer[w].previous),
           NEW line, line.sequence = writer[w].sequence,
           line.previous = writer[w].previous,
           log' = Append(log, line), torn' = FALSE, UNCHANGED reader
    PROVE  ChainInv' /\ Growth
<1>1. PICK S : log \in Seq(S)
  BY DEF ChainInv, LogOK
<1>2. ChainContinues(log')
  <2>1. line.sequence = SequenceOf(log) /\ line.previous = PreviousOf(log)
    BY DEF ChainInv
  <2>2. ChainContinues(log)
    BY DEF ChainInv
  <2> QED
    BY <1>1, <2>1, <2>2, ChainGoesOn
<1>3. LogOK'
  BY AppendRecords DEF ChainInv
<1>4. \A v \in Writers : writer'[v].at \notin Holding
  <2>1. writer'[w].at \notin Holding
    BY DEF HeadIs, Holding
  <2>2. locked = {w}
    BY DEF ChainInv, Holding
  <2>3. \A v \in Writers \ {w} : writer'[v].at \notin Holding
    BY <2>2 DEF ChainInv, HeadIs
  <2> QED
    BY <2>1, <2>3
<1>5. ~Damaged
  BY DEF Damaged, Appending
<1>6. OnlyDamageIsReported'
  BY <1>5 DEF ChainInv, OnlyDamageIsReported
<1>7. Len(log') >= Len(log) /\ SubSeq(log', 1, Len(log)) = log
  BY <1>1
<1>8. CallsOK'
  BY DEF HeadIs
<1>9. reader' \in {"idle", "invalid"} /\ torn' \in BOOLEAN
  BY DEF ChainInv
<1> QED
  BY <1>2, <1>3, <1>4, <1>5, <1>6, <1>7, <1>8, <1>9 DEF ChainInv, Growth, Holding

LEMMA WriterStepKeepsChain ==
    ASSUME ChainInv, NEW w \in Writers, WriterStep(w)
    PROVE  ChainInv' /\ Growth
<1>0. CallsOK /\ torn \in BOOLEAN
  BY DEF ChainInv
<1>1. ASSUME NEW written \in BOOLEAN, EndWrite(w, written), UNCHANGED <<log, torn, reader>>,
             \A v \in Writers \ {w} : locked = {v} => locked' = {v}
      PROVE  ChainInv' /\ Growth
  <2>1. HeadIs(w, "ended", writer[w].sequence, writer[w].previous)
    BY <1>0, <1>1, Heads
  <2> QED
    BY <1>0, <1>1, <2>1, WriterKeepsChain DEF Holding
<1>2. \A v \in Writers \ {w} : locked = {v} => locked \ {w} = {v}
  OBVIOUS
<1>3. CASE AcquireLock(w)
  <2>1. CASE EndWrite(w, FALSE) /\ UNCHANGED locked
    BY <1>1, <1>3, <2>1 DEF AcquireLock
  <2>2. CASE /\ locked = {} /\ locked' = {w}
             /\ writer' = [writer EXCEPT ![w] = [@ EXCEPT !.at = "locked"]]
    <3>1. HeadIs(w, "locked", writer[w].sequence, writer[w].previous)
      BY <1>0, <2>2, Heads
    <3>2. UNCHANGED <<log, torn, reader>>
      BY <1>3 DEF AcquireLock
    <3> QED
      BY <1>0, <2>2, <3>1, <3>2, WriterKeepsChain
  <2> QED
    BY <1>3, <2>1, <2>2 DEF AcquireLock
<1>4. CASE VerifyBeforeAppend(w)
  <2>1. CASE EndWrite(w, FALSE) /\ locked' = locked \ {w}
    BY <1>1, <1>2, <1>4, <2>1 DEF VerifyBeforeAppend
  <2>2. CASE /\ Verified
             /\ writer' = [writer EXCEPT ![w] = [@ EXCEPT
                            !.at = "verified", !.sequence = SequenceOf(log),
                            !.previous = PreviousOf(log)]]
             /\ UNCHANGED locked
    <3>1. HeadIs(w, "verified", SequenceOf(log), PreviousOf(log))
      BY <1>0, <2>2, Heads
    <3>2. UNCHANGED <<log, torn, reader>> /\ ~torn
      BY <1>4, <2>2 DEF VerifyBeforeAppend, Verified
    <3>3. locked' = {w} /\ locked = {w}
      BY <1>4, <2>2 DEF VerifyBeforeAppend, ChainInv, Holding
    <3> QED
      BY <1>0, <3>1, <3>2, <3>3, WriterKeepsChain
  <2> QED
    BY <1>4, <2>1, <2>2 DEF VerifyBeforeAppend
<1>5. CASE BeginAppend(w)
  <2>1. CASE EndWrite(w, FALSE) /\ locked' = locked \ {w} /\ UNCHANGED torn
    BY <1>1, <1>2, <1>5, <2>1 DEF BeginAppend
  <2>2. CASE /\ torn' = TRUE
             /\ writer' = [writer EXCEPT ![w] = [@ EXCEPT !.at = "appending"]]
             /\ UNCHANGED locked
    <3>1. HeadIs(w, "appending", writer[w].sequence, writer[w].previous)
      BY <1>0, <2>2, Heads
    <3>2. UNCHANGED <<log, reader>> /\ writer[w].at = "verified"
      BY <1>5 DEF BeginAppend
    <3>3. /\ locked' = {w} /\ locked = {w}
          /\ writer[w].sequence = SequenceOf(log)
          /\ writer[w].previous = PreviousOf(log)
      BY <2>2, <3>2 DEF ChainInv, Holding
    <3>4. torn' \in BOOLEAN
      BY <2>2
    <3> QED
      BY <3>1, <3>2, <3>3, <3>4, WriterKeepsChain
  <2> QED
    BY <1>5, <2>1, <2>2 DEF BeginAppend
<1>6. CASE FinishAppend(w)
  <2> DEFINE line == [sequence |-> writer[w].sequence,
                      previous |-> writer[w].previous,
                      record |-> writer[w].record]
  <2>1. /\ writer[w].at = "appending" /\ locked' = locked \ {w} /\ UNCHANGED reader
        /\ EndWrite(w, TRUE) \/ EndWrite(w, FALSE)
        /\ \/ log' = Append(log, line) /\ torn' = FALSE
           \/ EndWrite(w, FALSE) /\ UNCHANGED <<log, torn>>
    BY <1>6 DEF FinishAppend
  <2>2. line.sequence = writer[w].sequence /\ line.previous = writer[w].previous
    OBVIOUS
  <2> HIDE DEF line
  <2>3. HeadIs(w, "ended", writer[w].sequence, writer[w].previous)
    BY <1>0, <2>1, Heads
  <2>4. CASE log' = Append(log, line) /\ torn' = FALSE
    BY <2>1, <2>2, <2>3, <2>4, AppendKeepsChain
  <2>5. CASE EndWrite(w, FALSE) /\ UNCHANGED <<log, torn>>
    BY <1>1, <1>2, <2>1, <2>5
  <2> QED
    BY <2>1, <2>4, <2>5
<1> QED
  BY <1>3, <1>4, <1>5, <1>6 DEF WriterStep

\* What the actions that write outcomes do to the log is to start a write.
LEMMA StepsOfTheLog ==
    [Next]_vars =>
        \/ \E w \in Writers : WriterStep(w)
        \/ VerifyLog
        \/ \E w \in Writers : \E record :
                StartWrite(w, record) /\ UNCHANGED <<log, torn, locked, reader>>
        \/ \E w \in Writers : WriterDies(w)
        \/ UNCHANGED auditVars
<1> SUFFICES ASSUME [Next]_vars,
                    ~UNCHANGED auditVars, ~ \E w \in Writers : WriterDies(w)
             PROVE  \/ \E w \in Writers : WriterStep(w)
                    \/ VerifyLog
                    \/ \E w \in Writers : \E record :
                            /\ StartWrite(w, record)
                            /\ UNCHANGED <<log, torn, locked, reader>>
  OBVIOUS
<1>1. ASSUME NEW o \in Writers, OperationStep(o)
      PROVE  \E record : StartWrite(o, record) /\ UNCHANGED <<log, torn, locked, reader>>
  <2>1. CASE RequestAction(o)
    BY <2>1 DEF RequestAction
  <2>2. CASE ~RequestAction(o)
    <3>1. \E status : Conclude(o, status)
      BY <1>1, <2>2 DEF OperationStep, IntentRecorded, PolicyGate,
         ValidateProposal, Approve, CaptureBefore, Connect, CreateIndex, AnalyzeTable,
         CaptureAfterAnalyze, CaptureAfterIndex, CompareResults, MeasureRewrite,
         DecideIndex, CheckRollbackTarget, DropIndex, OutcomeRecorded, Unhandled,
         Fail, Same
    <3> QED
      BY <3>1 DEF Conclude
  <2> QED
    BY <2>1, <2>2
<1>2. \A o \in Writers : ~Die(o)
  BY DEF Die
<1>3. ~SetControls /\ ~OtherSession /\ ~UNCHANGED vars
  BY DEF SetControls, OtherSession, vars
<1> QED
  BY <1>1, <1>2, <1>3 DEF Next, AuditStep

LEMMA ChainStep == ChainInv /\ [Next]_vars => ChainInv' /\ Growth
<1> SUFFICES ASSUME ChainInv, [Next]_vars
             PROVE  ChainInv' /\ Growth
  OBVIOUS
<1>0. CallsOK /\ torn \in BOOLEAN
  BY DEF ChainInv
<1>1. CASE \E w \in Writers : WriterStep(w)
  BY <1>1, WriterStepKeepsChain
<1>2. CASE VerifyLog
  <2>1. UNCHANGED <<log, torn, locked, writer>> /\ reader' \in {"idle", "invalid"}
    BY <1>2 DEF VerifyLog
  <2>2. Growth
    BY <2>1, SameLogGrows DEF ChainInv, Growth, Damaged, Appending
  <2>3. reader' = "invalid" => Damaged
    <3>1. Appending = {}
      BY <1>2 DEF VerifyLog, ChainInv, Holding, Appending
    <3> QED
      BY <1>2, <3>1 DEF VerifyLog, Verified, Damaged, ChainInv
  <2>4. OnlyDamageIsReported'
    BY <2>1, <2>3 DEF OnlyDamageIsReported, Damaged, Appending
  <2> QED
    BY <2>1, <2>2, <2>4 DEF ChainInv, CallsOK, LogOK
<1>3. ASSUME NEW w \in Writers, NEW record, StartWrite(w, record),
             UNCHANGED <<log, torn, locked, reader>>
      PROVE  ChainInv' /\ Growth
  <2>1. HeadIs(w, "waiting", 0, <<>>)
    BY <1>0, <1>3, Heads
  <2> QED
    BY <1>0, <1>3, <2>1, WriterKeepsChain DEF Holding
<1>4. ASSUME NEW w \in Writers, WriterDies(w)
      PROVE  ChainInv' /\ Growth
  <2>1. HeadIs(w, "idle", 0, <<>>)
    BY <1>0, <1>4, Heads
  <2>2. UNCHANGED <<log, torn, reader>> /\ locked' = locked \ {w}
    BY <1>4 DEF WriterDies
  <2> QED
    BY <1>0, <2>1, <2>2, WriterKeepsChain DEF Holding
<1>5. CASE UNCHANGED auditVars
  <2>1. Growth
    BY <1>5, SameLogGrows DEF ChainInv, Growth, Damaged, Appending, auditVars
  <2> QED
    BY <1>5, <2>1 DEF ChainInv, CallsOK, LogOK, OnlyDamageIsReported, Damaged,
       Appending, auditVars
<1> QED
  BY <1>1, <1>2, <1>3, <1>4, <1>5, StepsOfTheLog

LEMMA ChainInitially == Init => ChainInv
<1> SUFFICES ASSUME Init
             PROVE  ChainInv
  OBVIOUS
<1>1. CallsOK /\ LogOK
  BY AccountsInitially DEF AccountInv
<1>2. torn = FALSE /\ reader = "idle"
  BY DEF Init, AuditInit
<1>3. \A w \in Writers : writer[w].at = "idle"
  BY DEF Init, AuditInit, NoCall
<1>4. ChainContinues(log)
  <2>1. Chained(log) = {}
    <3>1. log = <<>> \/ log = <<LegacyLine>>
      BY DEF Init, AuditInit
    <3>2. \A i \in DOMAIN log : log[i] = LegacyLine
      BY <3>1
    <3> QED
      BY <3>2 DEF Chained, LegacyLine
  <2> QED
    BY <2>1 DEF ChainContinues
<1> QED
  BY <1>1, <1>2, <1>3, <1>4 DEF ChainInv, OnlyDamageIsReported, Holding

\* However many processes append, fail or die, the lines of the log are one chain
\* and one writer at most is in the file.
THEOREM LogStaysOneChain == Spec => []LogIsOneChain
<1>1. ChainInv => LogIsOneChain
  BY DEF ChainInv, LogIsOneChain, Appending, Holding
<1> QED
  BY <1>1, ChainInitially, ChainStep, PTL DEF Spec

\* A log is reported only if a part of a line is in it that nobody is writing.
THEOREM ReportsAreOfDamage == Spec => []OnlyDamageIsReported
<1>1. ChainInv => OnlyDamageIsReported
  BY DEF ChainInv
<1> QED
  BY <1>1, ChainInitially, ChainStep, PTL DEF Spec

\* No line is ever changed or removed, and what is damaged is left as it is.
THEOREM LogGrowsOnly == Spec => LogOnlyGrows
<1>1. ChainInv /\ [Next]_vars =>
        [ /\ Damaged => UNCHANGED <<log, torn>> /\ Appending' = {}
          /\ Len(log') >= Len(log)
          /\ SubSeq(log', 1, Len(log)) = log ]_auditVars
  BY ChainStep DEF Growth
<1> QED
  BY <1>1, ChainInitially, ChainStep, PTL DEF Spec, LogOnlyGrows

-----------------------------------------------------------------------------
(* Types *)

Entry == Writers \X (Statuses \cup {"INTENT_RECEIVED"})

Ends == {<<>>, <<"legacy">>} \cup Entry

CallAts == {"idle", "waiting", "locked", "verified", "appending", "ended"}

\* What is appended is a line because what is being written is one.
LogTypes ==
    /\ CallsOK
    /\ log \in Seq(Line) /\ torn \in BOOLEAN
    /\ locked \subseteq Writers /\ reader \in {"idle", "invalid"}
    /\ \A w \in Writers :
        /\ writer[w].at \in CallAts
        /\ writer[w].at # "idle" => writer[w].record \in Entry
        /\ writer[w].at \in {"verified", "appending"} =>
                writer[w].sequence \in Nat /\ writer[w].previous \in Ends

LEMMA HeadsAreTyped ==
    ASSUME log \in Seq(Line)
    PROVE  SequenceOf(log) \in Nat /\ PreviousOf(log) \in Ends
<1>1. SequenceOf(log) \in Nat
  BY SequenceIsCounted
<1>2. ASSUME log # <<>>
      PROVE  log[Len(log)].record \in Ends
  <2>1. log[Len(log)] \in Line
    BY <1>2
  <2> QED
    BY <2>1 DEF Line, Ends, Entry
<1> QED
  BY <1>1, <1>2 DEF PreviousOf, Ends

\* A step of one writer that adds no line keeps the types.
LEMMA WriterKeepsTypes ==
    ASSUME LogTypes, NEW w \in Writers, NEW at \in CallAts, NEW record, NEW written,
           NEW sequence, NEW previous,
           CallIs(w, at, record, written), HeadIs(w, at, sequence, previous),
           UNCHANGED <<log, reader>>, torn' \in BOOLEAN, locked' \subseteq Writers,
           at # "idle" => record \in Entry,
           at \in {"verified", "appending"} => sequence \in Nat /\ previous \in Ends
    PROVE  LogTypes'
  BY DEF LogTypes, CallIs, HeadIs

LEMMA WriterStepKeepsTypes ==
    ASSUME LogTypes, NEW w \in Writers, WriterStep(w)
    PROVE  LogTypes'
<1>0. /\ CallsOK /\ torn \in BOOLEAN /\ locked \subseteq Writers
      /\ "locked" \in CallAts /\ "verified" \in CallAts
      /\ "appending" \in CallAts /\ "ended" \in CallAts
  BY DEF LogTypes, CallAts
<1>1. ASSUME NEW written \in BOOLEAN, EndWrite(w, written), writer[w].at # "idle",
             UNCHANGED <<log, reader>>, torn' \in BOOLEAN, locked' \subseteq Writers
      PROVE  LogTypes'
  <2>1. CallIs(w, "ended", writer[w].record, written)
    BY <1>0, <1>1, EndWriteEnds
  <2>2. HeadIs(w, "ended", writer[w].sequence, writer[w].previous)
    BY <1>0, <1>1, Heads
  <2>3. writer[w].record \in Entry
    BY <1>1 DEF LogTypes
  <2> QED
    BY <1>0, <1>1, <2>1, <2>2, <2>3, WriterKeepsTypes
<1>2. ASSUME NEW at \in {"locked", "appending"},
             writer' = [writer EXCEPT ![w] = [@ EXCEPT !.at = at]],
             writer[w].at # "idle", at = "appending" => writer[w].at = "verified",
             UNCHANGED <<log, reader>>, torn' \in BOOLEAN, locked' \subseteq Writers
      PROVE  LogTypes'
  <2>1. CallIs(w, at, writer[w].record, writer[w].written)
    BY <1>0, <1>2, CallGoesOn
  <2>2. HeadIs(w, at, writer[w].sequence, writer[w].previous)
    BY <1>0, <1>2, Heads
  <2>3. /\ writer[w].record \in Entry
        /\ at = "appending" =>
                writer[w].sequence \in Nat /\ writer[w].previous \in Ends
    BY <1>2 DEF LogTypes
  <2> QED
    BY <1>0, <1>2, <2>1, <2>2, <2>3, WriterKeepsTypes
<1>3. CASE AcquireLock(w)
  BY <1>0, <1>1, <1>2, <1>3 DEF AcquireLock
<1>4. CASE VerifyBeforeAppend(w)
  <2>1. CASE EndWrite(w, FALSE)
    BY <1>0, <1>1, <1>4, <2>1 DEF VerifyBeforeAppend
  <2>2. CASE writer' = [writer EXCEPT ![w] = [@ EXCEPT
                        !.at = "verified", !.sequence = SequenceOf(log),
                        !.previous = PreviousOf(log)]]
    <3>1. CallIs(w, "verified", writer[w].record, writer[w].written)
      BY <1>0, <2>2, CallIsVerified
    <3>2. HeadIs(w, "verified", SequenceOf(log), PreviousOf(log))
      BY <1>0, <2>2, Heads
    <3>3. writer[w].record \in Entry /\ log \in Seq(Line)
      BY <1>4 DEF VerifyBeforeAppend, LogTypes
    <3>4. SequenceOf(log) \in Nat /\ PreviousOf(log) \in Ends
      BY <3>3, HeadsAreTyped
    <3>5. UNCHANGED <<log, torn, reader>> /\ locked' \subseteq Writers
      BY <1>0, <1>4 DEF VerifyBeforeAppend
    <3> QED
      BY <1>0, <3>1, <3>2, <3>3, <3>4, <3>5, WriterKeepsTypes
  <2> QED
    BY <1>4, <2>1, <2>2 DEF VerifyBeforeAppend
<1>5. CASE BeginAppend(w)
  <2>1. torn' \in BOOLEAN
    BY <1>0, <1>5 DEF BeginAppend
  <2> QED
    BY <1>0, <1>1, <1>2, <1>5, <2>1 DEF BeginAppend
<1>6. CASE FinishAppend(w)
  <2> DEFINE line == [sequence |-> writer[w].sequence,
                      previous |-> writer[w].previous,
                      record |-> writer[w].record]
  <2>1. /\ writer[w].at = "appending" /\ locked' = locked \ {w} /\ UNCHANGED reader
        /\ EndWrite(w, TRUE) \/ EndWrite(w, FALSE)
        /\ log' = Append(log, line) \/ UNCHANGED log
        /\ torn' = FALSE \/ UNCHANGED torn
    BY <1>6 DEF FinishAppend
  <2>2. line \in Line
    BY <2>1 DEF LogTypes, Line, Ends, Entry
  <2> HIDE DEF line
  <2>3. log' \in Seq(Line)
    BY <2>1, <2>2 DEF LogTypes
  <2>4. HeadIs(w, "ended", writer[w].sequence, writer[w].previous)
    BY <1>0, <2>1, Heads
  <2>5. PICK written \in BOOLEAN : CallIs(w, "ended", writer[w].record, written)
    BY <1>0, <2>1, EndWriteEnds
  <2>6. torn' \in BOOLEAN /\ locked' \subseteq Writers
    BY <1>0, <2>1
  <2> QED
    BY <1>0, <2>1, <2>3, <2>4, <2>5, <2>6 DEF LogTypes, CallIs, HeadIs
<1> QED
  BY <1>3, <1>4, <1>5, <1>6 DEF WriterStep

\* A write is of an intent or of a known status.
LEMMA WritesAreEntries ==
    ASSUME OpsOK, NEW o \in Writers, OperationStep(o), ~UNCHANGED auditVars
    PROVE  \E record \in Entry :
                StartWrite(o, record) /\ UNCHANGED <<log, torn, locked, reader>>
<1>1. CASE RequestAction(o)
  BY <1>1 DEF RequestAction, Entry
<1>2. CASE ~RequestAction(o)
  <2> USE DEF Statuses, CleanRefusals, RolledBack, Refreshed, Doubtful
  <2>1. \E status \in Statuses : Conclude(o, status)
    BY <1>2 DEF OperationStep, IntentRecorded, PolicyGate,
       ValidateProposal, Approve, CaptureBefore, Connect, CreateIndex, AnalyzeTable,
       CaptureAfterAnalyze, CaptureAfterIndex, CompareResults, MeasureRewrite,
       DecideIndex, CheckRollbackTarget, DropIndex, OutcomeRecorded, Unhandled,
       Fail, Same, RollbackStatus
  <2> QED
    BY <2>1 DEF Conclude, Entry
<1> QED
  BY <1>1, <1>2

LEMMA LogTypesStep == OpsOK /\ LogTypes /\ [Next]_vars => LogTypes'
<1> SUFFICES ASSUME OpsOK, LogTypes, [Next]_vars
             PROVE  LogTypes'
  OBVIOUS
<1>0. CallsOK /\ torn \in BOOLEAN /\ locked \subseteq Writers
  BY DEF LogTypes
<1>1. CASE UNCHANGED auditVars
  BY <1>1 DEF LogTypes, CallsOK, auditVars
<1>2. ASSUME NEW w \in Writers, WriterStep(w)
      PROVE  LogTypes'
  BY <1>2, WriterStepKeepsTypes
<1>3. CASE VerifyLog
  BY <1>3 DEF VerifyLog, LogTypes, CallsOK
<1>4. ASSUME NEW w \in Writers, NEW record \in Entry, StartWrite(w, record),
             UNCHANGED <<log, torn, locked, reader>>
      PROVE  LogTypes'
  <2>1. CallIs(w, "waiting", record, FALSE) /\ HeadIs(w, "waiting", 0, <<>>)
    BY <1>0, <1>4, StartWriteStarts, Heads
  <2> DEFINE written == FALSE
  <2> HIDE DEF written
  <2>2. CallIs(w, "waiting", record, written)
    BY <2>1 DEF written
  <2> QED
    BY <1>0, <1>4, <2>1, <2>2, WriterKeepsTypes DEF CallAts
<1>5. ASSUME NEW w \in Writers, WriterDies(w)
      PROVE  LogTypes'
  <2>1. CallIs(w, "idle", <<>>, FALSE) /\ HeadIs(w, "idle", 0, <<>>)
    BY <1>0, <1>5, WriterDiesIdle, Heads
  <2> DEFINE written == FALSE
  <2> HIDE DEF written
  <2>2. CallIs(w, "idle", <<>>, written)
    BY <2>1 DEF written
  <2>3. UNCHANGED <<log, torn, reader>> /\ locked' \subseteq Writers
    BY <1>0, <1>5 DEF WriterDies
  <2> QED
    BY <1>0, <2>1, <2>2, <2>3, WriterKeepsTypes DEF CallAts
<1>6. ASSUME NEW o \in Writers, OperationStep(o)
      PROVE  LogTypes'
  BY <1>1, <1>4, <1>6, WritesAreEntries
<1>7. ASSUME NEW o \in Writers, Die(o)
      PROVE  LogTypes'
  BY <1>5, <1>7 DEF Die
<1>8. CASE SetControls \/ OtherSession \/ UNCHANGED vars
  BY <1>1, <1>8 DEF SetControls, OtherSession, vars
<1> QED
  BY <1>2, <1>3, <1>6, <1>7, <1>8 DEF Next, AuditStep

TableTypes == index \in Writers \cup {"dba", "nobody"} /\ analyzed \subseteq Writers

LEMMA TableTypesStep == TableTypes /\ [Next]_vars => TableTypes'
<1> SUFFICES ASSUME TableTypes, [Next]_vars
             PROVE  TableTypes'
  OBVIOUS
<1>1. ASSUME NEW o \in Writers, OperationStep(o) \/ Die(o)
      PROVE  TableTypes'
  BY <1>1 DEF TableTypes, OperationStep, RequestAction, IntentRecorded, PolicyGate,
     ValidateProposal, Approve, CaptureBefore, Connect, CreateIndex, AnalyzeTable,
     CaptureAfterAnalyze, CaptureAfterIndex, CompareResults, MeasureRewrite,
     DecideIndex, CheckRollbackTarget, DropIndex, OutcomeRecorded, Die, Same,
     SameButAudit
<1> QED
  BY <1>1 DEF Next, TableTypes, SetControls, OtherSession, opVars, vars

\* The types of all that the processes share and do.
THEOREM MaintenanceTypeCorrect == Spec => []MaintenanceTypeOK
<1> DEFINE Inv == /\ AccountInv /\ LogTypes /\ TableTypes
                  /\ controls \in {Missing} \cup ControlStates
<1>1. Init => Inv
  <2> SUFFICES ASSUME Init
               PROVE  Inv
    OBVIOUS
  <2>1. AccountInv
    BY AccountsInitially
  <2>2. log \in Seq(Line)
    <3>1. LegacyLine \in Line
      BY DEF LegacyLine, Line
    <3> QED
      BY <3>1 DEF Init, AuditInit
  <2>3. \A w \in Writers : writer[w].at = "idle"
    BY DEF Init, AuditInit, NoCall
  <2>4. /\ torn \in BOOLEAN /\ locked \subseteq Writers /\ reader = "idle"
        /\ TableTypes /\ controls = Missing
    BY DEF Init, AuditInit, TableTypes
  <2> QED
    BY <2>1, <2>2, <2>3, <2>4 DEF LogTypes, AccountInv, CallAts
<1>2. Inv /\ [Next]_vars => Inv'
  <2>1. ASSUME controls \in {Missing} \cup ControlStates, [Next]_vars
        PROVE  (controls \in {Missing} \cup ControlStates)'
    BY <2>1, StepsOfTheControls DEF SetControls
  <2> QED
    BY <2>1, AccountsStep, LogTypesStep, TableTypesStep DEF AccountInv
<1>3. Inv => MaintenanceTypeOK
  BY DEF LogTypes, TableTypes, AccountInv, OpsOK, CallAts, MaintenanceTypeOK
<1> QED
  BY <1>1, <1>2, <1>3, PTL DEF Spec

=============================================================================
