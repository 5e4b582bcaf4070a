------------------------- MODULE IncidentWorkflowProofs -------------------------
(***************************************************************************)
(* The incident workflow, for every number of actions, set of passes and set *)
(* of faults: its types, who may signal what and under whose approval, and    *)
(* that the owner of the lease decides on the incident as it is stored.       *)
(***************************************************************************)
EXTENDS IncidentWorkflow, TLAPS

-----------------------------------------------------------------------------
(* Type correctness *)

PassTypeOK ==
    /\ pc \in [Passes -> Labels]
    /\ next \in [Passes -> Continuations]
    /\ view \in [Passes -> Incident]
    /\ index \in [Passes -> 0..N]
    /\ decision \in [Passes -> {"none", "approve", "reject"}]

\* The program counter and the local copy, which most steps of a pass move.
MoveTypeOK ==
    /\ pc \in [Passes -> Labels]
    /\ next \in [Passes -> Continuations]
    /\ view \in [Passes -> Incident]

\* What TypeOK leaves out and a call of the executor needs: a pass that is
\* inside the loop body has moved to an action.
LoopContinuations == {"observe", "gate2", "execute", "interpret", "recorded"}

LoopLabels ==
    LoopContinuations \cup {"renew1", "gate1", "renew2", "executing", "verify"}

InLoop(p) ==
    \/ pc[p] \in LoopLabels
    \/ pc[p] \in {"load", "checkpoint"} /\ next[p] \in LoopContinuations

LoopIndexOK == \A p \in Passes : InLoop(p) => index[p] \in Actions

\* The planned incident is an incident.
LEMMA PlannedType == PlannedIncident \in Incident
  BY DEF PlannedIncident, Incident, IncidentStates, ActionStates

\* Goto moves the program counter to a label.
LEMMA GotoType ==
  ASSUME TypeOK, NEW p \in Passes, NEW label \in Labels, Goto(p, label)
  PROVE  pc' \in [Passes -> Labels] /\ next' \in [Passes -> Continuations]
  BY DEF TypeOK, Goto

\* LoadThen leaves a continuation for the load.
LEMMA LoadThenType ==
  ASSUME TypeOK, NEW p \in Passes, NEW label \in Continuations,
         LoadThen(p, label)
  PROVE  pc' \in [Passes -> Labels] /\ next' \in [Passes -> Continuations]
  BY DEF TypeOK, LoadThen, Labels

\* CheckpointThen leaves an incident to save and a continuation.
LEMMA CheckpointThenType ==
  ASSUME TypeOK, NEW p \in Passes, NEW value \in Incident,
         NEW label \in Continuations, CheckpointThen(p, value, label)
  PROVE  MoveTypeOK'
  BY DEF TypeOK, CheckpointThen, Labels, MoveTypeOK

\* A pass that ends has blank locals.
LEMMA EndType ==
  ASSUME TypeOK, NEW p \in Passes, NEW label \in Labels, End(p, label)
  PROVE  MoveTypeOK' /\ index' \in [Passes -> 0..N]
  BY PlannedType, NAssumption DEF TypeOK, End, MoveTypeOK, Continuations

\* Editing the state of an incident, and one of its actions, gives an incident.
LEMMA EditType ==
  ASSUME NEW value \in Incident, NEW a \in Actions, NEW act \in ActionStates,
         NEW state \in IncidentStates, NEW result \in Results,
         NEW id \in Passes
  PROVE  /\ [value EXCEPT !.state = state] \in Incident
         /\ [value EXCEPT !.act[a] = act] \in Incident
         /\ [value EXCEPT !.act[a] = act, !.state = state] \in Incident
         /\ [value EXCEPT !.act[a] = act, !.result[a] = result] \in Incident
         /\ [value EXCEPT !.state = state, !.approval = id] \in Incident
  BY DEF Incident

\* The three edits of a copy keep the types.
LEMMA StopType ==
  ASSUME TypeOK, NEW p \in Passes, NEW state \in IncidentStates,
         StopIncident(p, state)
  PROVE  MoveTypeOK'
<1>1. [view[p] EXCEPT !.state = state] \in Incident
  BY DEF TypeOK, Incident
<1>2. "release" \in Continuations
  BY DEF Continuations
<1>3. QED
  BY <1>1, <1>2, CheckpointThenType DEF StopIncident

LEMMA StopActionType ==
  ASSUME TypeOK, NEW p \in Passes, NEW a, NEW act \in ActionStates,
         StopAction(p, a, act)
  PROVE  MoveTypeOK'
<1>1. [view[p] EXCEPT !.act[a] = act, !.state = "REVIEW_REQUIRED"] \in Incident
  BY DEF TypeOK, Incident, IncidentStates
<1>2. "release" \in Continuations
  BY DEF Continuations
<1>3. QED
  BY <1>1, <1>2, CheckpointThenType DEF StopAction

LEMMA FinishActionType ==
  ASSUME TypeOK, NEW p \in Passes, NEW a, NEW act \in ActionStates,
         FinishAction(p, a, act)
  PROVE  MoveTypeOK'
<1>1. [view[p] EXCEPT !.act[a] = act] \in Incident
  BY DEF TypeOK, Incident
<1>2. "step" \in Continuations
  BY DEF Continuations
<1>3. QED
  BY <1>1, <1>2, CheckpointThenType DEF FinishAction

\* Every transaction of a pass keeps the store's types.
LEMMA StoreStepType ==
  ASSUME TypeOK, NEW p \in Passes,
         \/ SaveIncident(p, view[p]) \/ LoadIncident(p)
         \/ AcquireLease(p) \/ RenewLease(p) \/ ReleaseLease(p)
         \/ UNCHANGED storeVars
  PROVE  StoreTypeOK'
<1> USE DEF TypeOK, StoreTypeOK
<1>1. CASE SaveIncident(p, view[p])
  BY <1>1 DEF SaveIncident
<1>2. CASE LoadIncident(p)
  BY <1>2 DEF LoadIncident
<1>3. CASE AcquireLease(p)
  BY <1>3 DEF AcquireLease
<1>4. CASE RenewLease(p)
  BY <1>4 DEF RenewLease
<1>5. CASE ReleaseLease(p)
  BY <1>5 DEF ReleaseLease
<1>6. CASE UNCHANGED storeVars
  BY <1>6 DEF storeVars
<1>7. QED
  BY <1>1, <1>2, <1>3, <1>4, <1>5, <1>6

\* So does the clock.
LEMMA ClockType ==
  ASSUME TypeOK, Clock
  PROVE  StoreTypeOK'
<1> USE DEF TypeOK, StoreTypeOK
<1>1. CASE LeaseExpires
  BY <1>1 DEF LeaseExpires
<1>2. ASSUME NEW p \in Passes, ApprovalExpires(p)
      PROVE  StoreTypeOK'
  BY <1>2 DEF ApprovalExpires
<1>3. CASE DeadlinePasses
  BY <1>3 DEF DeadlinePasses
<1>4. QED
  BY <1>1, <1>2, <1>3 DEF Clock

\* So does a claim.
LEMMA ClaimType ==
  ASSUME TypeOK, NEW p \in Passes, NEW a \in Actions, NEW id, NEW waiter,
         ClaimActionExecution(p, a, id, waiter)
  PROVE  StoreTypeOK'
<1>1. [row EXCEPT !.act[a] = "APPLYING"] \in Incident
  BY DEF TypeOK, StoreTypeOK, Incident, ActionStates
<1>2. QED
  BY <1>1 DEF TypeOK, StoreTypeOK, ClaimActionExecution

\* An execution that moves on or returns is still an execution.
LEMMA ExecutionMoveType ==
  ASSUME TypeOK, NEW p \in Passes
  PROVE  /\ \A at \in {"validate", "claim", "policy", "send", "verify"} :
                Advance(p, at) => exec' \in [Passes -> Execution]
         /\ \A result \in Results :
                Return(p, result) => exec' \in [Passes -> Execution]
<1>1. exec \in [Passes -> Execution] /\ exec[p] \in Execution
  BY DEF TypeOK, ExecTypeOK
<1>2. ASSUME NEW at \in {"validate", "claim", "policy", "send", "verify"}
      PROVE  [exec[p] EXCEPT !.at = at] \in Execution
  BY <1>1 DEF Execution
<1>3. ASSUME NEW result \in Results
      PROVE  [exec[p] EXCEPT !.at = "returned", !.result = result] \in Execution
  BY <1>1 DEF Execution
<1>4. QED
  BY <1>1, <1>2, <1>3 DEF Advance, Return

\* Every move of an executor keeps the types; the pass is not concerned.
LEMMA ExecutorStepType ==
  ASSUME TypeOK, NEW p \in Passes, ExecutorStep(p), UNCHANGED passVars
  PROVE  TypeOK'
<1>1. PassTypeOK'
  BY DEF TypeOK, PassTypeOK, passVars
<1>2. exec[p].act \in Actions
  BY DEF TypeOK, ExecTypeOK, Execution
<1>3. /\ \A at \in {"validate", "claim", "policy", "send", "verify"} :
            Advance(p, at) => exec' \in [Passes -> Execution]
      /\ \A result \in Results :
            Return(p, result) => exec' \in [Passes -> Execution]
  BY ExecutionMoveType
<1>4. CASE RecordIntent(p)
  <2>1. exec' \in [Passes -> Execution]
    BY <1>3, <1>4 DEF RecordIntent, Results
  <2>2. UNCHANGED <<storeVars, blocker, claims, signals>>
    BY <1>4 DEF RecordIntent, histVars
  <2>3. QED
    BY <1>1, <2>1, <2>2, StoreStepType
       DEF TypeOK, PassTypeOK, GraphTypeOK, ExecTypeOK
<1>5. CASE ValidateProposal(p)
  <2>1. exec' \in [Passes -> Execution]
    <3>1. ASSUME NEW waiter \in WaiterKinds
          PROVE  [exec[p] EXCEPT !.at = "claim", !.waiter = waiter] \in Execution
      <4>1. exec[p] \in Execution
        BY DEF TypeOK, ExecTypeOK
      <4>2. QED
        BY <4>1 DEF Execution
    <3>2. QED
      BY <1>3, <1>5, <3>1 DEF TypeOK, ExecTypeOK, ValidateProposal, Results
  <2>2. UNCHANGED <<storeVars, blocker, claims, signals>>
    BY <1>5 DEF ValidateProposal, histVars
  <2>3. QED
    BY <1>1, <2>1, <2>2, StoreStepType
       DEF TypeOK, PassTypeOK, GraphTypeOK, ExecTypeOK
<1>6. CASE ClaimAction(p)
  <2>1. exec' \in [Passes -> Execution]
    BY <1>3, <1>6 DEF ClaimAction, Results
  <2>2. StoreTypeOK'
    BY <1>2, <1>6, StoreStepType, ClaimType DEF ClaimAction
  <2>3. claims' \in [Actions -> SUBSET Passes]
    BY <1>2, <1>6 DEF TypeOK, ExecTypeOK, ClaimAction
  <2>4. UNCHANGED <<blocker, signals>>
    BY <1>6 DEF ClaimAction
  <2>5. QED
    BY <1>1, <2>1, <2>2, <2>3, <2>4
       DEF TypeOK, PassTypeOK, GraphTypeOK, ExecTypeOK
<1>7. CASE RecheckPolicy(p)
  <2>1. exec' \in [Passes -> Execution]
    BY <1>3, <1>7 DEF RecheckPolicy, Results
  <2>2. UNCHANGED <<storeVars, blocker, claims, signals>>
    BY <1>7 DEF RecheckPolicy, histVars
  <2>3. QED
    BY <1>1, <2>1, <2>2, StoreStepType
       DEF TypeOK, PassTypeOK, GraphTypeOK, ExecTypeOK
<1>8. CASE SendTermination(p)
  <2>1. exec' \in [Passes -> Execution]
    BY <1>3, <1>8 DEF SendTermination, Results
  <2>2. blocker' \in [Actions -> {"held", "gone", "reused"}]
    BY <1>2, <1>8 DEF SendTermination, TypeOK, GraphTypeOK
  <2>3. signals' \in [Actions -> SUBSET Signal]
    <3>1. CASE UNCHANGED signals
      BY <3>1 DEF TypeOK, ExecTypeOK
    <3>2. CASE signals' = [signals EXCEPT ![exec[p].act] = @ \cup
                              {SignalOf(p, exec[p].act)}]
      <4>1. exec[p] \in Execution
        BY DEF TypeOK, ExecTypeOK
      <4>2. SignalOf(p, exec[p].act) \in Signal
        BY <4>1 DEF Execution, Signal, SignalOf
      <4>3. QED
        BY <1>2, <3>2, <4>2 DEF TypeOK, ExecTypeOK
    <3>3. QED
      BY <1>8, <3>1, <3>2 DEF SendTermination
  <2>4. UNCHANGED <<storeVars, claims>>
    BY <1>8 DEF SendTermination
  <2>5. QED
    BY <1>1, <2>1, <2>2, <2>3, <2>4, StoreStepType
       DEF TypeOK, PassTypeOK, GraphTypeOK, ExecTypeOK
<1>9. CASE VerifyRelationship(p)
  <2>1. exec' \in [Passes -> Execution]
    BY <1>3, <1>9 DEF VerifyRelationship, Results
  <2>2. UNCHANGED <<storeVars, blocker, claims, signals>>
    BY <1>9 DEF VerifyRelationship, histVars
  <2>3. QED
    BY <1>1, <2>1, <2>2, StoreStepType
       DEF TypeOK, PassTypeOK, GraphTypeOK, ExecTypeOK
<1>10. QED
  BY <1>4, <1>5, <1>6, <1>7, <1>8, <1>9 DEF ExecutorStep

\* A pass that renews its lease goes on at a load or at its release.
LEMMA RenewThenType ==
  ASSUME TypeOK, NEW p \in Passes, NEW label \in Continuations,
         RenewThen(p, label)
  PROVE  /\ StoreTypeOK'
         /\ pc' \in [Passes -> Labels]
         /\ next' \in [Passes -> Continuations]
<1>1. CASE RenewLease(p) /\ LoadThen(p, label)
  BY <1>1, StoreStepType, LoadThenType
<1>2. CASE Goto(p, "release") /\ UNCHANGED storeVars
  BY <1>2, StoreStepType, GotoType DEF Labels, Continuations
<1>3. QED
  BY <1>1, <1>2 DEF RenewThen

\* What the executor of a pass leaves alone keeps its type.
LEMMA StillType ==
  ASSUME TypeOK
  PROVE  /\ UNCHANGED blocker => GraphTypeOK'
         /\ UNCHANGED execVars => ExecTypeOK'
         /\ UNCHANGED storeVars => StoreTypeOK'
         /\ UNCHANGED view => view' \in [Passes -> Incident]
         /\ UNCHANGED index => index' \in [Passes -> 0..N]
         /\ UNCHANGED decision => decision' \in [Passes -> {"none", "approve", "reject"}]
  BY DEF TypeOK, GraphTypeOK, ExecTypeOK, StoreTypeOK, execVars, histVars,
         storeVars

\* What a pass may see when it observes its action.
LEMMA SightsType ==
  ASSUME TypeOK, LoopIndexOK, NEW p \in Passes, pc[p] = "observe"
  PROVE  Sights(index[p]) \subseteq
            {"absent", "reused", "outside_policy", "new_waiters", "actionable"}
<1>1. index[p] \in Actions
  BY DEF LoopIndexOK, InLoop, LoopLabels, LoopContinuations
<1>2. QED
  BY <1>1 DEF Sights, TypeOK, GraphTypeOK

\* Every step of a pass keeps the types.
LEMMA PassStepType ==
  ASSUME TypeOK, LoopIndexOK, NEW p \in Passes, PassStep(p)
  PROVE  TypeOK'
<1> USE StillType DEF Labels, Continuations
<1>a. /\ row \in Incident /\ view \in [Passes -> Incident]
      /\ view[p] \in Incident
      /\ index[p] \in 0..N
      /\ exec[p].act \in Actions /\ exec[p].result \in Results \cup {"NONE"}
  BY DEF TypeOK, StoreTypeOK, ExecTypeOK, Execution
<1>b. "REVIEW_REQUIRED" \in IncidentStates
      /\ "CANCELLED" \in IncidentStates /\ "RUNNING" \in IncidentStates
      /\ "AWAITING_REAPPROVAL" \in IncidentStates
      /\ "COMPLETED" \in IncidentStates
      /\ "COMPLETED_WITH_UNAPPROVED_REMAINDER" \in IncidentStates
  BY DEF IncidentStates
<1>1. CASE Start(p)
  <2>1. StoreTypeOK' /\ GraphTypeOK' /\ ExecTypeOK'
    BY <1>1, StoreStepType DEF Start
  <2>2. CASE End(p, "done")
    BY <1>1, <2>1, <2>2, EndType DEF TypeOK, MoveTypeOK, Start
  <2>3. CASE view' = [view EXCEPT ![p] = row] /\ UNCHANGED index
             /\ (Goto(p, "prompt") \/ Goto(p, "acquire"))
    BY <1>1, <1>a, <2>1, <2>3, GotoType DEF TypeOK, Start
  <2>4. QED
    BY <1>1, <2>2, <2>3 DEF Start
<1>2. CASE Acquire(p)
  <2>1. StoreTypeOK' /\ GraphTypeOK' /\ ExecTypeOK'
    BY <1>2, StoreStepType DEF Acquire
  <2>2. CASE LoadThen(p, "admit") /\ UNCHANGED <<view, index>>
    BY <1>2, <2>1, <2>2, LoadThenType DEF TypeOK, Acquire
  <2>3. CASE End(p, "done")
    BY <1>2, <2>1, <2>3, EndType DEF TypeOK, MoveTypeOK, Acquire
  <2>4. QED
    BY <1>2, <2>2, <2>3 DEF Acquire
<1>3. CASE Admit(p)
  <2>1. MoveTypeOK'
    <3>1. CASE (Goto(p, "enter") \/ Goto(p, "release")) /\ UNCHANGED view
      BY <3>1, GotoType DEF MoveTypeOK
    <3>2. CASE StopIncident(p, "CANCELLED")
      BY <3>2, <1>b, StopType
    <3>3. CASE CheckpointThen(p, [view[p] EXCEPT !.state = "RUNNING",
                                                 !.approval = p], "enter")
      <4>1. [view[p] EXCEPT !.state = "RUNNING", !.approval = p] \in Incident
        BY <1>a, <1>b DEF Incident
      <4>2. QED
        BY <3>3, <4>1, CheckpointThenType
    <3>4. decision[p] \in {"none", "approve", "reject"}
      BY DEF TypeOK
    <3>5. QED
      BY <1>3, <3>1, <3>2, <3>3, <3>4 DEF Admit
  <2>2. QED
    BY <1>3, <2>1 DEF Admit, TypeOK, MoveTypeOK
<1>4. CASE Enter(p)
  <2>1. CASE RenewThen(p, "reconcile")
    BY <1>4, <2>1, RenewThenType DEF Enter, TypeOK
  <2>2. CASE Goto(p, "release") /\ UNCHANGED storeVars
    BY <1>4, <2>2, GotoType DEF Enter, TypeOK
  <2>3. QED
    BY <1>4, <2>1, <2>2 DEF Enter
<1>5. CASE Reconcile(p)
  <2>1. MoveTypeOK'
    <3>1. CASE StopIncident(p, "REVIEW_REQUIRED")
      BY <3>1, <1>b, StopType
    <3>2. CASE Goto(p, "step") /\ UNCHANGED view
      BY <3>2, GotoType DEF MoveTypeOK
    <3>3. ASSUME NEW a \in Actions, NEW sight \in Sights(a),
                 ReconcileInflight(p, a, sight)
          PROVE  MoveTypeOK'
      <4>1. \/ \E act \in ActionStates : StopAction(p, a, act)
            \/ \E act \in ActionStates : FinishAction(p, a, act)
        BY <3>3 DEF ReconcileInflight, ActionStates
      <4>2. QED
        BY <4>1, StopActionType, FinishActionType
    <3>4. QED
      BY <1>5, <3>1, <3>2, <3>3 DEF Reconcile
  <2>2. QED
    BY <1>5, <2>1 DEF Reconcile, TypeOK, MoveTypeOK
<1>6. CASE Step(p)
  <2>1. MoveTypeOK'
    <3>1. CASE (Goto(p, "final") \/ Goto(p, "renew1")) /\ UNCHANGED view
      BY <3>1, GotoType DEF MoveTypeOK
    <3>2. CASE StopIncident(p, "REVIEW_REQUIRED")
      BY <3>2, <1>b, StopType
    <3>3. QED
      BY <1>6, <3>1, <3>2 DEF Step
  <2>2. index' \in [Passes -> 0..N]
    <3>1. CASE UNCHANGED index
      BY <3>1
    <3>2. ASSUME NEW a \in index[p] + 1 .. N,
                 index' = [index EXCEPT ![p] = a]
          PROVE  index' \in [Passes -> 0..N]
      <4>1. a \in 0..N
        BY <1>a, NAssumption
      <4>2. QED
        BY <3>2, <4>1 DEF TypeOK
    <3>3. QED
      BY <1>6, <3>1, <3>2 DEF Step
  <2>3. QED
    BY <1>6, <2>1, <2>2 DEF Step, TypeOK, MoveTypeOK
<1>7. CASE RenewBeforeObservation(p)
  BY <1>7, RenewThenType DEF RenewBeforeObservation, TypeOK
<1>8. CASE Observe(p)
  <2>1. MoveTypeOK'
    <3>1. CASE StopIncident(p, "REVIEW_REQUIRED")
      BY <3>1, <1>b, StopType
    <3>2. CASE Goto(p, "gate1") /\ UNCHANGED view
      BY <3>2, GotoType DEF MoveTypeOK
    <3>3. CASE \E act \in ActionStates : \/ StopAction(p, index[p], act)
                                         \/ FinishAction(p, index[p], act)
      BY <3>3, StopActionType, FinishActionType
    <3>4. Sights(index[p]) \subseteq
              {"absent", "reused", "outside_policy", "new_waiters", "actionable"}
      BY <1>8, SightsType DEF Observe
    <3>5. QED
      BY <1>8, <3>1, <3>2, <3>3, <3>4 DEF Observe, ActionStates
  <2>2. QED
    BY <1>8, <2>1 DEF Observe, TypeOK, MoveTypeOK
<1>9. CASE GateBeforeRenewal(p)
  <2>1. MoveTypeOK'
    <3>1. CASE Closed(p)
      BY <3>1, <1>b, StopType DEF Closed
    <3>2. CASE Goto(p, "renew2") /\ UNCHANGED view
      BY <3>2, GotoType DEF MoveTypeOK
    <3>3. QED
      BY <1>9, <3>1, <3>2 DEF GateBeforeRenewal
  <2>2. QED
    BY <1>9, <2>1 DEF GateBeforeRenewal, TypeOK, MoveTypeOK
<1>10. CASE RenewBeforeIntent(p)
  BY <1>10, RenewThenType DEF RenewBeforeIntent, TypeOK
<1>11. CASE GateBeforeIntent(p)
  <2>1. MoveTypeOK'
    <3>1. CASE Closed(p)
      BY <3>1, <1>b, StopType DEF Closed
    <3>2. CASE CheckpointThen(p, [view[p] EXCEPT !.act[index[p]] = "EXECUTING"],
                              "execute")
      <4>1. [view[p] EXCEPT !.act[index[p]] = "EXECUTING"] \in Incident
        BY <1>a DEF Incident, ActionStates
      <4>2. QED
        BY <3>2, <4>1, CheckpointThenType
    <3>3. QED
      BY <1>11, <3>1, <3>2 DEF GateBeforeIntent
  <2>2. QED
    BY <1>11, <2>1 DEF GateBeforeIntent, TypeOK, MoveTypeOK
<1>12. CASE Execute(p)
  <2>1. index[p] \in Actions
    BY <1>12 DEF Execute, LoopIndexOK, InLoop, LoopLabels, LoopContinuations
  <2>2. [NoExecution EXCEPT !.at = "intent", !.act = index[p],
                            !.approval = view[p].approval] \in Execution
    BY <1>a, <2>1 DEF NoExecution, Execution, Incident
  <2>3. ExecTypeOK'
    BY <1>12, <2>2 DEF Execute, BeginExecution, TypeOK, ExecTypeOK, histVars
  <2>4. QED
    BY <1>12, <2>3, GotoType DEF Execute, TypeOK
<1>13. CASE ExecutorReturns(p)
  BY <1>13, LoadThenType DEF ExecutorReturns, TypeOK
<1>14. CASE Interpret(p)
  <2>1. MoveTypeOK'
    <3>1. CASE CheckpointThen(p, [view[p] EXCEPT
                    !.act[index[p]] = "PLANNED",
                    !.state = "AWAITING_REAPPROVAL"], "release")
      <4>1. [view[p] EXCEPT !.act[index[p]] = "PLANNED",
                            !.state = "AWAITING_REAPPROVAL"] \in Incident
        BY <1>a, <1>b DEF Incident, ActionStates
      <4>2. QED
        BY <3>1, <4>1, CheckpointThenType
    <3>2. CASE StopAction(p, index[p], "IN_DOUBT")
      BY <3>2, StopActionType DEF ActionStates
    <3>3. CASE CheckpointThen(p, [view[p] EXCEPT
                    !.act[index[p]] = "RESULT_RECORDED",
                    !.result[index[p]] = exec[p].result], "recorded")
      <4>1. [view[p] EXCEPT !.act[index[p]] = "RESULT_RECORDED",
                            !.result[index[p]] = exec[p].result] \in Incident
        BY <1>a DEF Incident, ActionStates
      <4>2. QED
        BY <3>3, <4>1, CheckpointThenType
    <3>4. CASE Goto(p, "release") /\ UNCHANGED view
      BY <3>4, GotoType DEF MoveTypeOK
    <3>5. QED
      BY <1>14, <3>1, <3>2, <3>3, <3>4 DEF Interpret
  <2>2. QED
    BY <1>14, <2>1 DEF Interpret, TypeOK, MoveTypeOK
<1>15. CASE Recorded(p)
  <2>1. MoveTypeOK'
    <3>1. CASE Goto(p, "verify") /\ UNCHANGED view
      BY <3>1, GotoType DEF MoveTypeOK
    <3>2. CASE StopAction(p, index[p], "FAILED")
      BY <3>2, StopActionType DEF ActionStates
    <3>3. QED
      BY <1>15, <3>1, <3>2 DEF Recorded
  <2>2. QED
    BY <1>15, <2>1 DEF Recorded, TypeOK, MoveTypeOK
<1>16. CASE Verify(p)
  <2>1. MoveTypeOK'
    <3>1. \E act \in ActionStates : \/ StopAction(p, index[p], act)
                                    \/ FinishAction(p, index[p], act)
      BY <1>16 DEF Verify, ActionStates
    <3>2. QED
      BY <3>1, StopActionType, FinishActionType
  <2>2. QED
    BY <1>16, <2>1 DEF Verify, TypeOK, MoveTypeOK
<1>17. CASE Final(p)
  <2>1. \E state \in IncidentStates : StopIncident(p, state)
    BY <1>17, <1>b DEF Final
  <2>2. MoveTypeOK'
    BY <2>1, StopType
  <2>3. QED
    BY <1>17, <2>2 DEF Final, TypeOK, MoveTypeOK
<1>18. CASE Checkpoint(p)
  <2>1. StoreTypeOK'
    BY <1>18, StoreStepType DEF Checkpoint
  <2>2. next[p] \in Continuations
    BY DEF TypeOK
  <2>3. pc' \in [Passes -> Labels] /\ next' \in [Passes -> Continuations]
    BY <1>18, <2>2, GotoType, LoadThenType DEF Checkpoint
  <2>4. QED
    BY <1>18, <2>1, <2>3 DEF Checkpoint, TypeOK
<1>19. CASE Load(p)
  <2>1. StoreTypeOK'
    BY <1>19, StoreStepType DEF Load
  <2>2. next[p] \in Labels
    BY DEF TypeOK
  <2>3. pc' \in [Passes -> Labels] /\ next' \in [Passes -> Continuations]
    BY <1>19, <2>2, GotoType DEF Load
  <2>4. QED
    BY <1>19, <1>a, <2>1, <2>3 DEF Load, TypeOK
<1>20. CASE Release(p)
  <2>1. StoreTypeOK'
    BY <1>20, StoreStepType DEF Release
  <2>2. QED
    BY <1>20, <2>1, EndType DEF Release, TypeOK, MoveTypeOK
<1>21. QED
  BY <1>1, <1>2, <1>3, <1>4, <1>5, <1>6, <1>7, <1>8, <1>9, <1>10, <1>11,
     <1>12, <1>13, <1>14, <1>15, <1>16, <1>17, <1>18, <1>19, <1>20
     DEF PassStep, WorkflowStep

\* What the steps of pass p leave alone: the locals of every other pass.
OthersStill(p) ==
    \A q \in Passes \ {p} :
        /\ pc'[q] = pc[q]
        /\ next'[q] = next[q]
        /\ view'[q] = view[q]
        /\ index'[q] = index[q]
        /\ decision'[q] = decision[q]

\* A pass moves no other pass.
LEMMA PassStepLocal ==
  ASSUME TypeOK, LoopIndexOK, NEW p \in Passes, PassStep(p) \/ Prompt(p)
  PROVE  OthersStill(p)
<1> USE DEF OthersStill, StopIncident, StopAction, FinishAction,
            CheckpointThen, LoadThen, Goto, End
<1>0. /\ pc \in [Passes -> Labels] /\ next \in [Passes -> Continuations]
      /\ view \in [Passes -> Incident] /\ index \in [Passes -> 0..N]
      /\ decision \in [Passes -> {"none", "approve", "reject"}]
  BY DEF TypeOK
<1>1. CASE Start(p)
  BY <1>0, <1>1 DEF Start
<1>2. CASE Acquire(p)
  BY <1>0, <1>2 DEF Acquire
<1>3. CASE Admit(p)
  BY <1>0, <1>3 DEF Admit
<1>4. CASE Enter(p)
  BY <1>0, <1>4 DEF Enter, RenewThen
<1>5. CASE Reconcile(p)
  BY <1>0, <1>5, ZenonT(60) DEF Reconcile, ReconcileInflight
<1>6. CASE Step(p)
  BY <1>0, <1>6 DEF Step
<1>7. CASE RenewBeforeObservation(p)
  BY <1>0, <1>7 DEF RenewBeforeObservation, RenewThen
<1>8. CASE Observe(p)
  <2>1. Sights(index[p]) \subseteq
            {"absent", "reused", "outside_policy", "new_waiters", "actionable"}
    BY <1>8, SightsType DEF Observe
  <2>2. QED
    BY <1>0, <1>8, <2>1 DEF Observe
<1>9. CASE GateBeforeRenewal(p)
  BY <1>0, <1>9 DEF GateBeforeRenewal, Closed
<1>10. CASE RenewBeforeIntent(p)
  BY <1>0, <1>10 DEF RenewBeforeIntent, RenewThen
<1>11. CASE GateBeforeIntent(p)
  BY <1>0, <1>11 DEF GateBeforeIntent, Closed
<1>12. CASE Execute(p)
  BY <1>0, <1>12 DEF Execute
<1>13. CASE ExecutorReturns(p)
  BY <1>0, <1>13 DEF ExecutorReturns
<1>14. CASE Interpret(p)
  BY <1>0, <1>14 DEF Interpret
<1>15. CASE Recorded(p)
  BY <1>0, <1>15 DEF Recorded
<1>16. CASE Verify(p)
  BY <1>0, <1>16 DEF Verify
<1>17. CASE Final(p)
  BY <1>0, <1>17 DEF Final
<1>18. CASE Checkpoint(p)
  BY <1>0, <1>18 DEF Checkpoint
<1>19. CASE Load(p)
  BY <1>0, <1>19 DEF Load
<1>20. CASE Release(p)
  BY <1>0, <1>20 DEF Release
<1>21. CASE Prompt(p)
  BY <1>0, <1>21 DEF Prompt
<1>22. QED
  BY <1>1, <1>2, <1>3, <1>4, <1>5, <1>6, <1>7, <1>8, <1>9, <1>10, <1>11,
     <1>12, <1>13, <1>14, <1>15, <1>16, <1>17, <1>18, <1>19, <1>20, <1>21
     DEF PassStep, WorkflowStep

\* A pass enters the loop body only by moving to an action.
LEMMA LoopIndexStep ==
  ASSUME TypeOK, LoopIndexOK, NEW p \in Passes, PassStep(p) \/ Prompt(p)
  PROVE  LoopIndexOK'
<1> DEFINE Inside(q) == InLoop(q) => index[q] \in Actions
<1>1. pc \in [Passes -> Labels] /\ next \in [Passes -> Continuations]
      /\ index \in [Passes -> 0..N]
  BY DEF TypeOK
<1>2. OthersStill(p)
  BY PassStepLocal
<1>3. Inside(p)'
  <2> USE <1>1 DEF Inside, InLoop, LoopLabels, LoopContinuations
  <2>1. CASE Step(p)
    <3>1. ASSUME NEW a \in index[p] + 1 .. N, index' = [index EXCEPT ![p] = a]
          PROVE  index'[p] \in Actions
      BY <3>1, NAssumption DEF Actions
    <3>2. QED
      BY <2>1, <3>1 DEF Step, StopIncident, CheckpointThen, Goto
  <2>2. CASE \/ Start(p) \/ Prompt(p) \/ Acquire(p) \/ Admit(p) \/ Enter(p)
             \/ Reconcile(p) \/ Final(p) \/ Release(p)
    <3>1. ~InLoop(p)'
      <4> USE DEF StopIncident, StopAction, FinishAction, CheckpointThen,
                  LoadThen, Goto, End
      <4>1. CASE Start(p) \/ Prompt(p) \/ Acquire(p) \/ Release(p)
        BY <4>1 DEF Start, Prompt, Acquire, Release
      <4>2. CASE Admit(p)
        BY <4>2, decision[p] \in {"none", "approve", "reject"} DEF Admit, TypeOK
      <4>3. CASE Enter(p)
        BY <4>3 DEF Enter, RenewThen
      <4>4. CASE Reconcile(p)
        BY <4>4 DEF Reconcile, ReconcileInflight
      <4>5. CASE Final(p)
        BY <4>5 DEF Final
      <4>6. QED
        BY <2>2, <4>1, <4>2, <4>3, <4>4, <4>5
    <3>2. QED
      BY <3>1
  <2>3. CASE \/ RenewBeforeObservation(p) \/ Observe(p) \/ GateBeforeRenewal(p)
             \/ RenewBeforeIntent(p) \/ GateBeforeIntent(p) \/ Execute(p)
             \/ ExecutorReturns(p) \/ Interpret(p) \/ Recorded(p) \/ Verify(p)
    <3>1. InLoop(p) /\ UNCHANGED index
      BY <2>3 DEF RenewBeforeObservation, Observe, GateBeforeRenewal,
         RenewBeforeIntent, GateBeforeIntent, Execute, ExecutorReturns,
         Interpret, Recorded, Verify
    <3>2. QED
      BY <3>1 DEF LoopIndexOK
  <2>4. CASE Checkpoint(p) \/ Load(p)
    BY <2>4 DEF LoopIndexOK, Checkpoint, Load, LoadThen, Goto, Continuations
  <2>5. QED
    BY <2>1, <2>2, <2>3, <2>4 DEF PassStep, WorkflowStep
<1>4. QED
  BY <1>2, <1>3 DEF LoopIndexOK, InLoop, OthersStill

\* A disturbed pass keeps the types too.
LEMMA DisturbedType ==
  ASSUME TypeOK, LoopIndexOK, NEW p \in Passes, Crash(p) \/ Interrupt(p)
  PROVE  TypeOK' /\ LoopIndexOK'
<1>1. ExecTypeOK'
  <2>1. NoExecution \in Execution
    BY NAssumption DEF NoExecution, Execution, Actions
  <2>2. exec' \in [Passes -> Execution]
    BY <2>1 DEF Crash, Interrupt, AbandonExecution, TypeOK, ExecTypeOK
  <2>3. QED
    BY <2>2 DEF Crash, Interrupt, PassCrash, PassInterrupt, histVars, TypeOK,
                ExecTypeOK
<1>2. CASE End(p, "done") \/ End(p, "crashed")
  <2>1. MoveTypeOK' /\ index' \in [Passes -> 0..N]
    BY <1>2, EndType DEF Labels
  <2>2. LoopIndexOK'
    BY <1>2 DEF End, TypeOK, LoopIndexOK, InLoop, LoopLabels, LoopContinuations
  <2>3. QED
    BY <1>1, <2>1, <2>2, StillType
       DEF Crash, Interrupt, PassCrash, PassInterrupt, TypeOK, MoveTypeOK
<1>3. CASE Goto(p, "release") /\ UNCHANGED <<view, index>>
  <2>1. pc' \in [Passes -> Labels] /\ next' \in [Passes -> Continuations]
    BY <1>3, GotoType DEF Labels, Continuations
  <2>2. LoopIndexOK'
    BY <1>3 DEF Goto, TypeOK, LoopIndexOK, InLoop, LoopLabels, LoopContinuations
  <2>3. QED
    BY <1>1, <1>3, <2>1, <2>2, StillType
       DEF Crash, Interrupt, PassCrash, PassInterrupt, TypeOK
<1>4. QED
  BY <1>2, <1>3 DEF Crash, Interrupt, PassCrash, PassInterrupt

\* So do the clock and the sessions of the database.
LEMMA EnvironmentType ==
  ASSUME TypeOK, LoopIndexOK, Environment
  PROVE  TypeOK' /\ LoopIndexOK'
<1>1. UNCHANGED <<execVars, passVars>>
  BY DEF Environment
<1>2. LoopIndexOK' /\ PassTypeOK' /\ ExecTypeOK'
  BY <1>1, StillType DEF TypeOK, PassTypeOK, passVars, LoopIndexOK, InLoop
<1>3. CASE Clock /\ UNCHANGED blocker
  BY <1>2, <1>3, StillType, ClockType DEF TypeOK, PassTypeOK
<1>4. CASE Sessions /\ UNCHANGED storeVars
  <2>1. GraphTypeOK'
    BY <1>4 DEF Sessions, BlockerEnds, BlockerPidReused, TypeOK, GraphTypeOK
  <2>2. QED
    BY <1>2, <1>4, <2>1, StillType DEF TypeOK, PassTypeOK
<1>5. QED
  BY <1>3, <1>4 DEF Environment

\* Every state of every execution has the declared types, and a pass inside
\* its loop is at an action.
THEOREM TypeCorrect == Spec => [](TypeOK /\ LoopIndexOK)
<1>1. Init => TypeOK /\ LoopIndexOK
  <2> SUFFICES ASSUME Init PROVE TypeOK /\ LoopIndexOK
    OBVIOUS
  <2>1. StoreTypeOK
    BY PlannedType DEF Init, StoreInit, StoreTypeOK
  <2>2. GraphTypeOK
    BY DEF Init, GraphInit, GraphTypeOK
  <2>3. ExecTypeOK
    <3>1. NoExecution \in Execution
      BY NAssumption DEF NoExecution, Execution, Actions
    <3>2. QED
      BY <3>1 DEF Init, ExecInit, ExecTypeOK
  <2>4. PassTypeOK
    BY PlannedType, NAssumption DEF Init, PassTypeOK, Labels, Continuations
  <2>5. LoopIndexOK
    BY DEF Init, LoopIndexOK, InLoop, LoopLabels, LoopContinuations
  <2>6. QED
    BY <2>1, <2>2, <2>3, <2>4, <2>5 DEF TypeOK, PassTypeOK
<1>2. TypeOK /\ LoopIndexOK /\ [Next]_vars => (TypeOK /\ LoopIndexOK)'
  <2> SUFFICES ASSUME TypeOK, LoopIndexOK, [Next]_vars
               PROVE  (TypeOK /\ LoopIndexOK)'
    OBVIOUS
  <2>1. ASSUME NEW p \in Passes, PassStep(p)
        PROVE  (TypeOK /\ LoopIndexOK)'
    BY <2>1, PassStepType, LoopIndexStep
  <2>2. ASSUME NEW p \in Passes, Prompt(p)
        PROVE  (TypeOK /\ LoopIndexOK)'
    <3>1. pc' \in [Passes -> Labels] /\ next' \in [Passes -> Continuations]
      BY <2>2, GotoType DEF Prompt, Labels
    <3>2. QED
      BY <2>2, <3>1, StillType, LoopIndexStep DEF Prompt, TypeOK
  <2>3. ASSUME NEW p \in Passes, ExecutorStep(p), UNCHANGED passVars
        PROVE  (TypeOK /\ LoopIndexOK)'
    BY <2>3, ExecutorStepType DEF passVars, LoopIndexOK, InLoop
  <2>4. ASSUME NEW p \in Passes, Crash(p) \/ Interrupt(p)
        PROVE  (TypeOK /\ LoopIndexOK)'
    BY <2>4, DisturbedType
  <2>5. CASE Environment
    BY <2>5, EnvironmentType
  <2>6. CASE UNCHANGED vars
    BY <2>6, StillType DEF vars, passVars, TypeOK, LoopIndexOK, InLoop
  <2>7. QED
    BY <2>1, <2>2, <2>3, <2>4, <2>5, <2>6 DEF Next
<1>3. QED
  BY <1>1, <1>2, PTL DEF Spec

-----------------------------------------------------------------------------
(* Safety: authority, approvals, and what the owner of the lease knows *)

-----------------------------------------------------------------------------
(* What each kind of step leaves alone *)

\* A pass changes the stored incident only by its checkpoint, the executions
\* only by starting its own, and neither the sessions nor the history.
LEMMA PassStepFrame ==
  ASSUME NEW p \in Passes, PassStep(p)
  PROVE  /\ UNCHANGED <<blocker, claims, signals, decision>>
         /\ UNCHANGED exec \/ Execute(p)
         /\ UNCHANGED row \/ SaveIncident(p, view[p])
<1> USE DEF execVars, histVars, storeVars
<1>1. CASE Start(p)
  BY <1>1 DEF Start, LoadIncident
<1>2. CASE Acquire(p)
  BY <1>2 DEF Acquire, AcquireLease
<1>3. CASE Admit(p) \/ Reconcile(p) \/ Step(p) \/ Observe(p)
  BY <1>3 DEF Admit, Reconcile, Step, Observe
<1>4. CASE Enter(p) \/ RenewBeforeObservation(p) \/ RenewBeforeIntent(p)
  BY <1>4 DEF Enter, RenewBeforeObservation, RenewBeforeIntent, RenewThen,
              RenewLease
<1>5. CASE GateBeforeRenewal(p) \/ GateBeforeIntent(p)
  BY <1>5 DEF GateBeforeRenewal, GateBeforeIntent
<1>6. CASE Execute(p)
  BY <1>6 DEF Execute
<1>7. CASE ExecutorReturns(p) \/ Interpret(p) \/ Recorded(p) \/ Verify(p)
           \/ Final(p)
  BY <1>7 DEF ExecutorReturns, Interpret, Recorded, Verify, Final
<1>8. CASE Checkpoint(p)
  BY <1>8 DEF Checkpoint
<1>9. CASE Load(p)
  BY <1>9 DEF Load, LoadIncident
<1>10. CASE Release(p)
  BY <1>10 DEF Release, ReleaseLease
<1>11. QED
  BY <1>1, <1>2, <1>3, <1>4, <1>5, <1>6, <1>7, <1>8, <1>9, <1>10 DEF PassStep, WorkflowStep

\* The clock and the sessions change no incident and no execution.
LEMMA EnvironmentFrame ==
  ASSUME Environment
  PROVE  UNCHANGED <<row, exec, claims, signals, pc, next, view, decision>>
<1>1. CASE Clock /\ UNCHANGED <<blocker, execVars, passVars>>
  BY <1>1 DEF Clock, LeaseExpires, ApprovalExpires, DeadlinePasses, execVars,
              histVars, passVars
<1>2. CASE Sessions /\ UNCHANGED <<storeVars, execVars, passVars>>
  BY <1>2 DEF storeVars, execVars, histVars, passVars
<1>3. QED
  BY <1>1, <1>2 DEF Environment

\* A disturbed pass loses its execution, unless its statement is under way.
LEMMA DisturbedFrame ==
  ASSUME TypeOK, NEW p \in Passes, Crash(p) \/ Interrupt(p)
  PROVE  /\ UNCHANGED <<row, claims, signals, decision, leaseOwner, fresh>>
         /\ \A q \in Passes : exec'[q] = exec[q] \/ exec'[q] = NoExecution
         /\ \A q \in Passes \ {p} : exec'[q] = exec[q]
         /\ exec[p].at # "send" => exec'[p] = NoExecution
  BY DEF Crash, Interrupt, PassCrash, PassInterrupt, AbandonExecution,
         storeVars, histVars, TypeOK, ExecTypeOK

\* A claimed action stays claimed, whatever is saved.
LEMMA DescendedClosed ==
  ASSUME NEW act \in DescendedStates
  PROVE  ActionTransitions(act) \subseteq DescendedStates
  BY DEF DescendedStates, ActionTransitions

-----------------------------------------------------------------------------
(* One claim, one signal *)

\* No executor move breaks the single line of authority.
LEMMA AuthorityExecutor ==
  ASSUME TypeOK, AuthorityInv, NEW p \in Passes, ExecutorStep(p)
  PROVE  AuthorityInv'
<1> DEFINE a == exec[p].act
<1>a. /\ exec \in [Passes -> Execution] /\ a \in Actions
      /\ claims \in [Actions -> SUBSET Passes]
      /\ signals \in [Actions -> SUBSET Signal]
      /\ row \in Incident /\ row.act \in [Actions -> ActionStates]
  BY DEF TypeOK, ExecTypeOK, StoreTypeOK, Execution, Incident
<1>b. ASSUME NEW at \in {"validate", "claim", "verify", "returned"},
             exec'[p].at = at, \A q \in Passes \ {p} : exec'[q] = exec[q],
             UNCHANGED <<row, claims, signals>>
      PROVE  AuthorityInv'
  BY <1>b DEF AuthorityInv, SingleTermination
<1>c. ASSUME NEW result, Return(p, result)
      PROVE  exec'[p].at = "returned" /\ \A q \in Passes \ {p} : exec'[q] = exec[q]
  BY <1>a, <1>c DEF Return, Execution
<1>d. ASSUME NEW at, Advance(p, at)
      PROVE  /\ exec'[p].at = at /\ exec'[p].act = a
             /\ \A q \in Passes \ {p} : exec'[q] = exec[q]
  BY <1>a, <1>d DEF Advance, Execution
<1>1. CASE RecordIntent(p)
  BY <1>1, <1>b, <1>c, <1>d DEF RecordIntent, storeVars, histVars
<1>2. CASE ValidateProposal(p)
  <2>1. \/ exec'[p].at = "claim" /\ \A q \in Passes \ {p} : exec'[q] = exec[q]
        \/ Return(p, "UNCONFIRMED")
    <3>1. ASSUME NEW waiter \in WaiterKinds,
                 exec' = [exec EXCEPT ![p] = [@ EXCEPT !.at = "claim",
                                                       !.waiter = waiter]]
          PROVE  exec'[p].at = "claim" /\ \A q \in Passes \ {p} : exec'[q] = exec[q]
      BY <3>1, <1>a, SMTT(30) DEF Execution
    <3>2. QED
      BY <1>2, <3>1, Zenon DEF ValidateProposal
  <2>2. QED
    BY <1>2, <2>1, <1>b, <1>c DEF ValidateProposal, storeVars, histVars
<1>3. CASE ClaimAction(p)
  <2>1. CASE Return(p, "REFUSED") /\ UNCHANGED <<storeVars, claims>>
    BY <1>3, <2>1, <1>b, <1>c DEF ClaimAction, storeVars
  <2>2. CASE /\ ClaimActionExecution(p, a, exec[p].approval, exec[p].waiter)
             /\ claims' = [claims EXCEPT ![a] = @ \cup {p}]
             /\ Advance(p, "policy")
    <3>1. row.act[a] = "EXECUTING" /\ row'.act = [row.act EXCEPT ![a] = "APPLYING"]
      BY <2>2, <1>a DEF ClaimActionExecution, CanClaim, Incident
    <3>2. claims[a] = {} /\ signals[a] = {}
      BY <3>1, <1>a DEF AuthorityInv, DescendedStates
    <3>3. claims'[a] = {p} /\ row'.act[a] = "APPLYING" /\ UNCHANGED signals
      BY <1>3, <1>a, <2>2, <3>1, <3>2 DEF ClaimAction
    <3>4. \A b \in Actions \ {a} :
                claims'[b] = claims[b] /\ row'.act[b] = row.act[b]
      BY <1>a, <2>2, <3>1
    <3>5. exec'[p].act = a /\ \A q \in Passes \ {p} : exec'[q] = exec[q]
      BY <2>2, <1>d
    <3>6. ASSUME NEW q \in Passes, exec'[q].at \in {"policy", "send"}
          PROVE  q \in claims'[exec'[q].act] /\ signals'[exec'[q].act] = {}
      <4>1. CASE q = p
        BY <3>2, <3>3, <3>5, <4>1
      <4>2. CASE q # p
        <5>1. q \in claims[exec[q].act] /\ signals[exec[q].act] = {}
          BY <3>5, <3>6, <4>2 DEF AuthorityInv
        <5>2. exec[q].act \in Actions \ {a}
          BY <5>1, <3>2, <1>a DEF Execution
        <5>3. QED
          BY <5>1, <5>2, <3>3, <3>4, <3>5, <4>2
      <4>3. QED
        BY <4>1, <4>2
    <3>7. ASSUME NEW b \in Actions
          PROVE  /\ claims'[b] # {} => row'.act[b] \in DescendedStates
                 /\ \A q, r \in claims'[b] : q = r
                 /\ \A s \in signals'[b] : s.by \in claims'[b]
      <4>1. CASE b = a
        BY <3>2, <3>3, <4>1 DEF DescendedStates
      <4>2. CASE b # a
        BY <3>3, <3>4, <4>2 DEF AuthorityInv
      <4>3. QED
        BY <4>1, <4>2
    <3>8. QED
      BY <3>3, <3>6, <3>7 DEF AuthorityInv, SingleTermination
  <2>3. QED
    BY <1>3, <2>1, <2>2 DEF ClaimAction
<1>4. CASE RecheckPolicy(p)
  <2>1. CASE Return(p, "UNCONFIRMED")
    BY <1>4, <2>1, <1>b, <1>c DEF RecheckPolicy, storeVars, histVars
  <2>2. CASE Advance(p, "send")
    BY <1>4, <2>2, <1>d
       DEF RecheckPolicy, storeVars, histVars, AuthorityInv, SingleTermination
  <2>3. QED
    BY <1>4, <2>1, <2>2 DEF RecheckPolicy
<1>5. CASE SendTermination(p)
  <2>1. UNCHANGED <<row, claims>>
    BY <1>5 DEF SendTermination, storeVars
  <2>2. p \in claims[a] /\ signals[a] = {}
    BY <1>5 DEF SendTermination, AuthorityInv
  <2>3. /\ exec'[p].at \in {"verify", "returned"}
        /\ \A q \in Passes \ {p} : exec'[q] = exec[q]
    BY <1>5, <1>c, <1>d DEF SendTermination
  <2>4. CASE UNCHANGED signals
    BY <1>b, <2>1, <2>3, <2>4
  <2>5. CASE signals' = [signals EXCEPT ![a] = @ \cup {SignalOf(p, a)}]
    <3>1. signals'[a] = {SignalOf(p, a)} /\ SignalOf(p, a).by = p
      BY <1>a, <2>2, <2>5 DEF SignalOf
    <3>2. \A b \in Actions \ {a} : signals'[b] = signals[b]
      BY <1>a, <2>5
    <3>3. ASSUME NEW q \in Passes \ {p}, exec[q].at \in {"policy", "send"}
          PROVE  exec[q].act \in Actions \ {a}
      BY <1>a, <2>2, <3>3 DEF AuthorityInv, Execution
    <3>4. QED
      BY <1>a, <2>1, <2>2, <2>3, <3>1, <3>2, <3>3
         DEF AuthorityInv, SingleTermination
  <2>6. QED
    BY <1>5, <2>4, <2>5 DEF SendTermination
<1>6. CASE VerifyRelationship(p)
  BY <1>6, <1>b, <1>c DEF VerifyRelationship, storeVars, histVars
<1>7. QED
  BY <1>1, <1>2, <1>3, <1>4, <1>5, <1>6 DEF ExecutorStep

\* Nor does any other step.
LEMMA AuthorityStep ==
  ASSUME TypeOK, AuthorityInv, [Next]_vars
  PROVE  AuthorityInv'
<1>a. /\ exec \in [Passes -> Execution] /\ row \in Incident
      /\ \A b \in Actions : row.act[b] \in ActionStates
  BY DEF TypeOK, ExecTypeOK, StoreTypeOK, Incident
<1>b. ASSUME UNCHANGED <<row, claims, signals>>,
             \A q \in Passes : \/ exec'[q] = exec[q]
                               \/ exec'[q].at \notin {"policy", "send"}
      PROVE  AuthorityInv'
  BY <1>b DEF AuthorityInv, SingleTermination
<1>c. NoExecution.at = "idle"
  BY DEF NoExecution
<1>1. ASSUME NEW p \in Passes, PassStep(p)
      PROVE  AuthorityInv'
  <2>1. UNCHANGED <<claims, signals>>
    BY <1>1, PassStepFrame
  <2>2. \A q \in Passes : exec'[q] = exec[q] \/ exec'[q].at = "intent"
    BY <1>1, <1>a, PassStepFrame, ZenonT(60)
       DEF Execute, BeginExecution, NoExecution
  <2>3. CASE UNCHANGED row
    BY <1>b, <2>1, <2>2, <2>3
  <2>4. CASE SaveIncident(p, view[p])
    <3>1. \A b \in Actions : row'.act[b] \in ActionTransitions(row.act[b])
      BY <2>4 DEF SaveIncident, CanSave
    <3>2. \A b \in Actions :
            row.act[b] \in DescendedStates => row'.act[b] \in DescendedStates
      BY <3>1, DescendedClosed
    <3>3. QED
      BY <2>1, <2>2, <3>2 DEF AuthorityInv, SingleTermination
  <2>5. QED
    BY <1>1, <2>3, <2>4, PassStepFrame
<1>2. ASSUME NEW p \in Passes, Prompt(p)
      PROVE  AuthorityInv'
  BY <1>2, <1>b DEF Prompt, storeVars, execVars, histVars
<1>3. ASSUME NEW p \in Passes, ExecutorStep(p)
      PROVE  AuthorityInv'
  BY <1>3, AuthorityExecutor
<1>4. ASSUME NEW p \in Passes, Crash(p) \/ Interrupt(p)
      PROVE  AuthorityInv'
  <2>1. UNCHANGED <<row, claims, signals>>
    BY <1>4, DisturbedFrame
  <2>2. \A q \in Passes : exec'[q] = exec[q] \/ exec'[q] = NoExecution
    BY <1>4, DisturbedFrame
  <2>3. QED
    BY <1>b, <1>c, <2>1, <2>2
<1>5. CASE Environment
  BY <1>5, <1>b, EnvironmentFrame
<1>6. CASE UNCHANGED vars
  BY <1>6, <1>b DEF vars, storeVars, execVars, histVars
<1>7. QED
  BY <1>1, <1>2, <1>3, <1>4, <1>5, <1>6 DEF Next

\* The line of authority holds in every state: an action is claimed once, by
\* the executor that alone may signal its target.
THEOREM AuthorityHolds == Spec => []AuthorityInv
<1>1. Init => AuthorityInv
  BY DEF Init, ExecInit, NoExecution, AuthorityInv, SingleTermination
<1>2. TypeOK /\ AuthorityInv /\ [Next]_vars => AuthorityInv'
  BY AuthorityStep
<1>3. QED
  BY <1>1, <1>2, TypeCorrect, PTL DEF Spec

\* However often an incident is resumed, by however many passes at once, and
\* wherever they crash, the target of an action is signalled once at most.
THEOREM TerminatesOnce == Spec => []SingleTermination
<1>1. AuthorityInv => SingleTermination
  BY DEF AuthorityInv
<1>2. QED
  BY <1>1, AuthorityHolds, PTL

\* An action that is open, or back for approval, has had no signal sent for it.
THEOREM OpenIsUntouched == Spec => []OpenMeansUntouched
<1>1. TypeOK /\ AuthorityInv => OpenMeansUntouched
  <2> SUFFICES ASSUME TypeOK, AuthorityInv, NEW a \in Actions,
                      row.act[a] \in {"PLANNED", "EXECUTING",
                                      "SKIPPED_RESOLVED", "REAPPROVAL_REQUIRED"}
               PROVE  signals[a] = {}
    BY DEF OpenMeansUntouched
  <2>1. claims[a] = {}
    BY DEF AuthorityInv, DescendedStates
  <2>2. QED
    BY <2>1 DEF AuthorityInv
<1>2. QED
  BY <1>1, AuthorityHolds, TypeCorrect, PTL

-----------------------------------------------------------------------------
(* Signals within an approval *)

\* A step that keeps decisions and signals, brings no approval id that was not
\* vouched for, and lets no execution past its claim, keeps ApprovalInv.
LEMMA ApprovalKept ==
  ASSUME TypeOK, ApprovalInv,
         UNCHANGED <<decision, signals>>,
         Vouched(row'.approval),
         \A q \in Passes : Vouched(view'[q].approval),
         \A q \in Passes : Vouched(exec'[q].approval),
         \A q \in Passes : pc'[q] \in {"start", "prompt"} =>
                                pc[q] \in {"start", "prompt"},
         \A q \in Passes : exec'[q].at \in {"policy", "send"} =>
                exec'[q].waiter = "approved" /\ exec'[q].approval # NoPass
  PROVE  ApprovalInv'
  BY DEF ApprovalInv, Vouched, SignalsWithinApproval

\* The approval in a pass's copy is the one it had, the stored one, or its own.
LEMMA ViewApproval ==
  ASSUME TypeOK, LoopIndexOK, NEW p \in Passes, PassStep(p)
  PROVE  \/ view'[p].approval \in {view[p].approval, row.approval, NoPass}
         \/ view'[p].approval = p /\ decision[p] = "approve"
<1>a. /\ view \in [Passes -> Incident] /\ view[p] \in Incident
      /\ PlannedIncident.approval = NoPass
  BY DEF TypeOK, PlannedIncident
<1>b. \A value, label : CheckpointThen(p, value, label) => view'[p] = value
  BY <1>a DEF CheckpointThen
<1> DEFINE Same == view'[p].approval = view[p].approval
<1>c. /\ \A state : StopIncident(p, state) => Same
      /\ \A a, act : StopAction(p, a, act) => Same
      /\ \A a, act : FinishAction(p, a, act) => Same
  BY <1>a, <1>b DEF StopIncident, StopAction, FinishAction, Incident
<1>d. \A label : End(p, label) => view'[p].approval = NoPass
  BY <1>a DEF End
<1>1. CASE Start(p)
  BY <1>1, <1>a, <1>d DEF Start
<1>2. CASE Acquire(p)
  BY <1>2, <1>a, <1>d DEF Acquire
<1>3. CASE Admit(p)
  <2>1. CASE CheckpointThen(p, [view[p] EXCEPT !.state = "RUNNING",
                                               !.approval = p], "enter")
             /\ decision[p] = "approve"
    <3>1. [view[p] EXCEPT !.state = "RUNNING", !.approval = p].approval = p
      BY <1>a DEF Incident
    <3>2. QED
      BY <2>1, <3>1, <1>b
  <2>2. CASE UNCHANGED view \/ StopIncident(p, "CANCELLED")
    BY <2>2, <1>c
  <2>3. QED
    BY <1>3, <2>1, <2>2, decision[p] \in {"none", "approve", "reject"}
       DEF Admit, TypeOK
<1>4. CASE Reconcile(p)
  <2>1. ASSUME NEW a, NEW sight, ReconcileInflight(p, a, sight)
        PROVE  Same
    BY <2>1, <1>c DEF ReconcileInflight
  <2>2. QED
    BY <1>4, <1>c, <2>1 DEF Reconcile
<1>5. CASE Step(p)
  BY <1>5, <1>c DEF Step
<1>6. CASE Observe(p)
  <2>1. Sights(index[p]) \subseteq
            {"absent", "reused", "outside_policy", "new_waiters", "actionable"}
    BY <1>6, SightsType DEF Observe
  <2>2. QED
    BY <1>6, <1>c, <2>1 DEF Observe
<1>7. CASE GateBeforeRenewal(p)
  BY <1>7, <1>c DEF GateBeforeRenewal, Closed
<1>8. CASE GateBeforeIntent(p)
  <2>1. [view[p] EXCEPT !.act[index[p]] = "EXECUTING"].approval
            = view[p].approval
    BY <1>a DEF Incident
  <2>2. QED
    BY <1>8, <1>b, <1>c, <2>1 DEF GateBeforeIntent, Closed
<1>9. CASE Interpret(p)
  <2>1. /\ [view[p] EXCEPT !.act[index[p]] = "PLANNED",
                           !.state = "AWAITING_REAPPROVAL"].approval
                = view[p].approval
        /\ [view[p] EXCEPT !.act[index[p]] = "RESULT_RECORDED",
                           !.result[index[p]] = exec[p].result].approval
                = view[p].approval
    BY <1>a DEF Incident
  <2>2. QED
    BY <1>9, <1>b, <1>c, <2>1 DEF Interpret
<1>10. CASE Recorded(p) \/ Verify(p) \/ Final(p)
  BY <1>10, <1>c DEF Recorded, Verify, Final
<1>11. CASE Load(p) \/ Release(p)
  BY <1>11, <1>a, <1>d DEF Load, Release
<1>12. CASE \/ Enter(p) \/ RenewBeforeObservation(p) \/ RenewBeforeIntent(p)
            \/ Execute(p) \/ ExecutorReturns(p) \/ Checkpoint(p)
  BY <1>12 DEF Enter, RenewBeforeObservation, RenewBeforeIntent, Execute,
               ExecutorReturns, Checkpoint
<1>13. QED
  BY <1>1, <1>2, <1>3, <1>4, <1>5, <1>6, <1>7, <1>8, <1>9, <1>10, <1>11, <1>12
     DEF PassStep, WorkflowStep

\* Only a pass that starts comes to ask or to acquire, and none starts again.
LEMMA AsksOnce ==
  ASSUME TypeOK, LoopIndexOK, NEW p \in Passes, PassStep(p)
  PROVE  pc'[p] \in {"start", "prompt", "acquire"} =>
            pc[p] = "start" /\ UNCHANGED index
<1> USE DEF StopIncident, StopAction, FinishAction, CheckpointThen, LoadThen,
            Goto, End
<1>a. pc \in [Passes -> Labels] /\ next[p] \in Continuations
  BY DEF TypeOK
<1>1. CASE Start(p)
  BY <1>1, <1>a DEF Start
<1>2. CASE Acquire(p) \/ Release(p)
  BY <1>2, <1>a DEF Acquire, Release
<1>3. CASE Admit(p)
  BY <1>3, <1>a, decision[p] \in {"none", "approve", "reject"} DEF Admit, TypeOK
<1>4. CASE Enter(p) \/ RenewBeforeObservation(p) \/ RenewBeforeIntent(p)
  BY <1>4, <1>a
     DEF Enter, RenewBeforeObservation, RenewBeforeIntent, RenewThen
<1>5. CASE Reconcile(p)
  BY <1>5, <1>a DEF Reconcile, ReconcileInflight
<1>6. CASE Step(p)
  BY <1>6, <1>a DEF Step
<1>7. CASE Observe(p)
  <2>1. Sights(index[p]) \subseteq
            {"absent", "reused", "outside_policy", "new_waiters", "actionable"}
    BY <1>7, SightsType DEF Observe
  <2>2. QED
    BY <1>7, <1>a, <2>1 DEF Observe
<1>8. CASE GateBeforeRenewal(p) \/ GateBeforeIntent(p)
  BY <1>8, <1>a DEF GateBeforeRenewal, GateBeforeIntent, Closed
<1>9. CASE Execute(p) \/ ExecutorReturns(p) \/ Recorded(p) \/ Verify(p)
  BY <1>9, <1>a DEF Execute, ExecutorReturns, Recorded, Verify
<1>10. CASE Interpret(p)
  BY <1>10, <1>a DEF Interpret
<1>11. CASE Final(p)
  BY <1>11, <1>a DEF Final
<1>12. CASE Checkpoint(p) \/ Load(p)
  BY <1>12, <1>a DEF Checkpoint, Load, Continuations
<1>13. QED
  BY <1>1, <1>2, <1>3, <1>4, <1>5, <1>6, <1>7, <1>8, <1>9, <1>10, <1>11, <1>12
     DEF PassStep, WorkflowStep

\* The executor carries the approval of its call, and passes its claim only
\* under one and for an approved waiter.
LEMMA ApprovalExecutor ==
  ASSUME TypeOK, ApprovalInv, NEW p \in Passes, ExecutorStep(p),
         UNCHANGED passVars
  PROVE  ApprovalInv'
<1> DEFINE a == exec[p].act
           Past(e) == e.at \in {"policy", "send"}
           Fit(e) == e.waiter = "approved" /\ e.approval # NoPass
<1>a. /\ exec \in [Passes -> Execution] /\ a \in Actions
      /\ signals \in [Actions -> SUBSET Signal] /\ row \in Incident
      /\ UNCHANGED <<view, pc, decision>>
      /\ \A q \in Passes : Vouched(exec[q].approval)
      /\ \A q \in Passes : Past(exec[q]) => Fit(exec[q])
  BY DEF TypeOK, ExecTypeOK, StoreTypeOK, Execution, passVars, ApprovalInv
<1>b. ASSUME NEW at, Advance(p, at)
      PROVE  /\ exec'[p].at = at /\ exec'[p].approval = exec[p].approval
             /\ exec'[p].waiter = exec[p].waiter
             /\ \A q \in Passes \ {p} : exec'[q] = exec[q]
  BY <1>a, <1>b DEF Advance, Execution
<1>c. ASSUME NEW result, Return(p, result)
      PROVE  /\ exec'[p].at = "returned" /\ exec'[p].approval = exec[p].approval
             /\ \A q \in Passes \ {p} : exec'[q] = exec[q]
  BY <1>a, <1>c DEF Return, Execution
<1>d. \A q \in Passes : Vouched(exec'[q].approval)
  <2>1. exec'[p].approval = exec[p].approval
        /\ \A q \in Passes \ {p} : exec'[q] = exec[q]
    <3>1. CASE \/ RecordIntent(p) \/ RecheckPolicy(p) \/ SendTermination(p)
               \/ VerifyRelationship(p) \/ ClaimAction(p)
      BY <3>1, <1>b, <1>c DEF RecordIntent, RecheckPolicy, SendTermination,
                              VerifyRelationship, ClaimAction
    <3>2. CASE ValidateProposal(p)
      BY <3>2, <1>a, <1>c DEF ValidateProposal, Execution
    <3>3. QED
      BY <3>1, <3>2 DEF ExecutorStep
  <2>2. QED
    BY <1>a, <2>1 DEF Vouched
<1>e. row'.approval = row.approval
  BY <1>a DEF ExecutorStep, RecordIntent, ValidateProposal, ClaimAction,
     RecheckPolicy, SendTermination, VerifyRelationship, ClaimActionExecution,
     storeVars, Incident
<1>f. ASSUME UNCHANGED signals, \A q \in Passes : Past(exec'[q]) => Fit(exec'[q])
      PROVE  ApprovalInv'
  BY <1>a, <1>d, <1>e, <1>f, ApprovalKept DEF ApprovalInv, Vouched
<1>1. CASE RecordIntent(p)
  BY <1>1, <1>a, <1>b, <1>c, <1>f DEF RecordIntent, histVars
<1>2. CASE ValidateProposal(p)
  <2>1. exec'[p].at \in {"claim", "returned"}
        /\ \A q \in Passes \ {p} : exec'[q] = exec[q]
    BY <1>2, <1>a, <1>c, ZenonT(60) DEF ValidateProposal, Execution
  <2>2. QED
    BY <1>2, <1>a, <2>1, <1>f DEF ValidateProposal, histVars
<1>3. CASE ClaimAction(p)
  BY <1>3, <1>a, <1>b, <1>c, <1>f
     DEF ClaimAction, ClaimActionExecution, CanClaim, ApprovalIsLive
<1>4. CASE RecheckPolicy(p)
  BY <1>4, <1>a, <1>b, <1>c, <1>f DEF RecheckPolicy, histVars
<1>5. CASE SendTermination(p)
  <2>1. Fit(exec[p])
    BY <1>5, <1>a DEF SendTermination
  <2>2. \A q \in Passes : Past(exec'[q]) => Fit(exec'[q])
    BY <1>5, <1>a, <1>b, <1>c DEF SendTermination
  <2>3. CASE UNCHANGED signals
    BY <1>f, <2>2, <2>3
  <2>4. CASE signals' = [signals EXCEPT ![a] = @ \cup {SignalOf(p, a)}]
    <3>1. \A b \in Actions : \A s \in signals'[b] :
            \/ s \in signals[b]
            \/ s.approval = exec[p].approval /\ s.waiter = exec[p].waiter
      BY <1>a, <2>4 DEF SignalOf
    <3>2. \A b \in Actions : \A s \in signals'[b] :
            /\ s.waiter = "approved"
            /\ s.approval # NoPass
            /\ decision[s.approval] = "approve"
      BY <1>a, <2>1, <3>1 DEF ApprovalInv, SignalsWithinApproval, Vouched
    <3>3. QED
      BY <1>a, <1>d, <1>e, <2>2, <3>2
         DEF ApprovalInv, SignalsWithinApproval, Vouched
  <2>5. QED
    BY <1>5, <2>3, <2>4 DEF SendTermination
<1>6. CASE VerifyRelationship(p)
  BY <1>6, <1>a, <1>b, <1>c, <1>f DEF VerifyRelationship, histVars
<1>7. QED
  BY <1>1, <1>2, <1>3, <1>4, <1>5, <1>6 DEF ExecutorStep

\* The operator's answer vouches for more, never for less.
LEMMA ApprovalPrompt ==
  ASSUME TypeOK, ApprovalInv, NEW p \in Passes, Prompt(p)
  PROVE  ApprovalInv'
<1>a. /\ exec \in [Passes -> Execution] /\ view \in [Passes -> Incident]
      /\ pc \in [Passes -> Labels] /\ row \in Incident
      /\ decision \in [Passes -> {"none", "approve", "reject"}]
  BY DEF TypeOK, ExecTypeOK, StoreTypeOK
<1>1. UNCHANGED <<row, exec, view, signals>>
  BY DEF Prompt, storeVars, execVars, histVars
<1>2. decision[p] = "none" /\ pc'[p] = "acquire"
      /\ \A q \in Passes \ {p} :
              decision'[q] = decision[q] /\ pc'[q] = pc[q]
  BY <1>a DEF Prompt, Goto, ApprovalInv
<1>3. \A id \in Passes : decision[id] = "approve" => decision'[id] = "approve"
  BY <1>2
<1>4. \A id \in Passes \cup {NoPass} : Vouched(id) => Vouched(id)'
  BY <1>3 DEF Vouched
<1>5. /\ row.approval \in Passes \cup {NoPass}
      /\ \A q \in Passes : /\ view[q].approval \in Passes \cup {NoPass}
                           /\ exec[q].approval \in Passes \cup {NoPass}
      /\ \A b \in Actions : \A s \in signals[b] :
              s.approval \in Passes \cup {NoPass}
  BY <1>a DEF Incident, Execution, TypeOK, ExecTypeOK, Signal
<1>6. SignalsWithinApproval'
  BY <1>1, <1>3, <1>5 DEF ApprovalInv, SignalsWithinApproval
<1>7. QED
  BY <1>1, <1>2, <1>4, <1>5, <1>6 DEF ApprovalInv, Vouched

\* A step of a pass takes an approval over or is the one that was approved.
LEMMA ApprovalPassStep ==
  ASSUME TypeOK, LoopIndexOK, ApprovalInv, NEW p \in Passes, PassStep(p)
  PROVE  ApprovalInv'
<1>a. exec \in [Passes -> Execution]
  BY DEF TypeOK, ExecTypeOK
<1>b. Vouched(NoPass)
  BY DEF Vouched
<1>1. UNCHANGED <<signals, decision>> /\ OthersStill(p)
  BY PassStepFrame, PassStepLocal
<1>2. Vouched(row'.approval)
  BY PassStepFrame DEF SaveIncident, ApprovalInv
<1>3. \A q \in Passes : Vouched(view'[q].approval)
  <2>1. Vouched(view'[p].approval)
    BY <1>b, ViewApproval DEF ApprovalInv, Vouched
  <2>2. QED
    BY <1>1, <2>1 DEF ApprovalInv, OthersStill
<1>4. /\ \A q \in Passes : Vouched(exec'[q].approval)
      /\ \A q \in Passes : exec'[q].at \in {"policy", "send"} =>
              exec'[q].waiter = "approved" /\ exec'[q].approval # NoPass
  <2>1. CASE UNCHANGED exec
    BY <2>1 DEF ApprovalInv
  <2>2. CASE Execute(p)
    <3>1. exec'[p].at = "intent" /\ exec'[p].approval = view[p].approval
          /\ \A q \in Passes \ {p} : exec'[q] = exec[q]
      BY <2>2, <1>a DEF Execute, BeginExecution, NoExecution
    <3>2. QED
      BY <3>1 DEF ApprovalInv
  <2>3. QED
    BY <2>1, <2>2, PassStepFrame
<1>5. \A q \in Passes : pc'[q] \in {"start", "prompt"} =>
                              pc[q] \in {"start", "prompt"}
  BY <1>1, AsksOnce DEF OthersStill
<1>6. QED
  BY <1>1, <1>2, <1>3, <1>4, <1>5, ApprovalKept

\* No step loses or invents an approval.
LEMMA ApprovalStep ==
  ASSUME TypeOK, LoopIndexOK, ApprovalInv, [Next]_vars
  PROVE  ApprovalInv'
<1>a. /\ exec \in [Passes -> Execution] /\ view \in [Passes -> Incident]
      /\ pc \in [Passes -> Labels] /\ row \in Incident
      /\ decision \in [Passes -> {"none", "approve", "reject"}]
      /\ NoExecution.approval = NoPass /\ NoExecution.at = "idle"
      /\ PlannedIncident.approval = NoPass
  BY DEF TypeOK, ExecTypeOK, StoreTypeOK, NoExecution, PlannedIncident
<1>b. Vouched(NoPass)
  BY DEF Vouched
<1>1. ASSUME NEW p \in Passes, PassStep(p)
      PROVE  ApprovalInv'
  BY <1>1, ApprovalPassStep
<1>2. ASSUME NEW p \in Passes, Prompt(p)
      PROVE  ApprovalInv'
  BY <1>2, ApprovalPrompt
<1>3. ASSUME NEW p \in Passes, ExecutorStep(p), UNCHANGED passVars
      PROVE  ApprovalInv'
  BY <1>3, ApprovalExecutor
<1>4. ASSUME NEW p \in Passes, Crash(p) \/ Interrupt(p)
      PROVE  ApprovalInv'
  <2>1. UNCHANGED <<row, signals, decision>>
        /\ \A q \in Passes : exec'[q] = exec[q] \/ exec'[q] = NoExecution
    BY <1>4, DisturbedFrame
  <2>2. \A q \in Passes : view'[q] = view[q] \/ view'[q] = PlannedIncident
    BY <1>4, <1>a
       DEF Crash, Interrupt, PassCrash, PassInterrupt, End
  <2>3. \A q \in Passes : pc'[q] \in {"start", "prompt"} =>
                                pc[q] \in {"start", "prompt"}
    BY <1>4, <1>a
       DEF Crash, Interrupt, PassCrash, PassInterrupt, End, Goto
  <2>4. /\ \A q \in Passes : Vouched(view'[q].approval)
        /\ \A q \in Passes : Vouched(exec'[q].approval)
        /\ \A q \in Passes : exec'[q].at \in {"policy", "send"} =>
                exec'[q].waiter = "approved" /\ exec'[q].approval # NoPass
    BY <1>a, <1>b, <2>1, <2>2 DEF ApprovalInv
  <2>5. QED
    BY <2>1, <2>3, <2>4, ApprovalKept DEF ApprovalInv
<1>5. CASE UNCHANGED <<row, exec, claims, signals, pc, next, view, decision>>
  BY <1>5, ApprovalKept DEF ApprovalInv
<1>6. CASE Environment
  BY <1>5, <1>6, EnvironmentFrame
<1>7. CASE UNCHANGED vars
  BY <1>5, <1>7 DEF vars, storeVars, execVars, histVars, passVars
<1>8. QED
  BY <1>1, <1>2, <1>3, <1>4, <1>6, <1>7 DEF Next

\* Every signal ever sent is for an approved waiter and under an approval an
\* operator gave.
THEOREM SignalsAreApproved == Spec => []SignalsWithinApproval
<1>1. Init => ApprovalInv
  BY DEF Init, StoreInit, ExecInit, NoExecution, PlannedIncident, ApprovalInv,
         Vouched, SignalsWithinApproval
<1>2. TypeOK /\ LoopIndexOK /\ ApprovalInv /\ [Next]_vars => ApprovalInv'
  BY ApprovalStep
<1>3. ApprovalInv => SignalsWithinApproval
  BY DEF ApprovalInv
<1>4. QED
  BY <1>1, <1>2, <1>3, TypeCorrect, PTL DEF Spec

-----------------------------------------------------------------------------
(* The owner of the lease decides on the stored incident *)

\* While another pass owns the lease after the step of p, p has not changed
\* the row, nor made that pass's copy stale.
LEMMA OwnerUndisturbed ==
  ASSUME TypeOK, NEW p \in Passes, NEW q \in Passes \ {p}, leaseOwner' = q,
         \/ PassStep(p)
         \/ ExecutorStep(p)
  PROVE  leaseOwner = q /\ row' = row /\ (q \in fresh => q \in fresh')
<1> USE PassAssumption DEF storeVars
<1>a. q # NoPass
  OBVIOUS
<1>1. CASE Start(p) \/ Load(p)
  BY <1>1 DEF Start, Load, LoadIncident
<1>2. CASE Acquire(p)
  BY <1>2 DEF Acquire, AcquireLease
<1>3. CASE Enter(p) \/ RenewBeforeObservation(p) \/ RenewBeforeIntent(p)
  BY <1>3 DEF Enter, RenewBeforeObservation, RenewBeforeIntent, RenewThen,
              RenewLease, CanRenew, HoldsLease
<1>4. CASE Checkpoint(p)
  BY <1>4 DEF Checkpoint, SaveIncident, CanSave, HoldsLease
<1>5. CASE Release(p)
  BY <1>5, <1>a DEF Release, ReleaseLease
<1>6. CASE Admit(p) \/ Reconcile(p) \/ Step(p) \/ Observe(p)
  BY <1>6 DEF Admit, Reconcile, Step, Observe
<1>7. CASE GateBeforeRenewal(p) \/ GateBeforeIntent(p) \/ Execute(p)
           \/ ExecutorReturns(p)
  BY <1>7 DEF GateBeforeRenewal, GateBeforeIntent, Execute, ExecutorReturns
<1>8. CASE Interpret(p) \/ Recorded(p) \/ Verify(p) \/ Final(p)
  BY <1>8 DEF Interpret, Recorded, Verify, Final
<1>9. CASE ClaimAction(p)
  BY <1>9 DEF ClaimAction, ClaimActionExecution, CanClaim, HoldsLease
<1>10. CASE RecordIntent(p) \/ ValidateProposal(p) \/ RecheckPolicy(p)
            \/ SendTermination(p) \/ VerifyRelationship(p)
  BY <1>10 DEF RecordIntent, ValidateProposal, RecheckPolicy, SendTermination,
               VerifyRelationship
<1>11. QED
  BY <1>1, <1>2, <1>3, <1>4, <1>5, <1>6, <1>7, <1>8, <1>9, <1>10
     DEF PassStep, WorkflowStep, ExecutorStep

\* A pass comes to decide by reading the incident back, or goes on deciding on
\* the same copy while it leaves the store alone.
LEMMA ComesToDecide ==
  ASSUME TypeOK, LoopIndexOK, NEW p \in Passes, PassStep(p),
         pc'[p] \in DecidingLabels
  PROVE  \/ Load(p)
         \/ pc[p] \in DecidingLabels /\ UNCHANGED <<storeVars, view>>
<1> USE DEF DecidingLabels, StopIncident, StopAction, FinishAction,
            CheckpointThen, LoadThen, Goto, End
<1>a. pc \in [Passes -> Labels] /\ decision[p] \in {"none", "approve", "reject"}
  BY DEF TypeOK
<1>1. CASE Start(p) \/ Acquire(p) \/ Release(p) \/ Checkpoint(p)
  BY <1>1, <1>a DEF Start, Acquire, Release, Checkpoint
<1>2. CASE Admit(p)
  BY <1>2, <1>a DEF Admit
<1>3. CASE Enter(p) \/ RenewBeforeObservation(p) \/ RenewBeforeIntent(p)
  BY <1>3, <1>a
     DEF Enter, RenewBeforeObservation, RenewBeforeIntent, RenewThen
<1>4. CASE Reconcile(p)
  BY <1>4, <1>a DEF Reconcile, ReconcileInflight
<1>5. CASE Step(p)
  BY <1>5, <1>a DEF Step
<1>6. CASE Observe(p)
  <2>1. Sights(index[p]) \subseteq
            {"absent", "reused", "outside_policy", "new_waiters", "actionable"}
    BY <1>6, SightsType DEF Observe
  <2>2. QED
    BY <1>6, <1>a, <2>1 DEF Observe
<1>7. CASE GateBeforeRenewal(p) \/ GateBeforeIntent(p)
  BY <1>7, <1>a DEF GateBeforeRenewal, GateBeforeIntent, Closed
<1>8. CASE Execute(p) \/ ExecutorReturns(p)
  BY <1>8, <1>a DEF Execute, ExecutorReturns
<1>9. CASE Interpret(p)
  BY <1>9, <1>a DEF Interpret
<1>10. CASE Recorded(p) \/ Verify(p)
  BY <1>10, <1>a DEF Recorded, Verify
<1>11. CASE Final(p)
  BY <1>11, <1>a DEF Final
<1>12. QED
  BY <1>1, <1>2, <1>3, <1>4, <1>5, <1>6, <1>7, <1>8, <1>9, <1>10, <1>11
     DEF PassStep, WorkflowStep

\* An executor that has not claimed yet has its pass waiting for it.
LEMMA ExecutorAwaited ==
  ASSUME TypeOK, LoopIndexOK, CurrentInv, [Next]_vars
  PROVE  \A p \in Passes : exec'[p].at \in {"intent", "validate", "claim"} =>
                                pc'[p] = "executing"
<1> DEFINE Early(e) == e.at \in {"intent", "validate", "claim"}
<1>a. exec \in [Passes -> Execution] /\ pc \in [Passes -> Labels]
      /\ NoExecution.at = "idle"
  BY DEF TypeOK, ExecTypeOK, NoExecution
<1>b. \A q \in Passes : Early(exec[q]) => pc[q] = "executing"
  BY DEF CurrentInv
<1>1. ASSUME NEW p \in Passes, PassStep(p)
      PROVE  \A q \in Passes : Early(exec'[q]) => pc'[q] = "executing"
  <2>1. OthersStill(p)
    BY <1>1, PassStepLocal
  <2>2. CASE Execute(p)
    BY <2>1, <2>2, <1>a, <1>b DEF Execute, BeginExecution, Goto, OthersStill
  <2>3. CASE UNCHANGED exec
    <3>1. CASE Early(exec[p])
      <4>1. pc[p] = "executing" /\ exec[p].at # "returned"
        BY <1>b, <3>1
      <4>2. FALSE
        BY <1>1, <4>1 DEF PassStep, WorkflowStep, Start, Acquire, Admit, Enter, Reconcile,
           Step, RenewBeforeObservation, Observe, GateBeforeRenewal,
           RenewBeforeIntent, GateBeforeIntent, Execute, ExecutorReturns,
           Interpret, Recorded, Verify, Final, Checkpoint, Load, Release
      <4>3. QED
        BY <4>2
    <3>2. QED
      BY <1>b, <2>1, <2>3, <3>1 DEF OthersStill
  <2>4. QED
    BY <1>1, <2>2, <2>3, PassStepFrame
<1>2. ASSUME NEW p \in Passes, Prompt(p)
      PROVE  \A q \in Passes : Early(exec'[q]) => pc'[q] = "executing"
  BY <1>2, <1>a, <1>b DEF Prompt, Goto, execVars, histVars
<1>3. ASSUME NEW p \in Passes, ExecutorStep(p), UNCHANGED passVars
      PROVE  \A q \in Passes : Early(exec'[q]) => pc'[q] = "executing"
  <2>1. \A q \in Passes \ {p} : exec'[q] = exec[q]
    BY <1>3, <1>a DEF ExecutorStep, RecordIntent, ValidateProposal, ClaimAction,
       RecheckPolicy, SendTermination, VerifyRelationship, Advance, Return
  <2>2. Early(exec'[p]) => Early(exec[p])
    <3>1. CASE RecordIntent(p)
      BY <3>1 DEF RecordIntent
    <3>2. CASE ValidateProposal(p)
      BY <3>2 DEF ValidateProposal
    <3>3. CASE ClaimAction(p)
      BY <3>3 DEF ClaimAction
    <3>4. CASE RecheckPolicy(p)
      BY <3>4, <1>a DEF RecheckPolicy, Advance, Return, Execution
    <3>5. CASE SendTermination(p)
      <4>1. \/ Advance(p, "verify")
            \/ Return(p, "UNCONFIRMED")
        BY <3>5, SMTT(30) DEF SendTermination
      <4>2. ASSUME NEW at, Advance(p, at)
            PROVE  exec'[p].at = at
        BY <4>2, <1>a DEF Advance, Execution
      <4>3. ASSUME Return(p, "UNCONFIRMED")
            PROVE  exec'[p].at = "returned"
        BY <4>3, <1>a DEF Return, Execution
      <4>4. exec'[p].at \in {"verify", "returned"}
        BY <4>1, <4>2, <4>3
      <4>5. QED
        BY <4>4
    <3>6. CASE VerifyRelationship(p)
      <4>1. \E result \in {"CONFIRMED", "UNCONFIRMED"} : Return(p, result)
        BY <3>6 DEF VerifyRelationship
      <4>2. QED
        BY <4>1, <1>a DEF Return, Execution
    <3>7. QED
      BY <1>3, <3>1, <3>2, <3>3, <3>4, <3>5, <3>6 DEF ExecutorStep
  <2>3. QED
    BY <1>3, <1>b, <2>1, <2>2 DEF passVars
<1>4. ASSUME NEW p \in Passes, Crash(p) \/ Interrupt(p)
      PROVE  \A q \in Passes : Early(exec'[q]) => pc'[q] = "executing"
  <2>1. \A q \in Passes \ {p} : pc'[q] = pc[q]
    BY <1>4, <1>a DEF Crash, Interrupt, PassCrash, PassInterrupt, End, Goto
  <2>2. ~Early(exec'[p])
    BY <1>4, <1>a, DisturbedFrame
  <2>3. QED
    BY <1>4, <1>b, <2>1, <2>2, DisturbedFrame
<1>5. CASE Environment
  BY <1>5, <1>b, EnvironmentFrame
<1>6. CASE UNCHANGED vars
  BY <1>6, <1>b DEF vars, execVars, passVars
<1>7. QED
  BY <1>1, <1>2, <1>3, <1>4, <1>5, <1>6 DEF Next

\* Every step keeps the owner's copy the stored incident.
LEMMA OwnerIsCurrentStep ==
  ASSUME TypeOK, LoopIndexOK, CurrentInv, [Next]_vars
  PROVE  OwnerIsCurrent'
<1> DEFINE Current(q) == leaseOwner = q /\ pc[q] \in DecidingLabels =>
                             view[q] = row /\ q \in fresh
<1>a. /\ pc \in [Passes -> Labels] /\ view \in [Passes -> Incident]
      /\ fresh \subseteq Passes
  BY DEF TypeOK, StoreTypeOK
<1>b. \A q \in Passes : Current(q)
  BY DEF CurrentInv, OwnerIsCurrent
<1>1. ASSUME NEW p \in Passes, PassStep(p)
      PROVE  \A q \in Passes : Current(q)'
  <2>1. \A q \in Passes \ {p} : Current(q)'
    BY <1>1, <1>b, PassStepLocal, OwnerUndisturbed DEF OthersStill
  <2>2. Current(p)'
    <3>1. CASE Load(p)
      BY <3>1, <1>a DEF Load, LoadIncident
    <3>2. CASE pc[p] \in DecidingLabels /\ UNCHANGED <<storeVars, view>>
      BY <3>2, <1>b DEF storeVars
    <3>3. QED
      BY <1>1, <3>1, <3>2, ComesToDecide
  <2>3. QED
    BY <2>1, <2>2
<1>2. ASSUME NEW p \in Passes, Prompt(p)
      PROVE  \A q \in Passes : Current(q)'
  BY <1>2, <1>a, <1>b DEF Prompt, Goto, storeVars, DecidingLabels
<1>3. ASSUME NEW p \in Passes, ExecutorStep(p), UNCHANGED passVars
      PROVE  \A q \in Passes : Current(q)'
  <2>1. \A q \in Passes \ {p} : Current(q)'
    BY <1>3, <1>b, OwnerUndisturbed DEF passVars
  <2>2. Current(p)'
    <3>1. CASE UNCHANGED storeVars
      BY <3>1, <1>3, <1>b DEF storeVars, passVars
    <3>2. CASE ClaimAction(p) /\ exec[p].at = "claim"
      BY <3>2, <1>3 DEF CurrentInv, DecidingLabels, passVars
    <3>3. QED
      BY <1>3, <3>1, <3>2 DEF ExecutorStep, RecordIntent, ValidateProposal,
         ClaimAction, RecheckPolicy, SendTermination, VerifyRelationship
  <2>3. QED
    BY <2>1, <2>2
<1>4. ASSUME NEW p \in Passes, Crash(p) \/ Interrupt(p)
      PROVE  \A q \in Passes : Current(q)'
  <2>1. UNCHANGED storeVars
    BY <1>4 DEF Crash, Interrupt, PassCrash, PassInterrupt
  <2>2. /\ pc'[p] \in {"done", "crashed", "release"}
        /\ \A q \in Passes \ {p} : pc'[q] = pc[q] /\ view'[q] = view[q]
    BY <1>4, <1>a DEF Crash, Interrupt, PassCrash, PassInterrupt, End, Goto
  <2>3. QED
    BY <1>b, <2>1, <2>2 DEF storeVars, DecidingLabels
<1>5. CASE Environment
  <2>1. UNCHANGED <<row, leaseOwner, fresh, pc, view>>
    BY <1>5 DEF Environment, Clock, LeaseExpires, ApprovalExpires,
       DeadlinePasses, storeVars, passVars
  <2>2. QED
    BY <1>b, <2>1 DEF OwnerIsCurrent
<1>6. CASE UNCHANGED vars
  BY <1>6, <1>b DEF vars, storeVars, passVars, OwnerIsCurrent
<1>7. QED
  BY <1>1, <1>2, <1>3, <1>4, <1>5, <1>6 DEF Next, OwnerIsCurrent

\* The owner is current in every state.
LEMMA OwnersAreCurrent == Spec => []CurrentInv
<1>1. Init => CurrentInv
  BY DEF Init, ExecInit, NoExecution, CurrentInv, OwnerIsCurrent, DecidingLabels
<1>2. TypeOK /\ LoopIndexOK /\ CurrentInv /\ [Next]_vars => CurrentInv'
  BY ExecutorAwaited, OwnerIsCurrentStep DEF CurrentInv
<1>3. QED
  BY <1>1, <1>2, TypeCorrect, PTL DEF Spec

\* The pass that owns the lease, live or expired, decides on the incident as
\* it is stored.
THEOREM OwnerDecidesOnTheRow == Spec => []OwnerIsCurrent
<1>1. CurrentInv => OwnerIsCurrent
  BY DEF CurrentInv
<1>2. QED
  BY <1>1, OwnersAreCurrent, PTL

=============================================================================
