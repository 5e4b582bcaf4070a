---------------------------- MODULE IsolatedProofs ----------------------------
(***************************************************************************)
(* The isolated profile, for every number of actions, set of passes and set  *)
(* of faults: what the passes keep with their executor in another process,    *)
(* how the operator's grants and the incident agree, and that the promise to  *)
(* the operator is kept as it is in the combined profile.                     *)
(*                                                                         *)
(* The steps a pass shares with the combined profile come with the lemmas of  *)
(* IncidentWorkflowProofs and IncidentOrderProofs about single actions.       *)
(***************************************************************************)
EXTENDS IsolatedExecution, IncidentOrderProofs

-----------------------------------------------------------------------------
(* What each kind of step leaves alone *)

\* A workflow step is a step of a pass that calls no executor.
LEMMA WorkflowFrame ==
  ASSUME NEW p \in Passes, WorkflowStep(p)
  PROVE  /\ PassStep(p)
         /\ UNCHANGED <<blocker, exec, claims, signals, decision>>
         /\ UNCHANGED row \/ SaveIncident(p, view[p])
<1>1. PassStep(p)
  BY DEF PassStep
<1>2. UNCHANGED exec
  BY DEF WorkflowStep, Start, Acquire, Admit, Enter, Reconcile, Step,
         RenewBeforeObservation, Observe, GateBeforeRenewal, RenewBeforeIntent,
         GateBeforeIntent, Interpret, Recorded, Verify, Final, Checkpoint, Load,
         Release, execVars
<1>3. QED
  BY <1>1, <1>2, PassStepFrame

\* The exception branch edits the pass's copy and nothing else.
LEMMA RaisedFrame ==
  ASSUME TypeOK, NEW p \in Passes, Raised(p)
  PROVE  /\ UNCHANGED <<storeVars, blocker, execVars, index, decision>>
         /\ \/ pc'[p] = "release" /\ UNCHANGED view
            \/ /\ pc'[p] = "checkpoint" /\ next'[p] = "release"
               /\ view'[p].result = view[p].result
         /\ OthersStill(p)
<1>a. /\ pc \in [Passes -> Labels] /\ next \in [Passes -> Continuations]
      /\ view \in [Passes -> Incident] /\ index \in [Passes -> 0..N]
      /\ decision \in [Passes -> {"none", "approve", "reject"}]
      /\ view[p] \in Incident
  BY DEF TypeOK
<1>1. CASE StopAction(p, index[p], "IN_DOUBT")
  <2>1. [view[p] EXCEPT !.act[index[p]] = "IN_DOUBT",
                        !.state = "REVIEW_REQUIRED"].result = view[p].result
    BY <1>a DEF Incident
  <2>2. QED
    BY <1>1, <1>a, <2>1
       DEF Raised, StopAction, CheckpointThen, OthersStill
<1>2. CASE Goto(p, "release") /\ UNCHANGED view
  BY <1>2, <1>a DEF Raised, Goto, OthersStill
<1>3. QED
  BY <1>1, <1>2 DEF Raised

\* A call of the executor reaches the worker's queue or raises.
LEMMA CallFrame ==
  ASSUME IsolatedTypeOK, NEW p \in Passes, CallExecutor(p)
  PROVE  /\ UNCHANGED <<storeVars, blocker, histVars, view, index, decision,
                        grantVars>>
         /\ \A q \in Passes \ {p} : /\ exec'[q] = exec[q]
                                    /\ pc'[q] = pc[q] /\ next'[q] = next[q]
                                    /\ serving'[q] = serving[q]
         /\ \/ /\ serving' = [serving EXCEPT ![p] = "queued"]
               /\ exec'[p].at = "idle" /\ exec'[p].act = index[p]
               /\ pc'[p] = "executing"
            \/ /\ UNCHANGED <<serving, exec>>
               /\ pc'[p] = "load" /\ next'[p] = "raised"
<1>a. /\ pc \in [Passes -> Labels] /\ next \in [Passes -> Continuations]
      /\ exec \in [Passes -> Execution] /\ DOMAIN serving = Passes
  BY DEF IsolatedTypeOK, TypeOK, ExecTypeOK
<1>1. CASE /\ serving' = [serving EXCEPT ![p] = "queued"]
           /\ exec' = [exec EXCEPT ![p] = [NoExecution EXCEPT !.act = index[p]]]
           /\ Goto(p, "executing")
  <2>1. /\ [NoExecution EXCEPT !.act = index[p]].at = "idle"
        /\ [NoExecution EXCEPT !.act = index[p]].act = index[p]
    BY DEF NoExecution
  <2>2. exec'[p] = [NoExecution EXCEPT !.act = index[p]]
    BY <1>1, <1>a
  <2>3. QED
    BY <1>1, <1>a, <2>1, <2>2 DEF CallExecutor, Goto
<1>2. CASE LoadThen(p, "raised") /\ UNCHANGED <<serving, exec>>
  BY <1>2, <1>a DEF CallExecutor, LoadThen
<1>3. QED
  BY <1>1, <1>2 DEF CallExecutor

-----------------------------------------------------------------------------
(* Type correctness *)

IsolatedTypes == IsolatedTypeOK /\ LoopIndexOK

\* The types of the client and the worker are kept by the steps of the passes.
LEMMA IsolatedTypesStep ==
  ASSUME IsolatedTypes, [IsolatedNext]_isolatedVars
  PROVE  IsolatedTypes'
<1> DEFINE Grants == {"none", "issued"} \cup Consumed
           Places == {"none", "queued", "answered", "lost"} \cup BeingServed
           Rest == /\ grant \in [Actions -> Grants]
                   /\ grantLive \in [Actions -> BOOLEAN]
                   /\ review \subseteq Actions
                   /\ serving \in [Passes -> Places]
<1>a. TypeOK /\ LoopIndexOK /\ Rest
  BY DEF IsolatedTypes, IsolatedTypeOK
<1>b. ASSUME UNCHANGED <<grantVars, serving>>
      PROVE  Rest'
  BY <1>a, <1>b DEF grantVars
<1>c. ASSUME TypeOK', LoopIndexOK', Rest'
      PROVE  IsolatedTypes'
  BY <1>c DEF IsolatedTypes, IsolatedTypeOK
<1>d. ASSUME UNCHANGED vars
      PROVE  TypeOK' /\ LoopIndexOK'
  BY <1>a, <1>d, StillType DEF vars, passVars, TypeOK, LoopIndexOK, InLoop
<1>e. ASSUME UNCHANGED <<storeVars, blocker, histVars, passVars>>,
             exec' \in [Passes -> Execution]
      PROVE  TypeOK' /\ LoopIndexOK'
  BY <1>a, <1>e, StillType
     DEF passVars, histVars, TypeOK, ExecTypeOK, LoopIndexOK, InLoop
<1> HIDE DEF Rest
<1>1. ASSUME NEW p \in Passes, WorkflowStep(p), UNCHANGED <<grantVars, serving>>
      PROVE  IsolatedTypes'
  BY <1>a, <1>b, <1>c, <1>1, WorkflowFrame, PassStepType, LoopIndexStep
<1>2. ASSUME NEW p \in Passes, Prompt(p), UNCHANGED <<grantVars, serving>>
      PROVE  IsolatedTypes'
  <2>1. pc' \in [Passes -> Labels] /\ next' \in [Passes -> Continuations]
    BY <1>a, <1>2, GotoType DEF Prompt, Labels
  <2>2. TypeOK'
    BY <1>a, <1>2, <2>1, StillType DEF Prompt, TypeOK
  <2>3. QED
    BY <1>a, <1>b, <1>c, <1>2, <2>2, LoopIndexStep
<1>3. ASSUME NEW p \in Passes, Raised(p), UNCHANGED <<grantVars, serving>>
      PROVE  IsolatedTypes'
  <2>1. MoveTypeOK'
    <3>1. CASE StopAction(p, index[p], "IN_DOUBT")
      BY <1>a, <3>1, StopActionType DEF ActionStates
    <3>2. CASE Goto(p, "release") /\ UNCHANGED view
      BY <1>a, <3>2, GotoType, StillType DEF MoveTypeOK, Labels, Continuations
    <3>3. QED
      BY <1>3, <3>1, <3>2 DEF Raised
  <2>2. TypeOK'
    BY <1>a, <1>3, <2>1, StillType DEF Raised, TypeOK, MoveTypeOK
  <2>3. LoopIndexOK'
    BY <1>a, <1>3, RaisedFrame
       DEF LoopIndexOK, InLoop, OthersStill, LoopLabels, LoopContinuations
  <2>4. QED
    BY <1>b, <1>c, <1>3, <2>2, <2>3
<1>4. ASSUME NEW p \in Passes, CallExecutor(p)
      PROVE  IsolatedTypes'
  <2>1. index[p] \in Actions
    BY <1>a, <1>4 DEF CallExecutor, LoopIndexOK, InLoop, LoopLabels, LoopContinuations
  <2>2. [NoExecution EXCEPT !.act = index[p]] \in Execution
    BY <2>1 DEF NoExecution, Execution
  <2>3. ExecTypeOK'
    BY <1>a, <1>4, <2>2 DEF CallExecutor, TypeOK, ExecTypeOK, histVars
  <2>4. pc' \in [Passes -> Labels] /\ next' \in [Passes -> Continuations]
    BY <1>a, <1>4, GotoType, LoadThenType DEF CallExecutor, Labels, Continuations
  <2>5. TypeOK'
    BY <1>a, <1>4, <2>3, <2>4, StillType DEF CallExecutor, TypeOK
  <2>6. LoopIndexOK'
    <3>1. InLoop(p)
      BY <1>4 DEF CallExecutor, InLoop, LoopLabels, LoopContinuations
    <3>2. QED
      BY <1>a, <1>4, <3>1, CallFrame DEF IsolatedTypes, LoopIndexOK, InLoop
  <2>7. Rest'
    BY <1>a, <1>4 DEF CallExecutor, Rest, grantVars
  <2>8. QED
    BY <1>c, <2>5, <2>6, <2>7
<1>5. ASSUME NEW p \in Passes, ReceiveAnswer(p) \/ GiveUp(p)
      PROVE  IsolatedTypes'
  <2>1. LoadThen(p, "interpret") \/ LoadThen(p, "raised")
    BY <1>5 DEF ReceiveAnswer, GiveUp
  <2>2. /\ UNCHANGED <<storeVars, blocker, execVars, view, index, decision,
                       grantVars, serving>>
        /\ pc[p] = "executing"
    BY <1>5 DEF ReceiveAnswer, GiveUp
  <2>3. pc' \in [Passes -> Labels] /\ next' \in [Passes -> Continuations]
    BY <1>a, <2>1, LoadThenType DEF Continuations
  <2>4. TypeOK'
    BY <1>a, <2>2, <2>3, StillType DEF TypeOK
  <2>5. InLoop(p)
    BY <2>2 DEF InLoop, LoopLabels
  <2>6. LoopIndexOK'
    BY <1>a, <2>1, <2>2, <2>5 DEF LoopIndexOK, InLoop, LoadThen, TypeOK
  <2>7. QED
    BY <1>b, <1>c, <2>2, <2>4, <2>6
<1>6. ASSUME NEW p \in Passes, Serve(p)
      PROVE  IsolatedTypes'
  <2>1. Rest'
    BY <1>a, <1>6 DEF Serve, Rest, grantVars, BeingServed
  <2>2. QED
    BY <1>c, <1>d, <1>6, <2>1 DEF Serve
<1>7. ASSUME NEW p \in Passes, CheckIntent(p) \/ ClaimGrant(p)
      PROVE  IsolatedTypes'
  <2>1. exec \in [Passes -> Execution] /\ exec[p] \in Execution /\ row \in Incident
        /\ exec[p].act \in Actions
    BY <1>a DEF TypeOK, ExecTypeOK, StoreTypeOK, Execution
  <2>2. exec' \in [Passes -> Execution]
    <3>1. CASE Return(p, "REFUSED")
      BY <1>a, <3>1, ExecutionMoveType DEF Results
    <3>2. CASE Advance(p, "intent")
      <4>1. [exec[p] EXCEPT !.at = "intent"] \in Execution
        BY <2>1 DEF Execution
      <4>2. QED
        BY <3>2, <2>1, <4>1 DEF Advance
    <3>3. CASE exec' = [exec EXCEPT ![p] = [@ EXCEPT !.approval = row.approval]]
      <4>1. [exec[p] EXCEPT !.approval = row.approval] \in Execution
        BY <2>1 DEF Execution, Incident
      <4>2. QED
        BY <3>3, <2>1, <4>1
    <3>4. QED
      BY <1>7, <3>1, <3>2, <3>3 DEF CheckIntent, ClaimGrant, Deny
  <2>3. serving' \in [Passes -> Places]
    BY <1>7, <1>a DEF CheckIntent, ClaimGrant, Deny, Rest, BeingServed
  <2>4. grant' \in [Actions -> Grants]
    BY <1>7, <1>a, <2>1 DEF CheckIntent, ClaimGrant, Rest, grantVars, Consumed
  <2>5. Rest'
    BY <1>7, <1>a, <2>3, <2>4 DEF CheckIntent, ClaimGrant, Rest, grantVars
  <2>6. UNCHANGED <<storeVars, blocker, histVars, passVars>>
    BY <1>7 DEF CheckIntent, ClaimGrant
  <2>7. QED
    BY <1>c, <1>e, <2>2, <2>5, <2>6
<1>8. ASSUME NEW p \in Passes, GrantedExecutorStep(p)
      PROVE  IsolatedTypes'
  <2>1. TypeOK'
    BY <1>a, <1>8, ExecutorStepType DEF GrantedExecutorStep
  <2>2. LoopIndexOK'
    BY <1>a, <1>8 DEF GrantedExecutorStep, passVars, LoopIndexOK, InLoop
  <2>3. QED
    BY <1>b, <1>c, <1>8, <2>1, <2>2 DEF GrantedExecutorStep
<1>9. ASSUME NEW p \in Passes, RecordResult(p)
      PROVE  IsolatedTypes'
  <2>1. exec[p].act \in Actions
    BY <1>a DEF TypeOK, ExecTypeOK, Execution
  <2>2. grant' \in [Actions -> Grants]
    BY <1>9, <1>a, <2>1 DEF RecordResult, Rest, Consumed
  <2>3. serving' \in [Passes -> Places]
    BY <1>9, <1>a DEF RecordResult, Rest
  <2>4. Rest'
    BY <1>9, <1>a, <2>2, <2>3 DEF RecordResult, Rest
  <2>5. QED
    BY <1>c, <1>d, <1>9, <2>4 DEF RecordResult
<1>10. ASSUME NEW p \in Passes, DisturbPass(p)
       PROVE  IsolatedTypes'
  <2>1. CASE End(p, "done") \/ End(p, "crashed")
    <3>1. MoveTypeOK' /\ index' \in [Passes -> 0..N]
      BY <1>a, <2>1, EndType DEF Labels
    <3>2. LoopIndexOK'
      BY <1>a, <2>1
         DEF End, TypeOK, LoopIndexOK, InLoop, LoopLabels, LoopContinuations
    <3>3. TypeOK'
      BY <1>a, <1>10, <3>1, StillType
         DEF DisturbPass, PassCrash, PassInterrupt, TypeOK, MoveTypeOK, execVars
    <3>4. QED
      BY <1>b, <1>c, <1>10, <3>2, <3>3 DEF DisturbPass
  <2>2. CASE Goto(p, "release") /\ UNCHANGED <<view, index>>
    <3>1. pc' \in [Passes -> Labels] /\ next' \in [Passes -> Continuations]
      BY <1>a, <2>2, GotoType DEF Labels, Continuations
    <3>2. LoopIndexOK'
      BY <1>a, <2>2
         DEF Goto, TypeOK, LoopIndexOK, InLoop, LoopLabels, LoopContinuations
    <3>3. TypeOK'
      BY <1>a, <1>10, <2>2, <3>1, StillType
         DEF DisturbPass, PassCrash, PassInterrupt, TypeOK, execVars
    <3>4. QED
      BY <1>b, <1>c, <1>10, <3>2, <3>3 DEF DisturbPass
  <2>3. QED
    BY <1>10, <2>1, <2>2 DEF DisturbPass, PassCrash, PassInterrupt
<1>11. CASE ReviewScope \/ IssueGrants \/ \E a \in Actions : GrantExpires(a)
  <2>1. UNCHANGED vars
    BY <1>11 DEF ReviewScope, IssueGrants, GrantExpires
  <2>2. Rest'
    <3>1. CASE ReviewScope
      BY <1>a, <3>1 DEF ReviewScope, Rest
    <3>2. CASE IssueGrants
      BY <1>a, <3>2 DEF IssueGrants, Rest, Consumed, grantVars
    <3>3. ASSUME NEW a \in Actions, GrantExpires(a)
          PROVE  Rest'
      BY <1>a, <3>3 DEF GrantExpires, Rest
    <3>4. QED
      BY <1>11, <3>1, <3>2, <3>3
  <2>3. QED
    BY <1>c, <1>d, <2>1, <2>2
<1>12. CASE WorkerCrash
  <2>1. NoExecution \in Execution
    BY NAssumption DEF NoExecution, Execution, Actions
  <2>2. exec \in [Passes -> Execution]
    BY <1>a DEF TypeOK, ExecTypeOK
  <2>3. exec' \in [Passes -> Execution]
    BY <1>12, <2>1, <2>2 DEF WorkerCrash
  <2>4. Rest'
    BY <1>a, <1>12 DEF WorkerCrash, Rest, grantVars
  <2>5. QED
    BY <1>c, <1>e, <1>12, <2>3, <2>4 DEF WorkerCrash
<1>13. CASE Environment /\ UNCHANGED <<grantVars, serving>>
  BY <1>a, <1>b, <1>c, <1>13, EnvironmentType
<1>14. CASE UNCHANGED isolatedVars
  BY <1>b, <1>c, <1>d, <1>14 DEF isolatedVars
<1>15. QED
  BY <1>1, <1>2, <1>3, <1>4, <1>5, <1>6, <1>7, <1>8, <1>9, <1>10, <1>11,
     <1>12, <1>13, <1>14 DEF IsolatedNext

\* The types hold in every state of the isolated profile.
THEOREM IsolatedTypeCorrect == IsolatedSpec => []IsolatedTypes
<1>1. IsolatedInit => IsolatedTypes
  <2> SUFFICES ASSUME IsolatedInit PROVE IsolatedTypes
    OBVIOUS
  <2>1. TypeOK
    <3>1. NoExecution \in Execution
      BY NAssumption DEF NoExecution, Execution, Actions
    <3>2. ExecTypeOK
      BY <3>1 DEF IsolatedInit, Init, ExecInit, ExecTypeOK
    <3>3. StoreTypeOK /\ GraphTypeOK
      BY PlannedType
         DEF IsolatedInit, Init, StoreInit, StoreTypeOK, GraphInit, GraphTypeOK
    <3>4. PassTypeOK
      BY PlannedType, NAssumption
         DEF IsolatedInit, Init, PassTypeOK, Labels, Continuations
    <3>5. QED
      BY <3>2, <3>3, <3>4 DEF TypeOK, PassTypeOK
  <2>2. LoopIndexOK
    BY DEF IsolatedInit, Init, LoopIndexOK, InLoop, LoopLabels, LoopContinuations
  <2>3. QED
    BY <2>1, <2>2 DEF IsolatedInit, IsolatedTypes, IsolatedTypeOK
<1>2. IsolatedTypes /\ [IsolatedNext]_isolatedVars => IsolatedTypes'
  BY IsolatedTypesStep
<1>3. QED
  BY <1>1, <1>2, PTL DEF IsolatedSpec

\* The part of it that the runs check.
THEOREM IsolatedTypeHolds == IsolatedSpec => []IsolatedTypeOK
<1>1. IsolatedTypes => IsolatedTypeOK
  BY DEF IsolatedTypes
<1>2. QED
  BY <1>1, IsolatedTypeCorrect, PTL

-----------------------------------------------------------------------------
(* The line of authority *)

\* An execution starts under a grant that is consumed in the same step.
LEMMA StartsUnderGrant ==
  ASSUME IsolatedTypes, NEW p \in Passes, ClaimGrant(p)
  PROVE  /\ UNCHANGED <<row, leaseOwner, claims, signals>>
         /\ \A q \in Passes \ {p} : exec'[q] = exec[q]
         /\ \/ exec'[p].at = "returned"
            \/ /\ exec'[p].at = "intent" /\ exec'[p].act = exec[p].act
               /\ grant'[exec[p].act] = "claimed"
<1>a. /\ exec \in [Passes -> Execution] /\ exec[p] \in Execution
      /\ exec[p].act \in Actions /\ DOMAIN grant = Actions
  BY DEF IsolatedTypes, IsolatedTypeOK, TypeOK, ExecTypeOK, Execution
<1> USE DEF ClaimGrant, storeVars, histVars
<1>1. CASE Return(p, "REFUSED")
  BY <1>1, <1>a DEF Return, Execution
<1>2. CASE Advance(p, "intent") /\ grant' = [grant EXCEPT ![exec[p].act] = "claimed"]
  BY <1>2, <1>a DEF Advance, Execution
<1>3. QED
  BY <1>1, <1>2 DEF ClaimGrant, Deny

\* What the client and the worker do besides that and executing leaves the
\* incident and its history alone, and starts no execution.
LEMMA NoAuthority ==
  ASSUME IsolatedTypes, NEW p \in Passes,
         \/ CallExecutor(p) \/ ReceiveAnswer(p) \/ GiveUp(p) \/ Serve(p)
         \/ CheckIntent(p) \/ RecordResult(p) \/ DisturbPass(p)
         \/ Raised(p) \/ Prompt(p) \/ WorkerCrash
  PROVE  /\ UNCHANGED <<row, leaseOwner, claims, signals>>
         /\ \A q \in Passes : \/ exec'[q] = exec[q]
                              \/ /\ exec'[q].at = exec[q].at
                                 /\ exec'[q].act = exec[q].act
                              \/ exec'[q].at \in {"idle", "returned"}
<1> USE DEF storeVars, histVars, execVars, vars
<1>a. exec \in [Passes -> Execution] /\ exec[p] \in Execution /\ TypeOK
  BY DEF IsolatedTypes, IsolatedTypeOK, TypeOK, ExecTypeOK
<1>b. NoExecution.at = "idle"
  BY DEF NoExecution
<1>1. CASE CallExecutor(p)
  <2>1. UNCHANGED <<row, leaseOwner, claims, signals>>
    BY <1>1, CallFrame DEF IsolatedTypes
  <2>2. exec'[p] = exec[p] \/ exec'[p].at = "idle"
    BY <1>1, CallFrame DEF IsolatedTypes
  <2>3. \A q \in Passes \ {p} : exec'[q] = exec[q]
    BY <1>1, CallFrame DEF IsolatedTypes
  <2>4. QED
    BY <2>1, <2>2, <2>3
<1>2. CASE ReceiveAnswer(p) \/ GiveUp(p) \/ Serve(p) \/ RecordResult(p)
           \/ Raised(p) \/ Prompt(p)
  BY <1>2 DEF ReceiveAnswer, GiveUp, Serve, RecordResult, Raised, Prompt
<1>3. CASE CheckIntent(p)
  <2>1. CASE exec' = [exec EXCEPT ![p] = [@ EXCEPT !.approval = row.approval]]
    <3>1. /\ [exec[p] EXCEPT !.approval = row.approval].at = exec[p].at
          /\ [exec[p] EXCEPT !.approval = row.approval].act = exec[p].act
      BY <1>a DEF Execution
    <3>2. QED
      BY <1>3, <1>a, <2>1, <3>1 DEF CheckIntent
  <2>2. CASE Return(p, "REFUSED")
    <3>1. [exec[p] EXCEPT !.at = "returned", !.result = "REFUSED"].at = "returned"
      BY <1>a DEF Execution
    <3>2. QED
      BY <1>3, <1>a, <2>2, <3>1 DEF CheckIntent, Return
  <2>3. QED
    BY <1>3, <2>1, <2>2 DEF CheckIntent, Deny
<1>4. CASE DisturbPass(p)
  BY <1>4 DEF DisturbPass, PassCrash, PassInterrupt
<1>5. CASE WorkerCrash
  BY <1>5, <1>a, <1>b DEF WorkerCrash
<1>6. QED
  BY <1>1, <1>2, <1>3, <1>4, <1>5

\* No step of the isolated profile breaks the line of authority.
LEMMA IsolatedAuthorityStep ==
  ASSUME IsolatedTypes, AuthorityInv, [IsolatedNext]_isolatedVars
  PROVE  AuthorityInv'
<1>a. TypeOK /\ LoopIndexOK
  BY DEF IsolatedTypes, IsolatedTypeOK
<1>b. ASSUME UNCHANGED <<row, claims, signals>>,
             \A q \in Passes : \/ exec'[q] = exec[q]
                               \/ /\ exec'[q].at = exec[q].at
                                  /\ exec'[q].act = exec[q].act
                               \/ exec'[q].at \in {"idle", "intent", "returned"}
      PROVE  AuthorityInv'
  BY <1>b DEF AuthorityInv, SingleTermination
<1>1. ASSUME NEW p \in Passes, WorkflowStep(p)
      PROVE  AuthorityInv'
  <2>1. UNCHANGED <<exec, claims, signals>>
    BY <1>1, WorkflowFrame
  <2>2. CASE SaveIncident(p, view[p])
    <3>1. \A b \in Actions : row'.act[b] \in ActionTransitions(row.act[b])
      BY <2>2 DEF SaveIncident, CanSave
    <3>2. \A b \in Actions :
            row.act[b] \in DescendedStates => row'.act[b] \in DescendedStates
      BY <3>1, DescendedClosed
    <3>3. QED
      BY <2>1, <3>2 DEF AuthorityInv, SingleTermination
  <2>3. QED
    BY <1>1, <1>b, <2>1, <2>2, WorkflowFrame
<1>2. ASSUME NEW p \in Passes,
             \/ CallExecutor(p) \/ ReceiveAnswer(p) \/ GiveUp(p) \/ Serve(p)
             \/ CheckIntent(p) \/ RecordResult(p) \/ DisturbPass(p)
             \/ Raised(p) \/ Prompt(p) \/ WorkerCrash
      PROVE  AuthorityInv'
  BY <1>2, <1>b, NoAuthority
<1>3. ASSUME NEW p \in Passes, GrantedExecutorStep(p)
      PROVE  AuthorityInv'
  BY <1>a, <1>3, AuthorityExecutor DEF GrantedExecutorStep
<1>4. CASE ReviewScope \/ IssueGrants \/ \E a \in Actions : GrantExpires(a)
  <2>1. UNCHANGED vars
    BY <1>4 DEF ReviewScope, IssueGrants, GrantExpires
  <2>2. QED
    BY <1>b, <2>1 DEF vars, storeVars, execVars, histVars
<1>5. CASE Environment
  BY <1>b, <1>5, EnvironmentFrame
<1>6. CASE UNCHANGED isolatedVars
  BY <1>b, <1>6 DEF isolatedVars, vars, storeVars, execVars, histVars
<1>7. CASE WorkerCrash
  BY <1>2, <1>7 DEF WorkerCrash
<1>8. ASSUME NEW p \in Passes, ClaimGrant(p)
      PROVE  AuthorityInv'
  BY <1>8, <1>b, StartsUnderGrant
<1>9. QED
  BY <1>1, <1>2, <1>3, <1>4, <1>5, <1>6, <1>7, <1>8 DEF IsolatedNext

\* The worker, too, claims an action once and signals as its claimer only.
LEMMA IsolatedAuthorityHolds == IsolatedSpec => []AuthorityInv
<1>1. IsolatedInit => AuthorityInv
  BY DEF IsolatedInit, Init, ExecInit, NoExecution, AuthorityInv, SingleTermination
<1>2. IsolatedTypes /\ AuthorityInv /\ [IsolatedNext]_isolatedVars => AuthorityInv'
  BY IsolatedAuthorityStep
<1>3. QED
  BY <1>1, <1>2, IsolatedTypeCorrect, PTL DEF IsolatedSpec

\* A request whose pass gave up, died or lost its lease, a worker that dies and
\* comes back: the target of an action is still signalled once at most, and not
\* at all while the action is open.
THEOREM IsolatedTerminatesOnce ==
  IsolatedSpec => [](SingleTermination /\ OpenMeansUntouched)
<1>1. IsolatedTypes /\ AuthorityInv => SingleTermination /\ OpenMeansUntouched
  BY DEF AuthorityInv, OpenMeansUntouched, DescendedStates
<1>2. QED
  BY <1>1, IsolatedAuthorityHolds, IsolatedTypeCorrect, PTL

-----------------------------------------------------------------------------
(* Signals within an approval *)

\* The approval the worker gives to an execution is the one stored with the
\* intent it checked, and no step but those of the executor passes a claim.
LEMMA WorkerApproval ==
  ASSUME IsolatedTypes, NEW p \in Passes,
         \/ CallExecutor(p) \/ ReceiveAnswer(p) \/ GiveUp(p) \/ Serve(p)
         \/ CheckIntent(p) \/ ClaimGrant(p) \/ RecordResult(p)
         \/ DisturbPass(p) \/ WorkerCrash
  PROVE  \A q \in Passes :
            \/ exec'[q] = exec[q]
            \/ /\ exec'[q].at \notin {"policy", "send"}
               /\ exec'[q].approval \in {exec[q].approval, NoPass}
            \/ /\ exec'[q].at = exec[q].at /\ exec'[q].waiter = exec[q].waiter
               /\ exec'[q].approval = row.approval /\ row.approval # NoPass
<1>a. exec \in [Passes -> Execution] /\ exec[p] \in Execution
  BY DEF IsolatedTypes, IsolatedTypeOK, TypeOK, ExecTypeOK
<1>b. NoExecution.at = "idle" /\ NoExecution.approval = NoPass
  BY DEF NoExecution
<1>c. ASSUME Return(p, "REFUSED")
      PROVE  /\ exec'[p].at = "returned" /\ exec'[p].approval = exec[p].approval
             /\ \A q \in Passes \ {p} : exec'[q] = exec[q]
  BY <1>a, <1>c DEF Return, Execution
<1>1. CASE CallExecutor(p)
  <2>1. CASE exec' = [exec EXCEPT ![p] = [NoExecution EXCEPT !.act = index[p]]]
    <3>1. /\ [NoExecution EXCEPT !.act = index[p]].at = "idle"
          /\ [NoExecution EXCEPT !.act = index[p]].approval = NoPass
      BY DEF NoExecution
    <3>2. QED
      BY <1>a, <2>1, <3>1
  <2>2. QED
    BY <1>1, <2>1 DEF CallExecutor
<1>2. CASE ReceiveAnswer(p) \/ GiveUp(p) \/ Serve(p) \/ RecordResult(p)
           \/ DisturbPass(p)
  BY <1>2 DEF ReceiveAnswer, GiveUp, Serve, RecordResult, DisturbPass, execVars,
              vars
<1>3. CASE CheckIntent(p)
  <2>1. CASE /\ exec' = [exec EXCEPT ![p] = [@ EXCEPT !.approval = row.approval]]
             /\ row.approval # NoPass
    <3>1. /\ [exec[p] EXCEPT !.approval = row.approval].at = exec[p].at
          /\ [exec[p] EXCEPT !.approval = row.approval].waiter = exec[p].waiter
          /\ [exec[p] EXCEPT !.approval = row.approval].approval = row.approval
      BY <1>a DEF Execution
    <3>2. QED
      BY <1>a, <2>1, <3>1
  <2>2. QED
    BY <1>3, <1>c, <2>1 DEF CheckIntent, Deny
<1>4. CASE ClaimGrant(p)
  <2>1. CASE Advance(p, "intent")
    BY <1>a, <2>1 DEF Advance, Execution
  <2>2. QED
    BY <1>4, <1>c, <2>1 DEF ClaimGrant, Deny
<1>5. CASE WorkerCrash
  BY <1>5, <1>a, <1>b DEF WorkerCrash
<1>6. QED
  BY <1>1, <1>2, <1>3, <1>4, <1>5

\* Those steps change neither the incident nor what the operators answered, and
\* bring no pass back to its prompt.
LEMMA ApprovalWorker ==
  ASSUME IsolatedTypes, ApprovalInv, NEW p \in Passes,
         \/ CallExecutor(p) \/ ReceiveAnswer(p) \/ GiveUp(p) \/ Serve(p)
         \/ CheckIntent(p) \/ ClaimGrant(p) \/ RecordResult(p)
         \/ DisturbPass(p) \/ WorkerCrash
  PROVE  ApprovalInv'
<1>a. /\ TypeOK /\ pc \in [Passes -> Labels] /\ view \in [Passes -> Incident]
      /\ PlannedIncident.approval = NoPass
  BY DEF IsolatedTypes, IsolatedTypeOK, TypeOK, PlannedIncident
<1>b. Vouched(NoPass)
  BY DEF Vouched
<1>1. UNCHANGED <<row, signals, decision>>
  BY DEF CallExecutor, ReceiveAnswer, GiveUp, Serve, CheckIntent, ClaimGrant,
         RecordResult, DisturbPass, PassCrash, PassInterrupt, WorkerCrash,
         storeVars, execVars, histVars, passVars, vars
<1>2. \A q \in Passes : view'[q] = view[q] \/ view'[q] = PlannedIncident
  <2>1. CASE DisturbPass(p)
    BY <2>1, <1>a DEF DisturbPass, PassCrash, PassInterrupt, End
  <2>2. CASE ~DisturbPass(p)
    BY <2>2 DEF CallExecutor, ReceiveAnswer, GiveUp, Serve, CheckIntent,
                ClaimGrant, RecordResult, WorkerCrash, passVars, vars
  <2>3. QED
    BY <2>1, <2>2
<1>3. \A q \in Passes : pc'[q] \in {"start", "prompt"} =>
                              pc[q] \in {"start", "prompt"}
  <2>1. CASE DisturbPass(p)
    BY <2>1, <1>a DEF DisturbPass, PassCrash, PassInterrupt, End, Goto
  <2>2. CASE CallExecutor(p) \/ ReceiveAnswer(p) \/ GiveUp(p)
    BY <2>2, <1>a DEF CallExecutor, ReceiveAnswer, GiveUp, LoadThen, Goto
  <2>3. CASE \/ Serve(p) \/ CheckIntent(p) \/ ClaimGrant(p) \/ RecordResult(p)
             \/ WorkerCrash
    BY <2>3 DEF Serve, CheckIntent, ClaimGrant, RecordResult, WorkerCrash,
                passVars, vars
  <2>4. QED
    BY <2>1, <2>2, <2>3
<1>4. /\ \A q \in Passes : Vouched(exec'[q].approval)
      /\ \A q \in Passes : exec'[q].at \in {"policy", "send"} =>
              exec'[q].waiter = "approved" /\ exec'[q].approval # NoPass
  BY <1>b, WorkerApproval DEF ApprovalInv, Vouched
<1>5. \A q \in Passes : Vouched(view'[q].approval)
  BY <1>a, <1>b, <1>2 DEF ApprovalInv
<1>6. QED
  BY <1>a, <1>1, <1>3, <1>4, <1>5, ApprovalKept DEF ApprovalInv

\* Neither does the exception branch.
LEMMA ApprovalRaised ==
  ASSUME IsolatedTypes, ApprovalInv, NEW p \in Passes, Raised(p)
  PROVE  ApprovalInv'
<1>a. /\ TypeOK /\ view \in [Passes -> Incident] /\ view[p] \in Incident
  BY DEF IsolatedTypes, IsolatedTypeOK, TypeOK
<1>1. /\ UNCHANGED <<storeVars, blocker, execVars, index, decision>>
      /\ pc'[p] \in {"release", "checkpoint"} /\ OthersStill(p)
  BY <1>a, RaisedFrame
<1>2. UNCHANGED <<row, exec, signals, decision>>
  BY <1>1 DEF Raised, storeVars, execVars, histVars
<1>3. view'[p].approval = view[p].approval
  <2>1. [view[p] EXCEPT !.act[index[p]] = "IN_DOUBT",
                        !.state = "REVIEW_REQUIRED"].approval = view[p].approval
    BY <1>a DEF Incident
  <2>2. QED
    BY <1>a, <2>1 DEF Raised, StopAction, CheckpointThen
<1>4. \A q \in Passes : Vouched(view'[q].approval)
  BY <1>1, <1>3 DEF ApprovalInv, OthersStill
<1>5. \A q \in Passes : pc'[q] \in {"start", "prompt"} =>
                              pc[q] \in {"start", "prompt"}
  BY <1>1 DEF OthersStill
<1>6. QED
  BY <1>a, <1>2, <1>4, <1>5, ApprovalKept DEF ApprovalInv

\* No step of the isolated profile loses or invents an approval.
LEMMA IsolatedApprovalStep ==
  ASSUME IsolatedTypes, ApprovalInv, [IsolatedNext]_isolatedVars
  PROVE  ApprovalInv'
<1>a. TypeOK /\ LoopIndexOK
  BY DEF IsolatedTypes, IsolatedTypeOK
<1>1. ASSUME NEW p \in Passes, WorkflowStep(p)
      PROVE  ApprovalInv'
  BY <1>1, <1>a, WorkflowFrame, ApprovalPassStep
<1>2. ASSUME NEW p \in Passes, Prompt(p)
      PROVE  ApprovalInv'
  BY <1>2, <1>a, ApprovalPrompt
<1>3. ASSUME NEW p \in Passes, Raised(p)
      PROVE  ApprovalInv'
  BY <1>3, ApprovalRaised
<1>4. ASSUME NEW p \in Passes,
             \/ CallExecutor(p) \/ ReceiveAnswer(p) \/ GiveUp(p) \/ Serve(p)
             \/ CheckIntent(p) \/ ClaimGrant(p) \/ RecordResult(p)
             \/ DisturbPass(p) \/ WorkerCrash
      PROVE  ApprovalInv'
  BY <1>4, ApprovalWorker
<1>5. ASSUME NEW p \in Passes, GrantedExecutorStep(p)
      PROVE  ApprovalInv'
  BY <1>5, <1>a, ApprovalExecutor DEF GrantedExecutorStep
<1>6. CASE UNCHANGED <<row, exec, claims, signals, pc, next, view, decision>>
  BY <1>6, <1>a, ApprovalKept DEF ApprovalInv
<1>7. CASE Environment
  BY <1>6, <1>7, EnvironmentFrame
<1>8. CASE \/ ReviewScope \/ IssueGrants \/ (\E a \in Actions : GrantExpires(a))
           \/ UNCHANGED isolatedVars
  <2>1. UNCHANGED vars
    BY <1>8 DEF ReviewScope, IssueGrants, GrantExpires, isolatedVars
  <2>2. QED
    BY <1>6, <2>1 DEF vars, storeVars, execVars, histVars, passVars
<1>9. CASE WorkerCrash
  BY <1>4, <1>9 DEF WorkerCrash
<1>10. QED
  BY <1>1, <1>2, <1>3, <1>4, <1>5, <1>7, <1>8, <1>9 DEF IsolatedNext

\* The worker, which takes the approval from the incident it loads and not from
\* the request, signals for an approved waiter and under an approval an operator
\* gave (execution_client.py and executor_worker.py).
THEOREM IsolatedSignalsAreApproved == IsolatedSpec => []SignalsWithinApproval
<1>1. IsolatedInit => ApprovalInv
  BY DEF IsolatedInit, Init, StoreInit, ExecInit, NoExecution, PlannedIncident,
         ApprovalInv, Vouched, SignalsWithinApproval
<1>2. IsolatedTypes /\ ApprovalInv /\ [IsolatedNext]_isolatedVars => ApprovalInv'
  BY IsolatedApprovalStep
<1>3. ApprovalInv => SignalsWithinApproval
  BY DEF ApprovalInv
<1>4. QED
  BY <1>1, <1>2, <1>3, IsolatedTypeCorrect, PTL DEF IsolatedSpec

-----------------------------------------------------------------------------
(* The operator's grants *)

\* An execution the worker let run, up to its answer.
UnderGrant == {"intent", "validate", "claim", "policy", "send", "verify"}

\* What a claim rests on: the grant was consumed before the executor started.
GrantInv ==
    /\ ClaimsAreGranted
    /\ \A p \in Passes :
            exec[p].at \in UnderGrant => grant[exec[p].act] \in Consumed

\* Only the operator and the worker move grants: a consumed one stays consumed,
\* and a recorded one recorded.
LEMMA GrantsStep ==
  ASSUME IsolatedTypes, [IsolatedNext]_isolatedVars
  PROVE  \A a \in Actions : /\ grant[a] \in Consumed => grant'[a] \in Consumed
                            /\ grant[a] = "recorded" => grant'[a] = "recorded"
<1>a. DOMAIN grant = Actions /\ \A p \in Passes : exec[p].act \in Actions
  BY DEF IsolatedTypes, IsolatedTypeOK, TypeOK, ExecTypeOK, Execution
<1> USE DEF grantVars, Consumed
<1>1. ASSUME NEW p \in Passes, ClaimGrant(p)
      PROVE  \A a \in Actions : grant'[a] = grant[a] \/ grant[a] = "issued"
  BY <1>1, <1>a DEF ClaimGrant
<1>2. ASSUME NEW p \in Passes, RecordResult(p)
      PROVE  \A a \in Actions : grant'[a] = grant[a] \/ grant'[a] = "recorded"
  BY <1>2, <1>a DEF RecordResult
<1>3. ASSUME IssueGrants
      PROVE  \A a \in Actions : grant'[a] = grant[a] \/ grant[a] \notin Consumed
  BY <1>3, <1>a DEF IssueGrants
<1>4. ASSUME NEW p \in Passes,
             \/ CallExecutor(p) \/ ReceiveAnswer(p) \/ GiveUp(p) \/ Serve(p)
             \/ CheckIntent(p) \/ GrantedExecutorStep(p) \/ DisturbPass(p)
      PROVE  UNCHANGED grant
  BY <1>4 DEF CallExecutor, ReceiveAnswer, GiveUp, Serve, CheckIntent,
     GrantedExecutorStep, DisturbPass
<1>5. ASSUME ReviewScope \/ WorkerCrash \/ (\E a \in Actions : GrantExpires(a))
             \/ UNCHANGED isolatedVars
      PROVE  UNCHANGED grant
  BY <1>5 DEF ReviewScope, WorkerCrash, GrantExpires, isolatedVars
<1>6. CASE UNCHANGED grant
  BY <1>6
<1>7. QED
  BY <1>1, <1>2, <1>3, <1>4, <1>5, <1>6 DEF IsolatedNext

\* A consumed grant is never issued again, also by an operator who read the
\* incident before it was consumed, and whatever dies in between.
THEOREM GrantsAreUsedOnce == IsolatedSpec => GrantsAreSingleUse
<1>1. IsolatedTypes /\ [IsolatedNext]_isolatedVars =>
        [\A a \in Actions :
            grant[a] \in Consumed => grant'[a] \in Consumed]_isolatedVars
  BY GrantsStep
<1>2. QED
  BY <1>1, IsolatedTypeCorrect, PTL DEF IsolatedSpec, GrantsAreSingleUse

-----------------------------------------------------------------------------
(* Claims need grants *)

\* A step of an executor claims its own action or nothing.
LEMMA ExecutorClaims ==
  ASSUME TypeOK, NEW p \in Passes, ExecutorStep(p)
  PROVE  /\ \/ UNCHANGED claims
            \/ /\ exec[p].at = "claim"
               /\ claims' = [claims EXCEPT ![exec[p].act] = @ \cup {p}]
         /\ \A q \in Passes \ {p} : exec'[q] = exec[q]
         /\ exec[p].at \in UnderGrant
         /\ exec'[p].act = exec[p].act
         /\ exec'[p].at \in UnderGrant \cup {"returned"}
<1> USE DEF histVars, UnderGrant
<1>a. exec \in [Passes -> Execution] /\ exec[p] \in Execution
  BY DEF TypeOK, ExecTypeOK
<1>b. ASSUME NEW at, Advance(p, at)
      PROVE  /\ exec'[p].act = exec[p].act /\ exec'[p].at = at
             /\ \A q \in Passes \ {p} : exec'[q] = exec[q]
  BY <1>a, <1>b DEF Advance, Execution
<1>c. ASSUME NEW result, Return(p, result)
      PROVE  /\ exec'[p].act = exec[p].act /\ exec'[p].at = "returned"
             /\ \A q \in Passes \ {p} : exec'[q] = exec[q]
  BY <1>a, <1>c DEF Return, Execution
<1>1. CASE RecordIntent(p)
  BY <1>1, <1>b, <1>c DEF RecordIntent
<1>2. CASE ValidateProposal(p)
  <2>1. ASSUME NEW waiter \in WaiterKinds,
               exec' = [exec EXCEPT ![p] = [@ EXCEPT !.at = "claim",
                                                     !.waiter = waiter]]
        PROVE  /\ exec'[p].at = "claim" /\ exec'[p].act = exec[p].act
               /\ \A q \in Passes \ {p} : exec'[q] = exec[q]
    <3>1. /\ [exec[p] EXCEPT !.at = "claim", !.waiter = waiter].at = "claim"
          /\ [exec[p] EXCEPT !.at = "claim", !.waiter = waiter].act = exec[p].act
      BY <1>a DEF Execution
    <3>2. QED
      BY <1>a, <2>1, <3>1
  <2>2. QED
    BY <1>2, <1>c, <2>1 DEF ValidateProposal
<1>3. CASE ClaimAction(p)
  BY <1>3, <1>b, <1>c DEF ClaimAction
<1>4. CASE RecheckPolicy(p)
  BY <1>4, <1>b, <1>c DEF RecheckPolicy
<1>5. CASE SendTermination(p)
  BY <1>5, <1>b, <1>c DEF SendTermination
<1>6. CASE VerifyRelationship(p)
  BY <1>6, <1>b, <1>c DEF VerifyRelationship
<1>7. QED
  BY <1>1, <1>2, <1>3, <1>4, <1>5, <1>6 DEF ExecutorStep

\* The claims rest on consumed grants after every step.
LEMMA GrantStep ==
  ASSUME IsolatedTypes, GrantInv, [IsolatedNext]_isolatedVars
  PROVE  GrantInv'
<1>a. /\ TypeOK /\ \A q \in Passes : exec[q].act \in Actions
      /\ claims \in [Actions -> SUBSET Passes]
  BY DEF IsolatedTypes, IsolatedTypeOK, TypeOK, ExecTypeOK, Execution
<1>b. \A a \in Actions : grant[a] \in Consumed => grant'[a] \in Consumed
  BY GrantsStep
<1>c. ASSUME UNCHANGED claims,
             \A q \in Passes : \/ exec'[q].at \notin UnderGrant
                               \/ /\ exec[q].at \in UnderGrant
                                  /\ exec'[q].act = exec[q].act
                               \/ /\ exec'[q].act = exec[q].act
                                  /\ grant'[exec[q].act] \in Consumed
      PROVE  GrantInv'
  BY <1>a, <1>b, <1>c DEF GrantInv, ClaimsAreGranted
<1>d. ASSUME UNCHANGED <<claims, exec>>
      PROVE  GrantInv'
  BY <1>c, <1>d
<1>1. ASSUME NEW p \in Passes, WorkflowStep(p)
      PROVE  GrantInv'
  BY <1>1, <1>d, WorkflowFrame
<1>2. ASSUME NEW p \in Passes,
             \/ CallExecutor(p) \/ ReceiveAnswer(p) \/ GiveUp(p) \/ Serve(p)
             \/ CheckIntent(p) \/ RecordResult(p)
             \/ DisturbPass(p) \/ Raised(p) \/ Prompt(p) \/ WorkerCrash
      PROVE  GrantInv'
  BY <1>2, <1>c, NoAuthority DEF UnderGrant
<1>3. ASSUME NEW p \in Passes, ClaimGrant(p)
      PROVE  GrantInv'
  BY <1>3, <1>c, StartsUnderGrant DEF UnderGrant, Consumed
<1>4. ASSUME NEW p \in Passes, GrantedExecutorStep(p)
      PROVE  GrantInv'
  <2>1. ExecutorStep(p)
    BY <1>4 DEF GrantedExecutorStep
  <2>2. CASE UNCHANGED claims
    BY <1>a, <1>c, <2>1, <2>2, ExecutorClaims
  <2>3. CASE claims' = [claims EXCEPT ![exec[p].act] = @ \cup {p}]
    <3>1. grant[exec[p].act] \in Consumed
      BY <1>a, <2>1, ExecutorClaims DEF GrantInv
    <3>2. ClaimsAreGranted'
      BY <1>a, <1>b, <2>3, <3>1 DEF GrantInv, ClaimsAreGranted
    <3>3. \A q \in Passes :
            exec'[q].at \in UnderGrant => grant'[exec'[q].act] \in Consumed
      BY <1>a, <1>b, <2>1, <3>1, ExecutorClaims DEF GrantInv
    <3>4. QED
      BY <3>2, <3>3 DEF GrantInv
  <2>4. QED
    BY <1>a, <2>1, <2>2, <2>3, ExecutorClaims
<1>5. CASE ReviewScope \/ IssueGrants \/ \E a \in Actions : GrantExpires(a)
  BY <1>d, <1>5
     DEF ReviewScope, IssueGrants, GrantExpires, vars, execVars, histVars
<1>6. CASE Environment
  BY <1>d, <1>6, EnvironmentFrame
<1>7. CASE UNCHANGED isolatedVars
  BY <1>d, <1>7 DEF isolatedVars, vars, execVars, histVars
<1>8. CASE WorkerCrash
  BY <1>2, <1>8 DEF WorkerCrash
<1>9. QED
  BY <1>1, <1>2, <1>3, <1>4, <1>5, <1>6, <1>7, <1>8 DEF IsolatedNext

\* Nothing is claimed in the incident, hence nothing signalled, without a grant
\* that is gone in the operator's database, whatever dies between the commits of
\* the two databases.
THEOREM ClaimsHaveGrants == IsolatedSpec => []ClaimsAreGranted
<1>1. IsolatedInit => GrantInv
  BY DEF IsolatedInit, Init, ExecInit, NoExecution, GrantInv, ClaimsAreGranted,
         UnderGrant
<1>2. IsolatedTypes /\ GrantInv /\ [IsolatedNext]_isolatedVars => GrantInv'
  BY GrantStep
<1>3. GrantInv => ClaimsAreGranted
  BY DEF GrantInv
<1>4. QED
  BY <1>1, <1>2, <1>3, IsolatedTypeCorrect, PTL DEF IsolatedSpec

-----------------------------------------------------------------------------
(* Answers and results *)

\* The results of an incident that the operator's own database holds as well.
RecordedResults(value) ==
    \A a \in Actions : value.result[a] # "NONE" => grant[a] = "recorded"

\* A pass waits for its request, or will not look at its answer any more.
Away(p) ==
    \/ pc[p] \in {"executing", "raised", "release", "done", "crashed"}
    \/ pc[p] = "load" /\ next[p] = "raised"
    \/ pc[p] = "checkpoint" /\ next[p] = "release"

\* A pass has its intent saved and its request not sent.
AboutToCall(p) ==
    \/ pc[p] = "execute"
    \/ pc[p] = "load" /\ next[p] = "execute"

\* A pass has its answer and has not acted on it.
HasAnswer(p) ==
    \/ pc[p] = "interpret"
    \/ pc[p] = "load" /\ next[p] = "interpret"

Intends(p) == AboutToCall(p) \/ pc[p] = "executing" \/ HasAnswer(p)

\* The request of a pass and its execution: what was answered was recorded, and
\* was refused otherwise; a pass that goes on has its answer.
RequestOf(p) ==
    /\ serving[p] = "none" => exec[p].at = "idle"
    /\ serving[p] \in {"queued", "gate", "grant"} =>
            exec[p].at = "idle" /\ p \notin claims[exec[p].act]
    /\ serving[p] = "answered" =>
            /\ exec[p].at = "returned"
            /\ p \in claims[exec[p].act] => grant[exec[p].act] = "recorded"
    /\ ~Away(p) => serving[p] \in {"none", "answered"}
    /\ pc[p] = "executing" /\ serving[p] # "lost" => exec[p].act = index[p]
    /\ HasAnswer(p) => serving[p] = "answered" /\ exec[p].act = index[p]
    /\ AboutToCall(p) => p \notin claims[index[p]]
    /\ pc[p] = "checkpoint" => next[p] \notin {"interpret", "raised"}
    /\ pc[p] = "checkpoint" /\ next[p] = "execute" =>
            view[p].act[index[p]] = "EXECUTING"

RequestInv == \A p \in Passes : RequestOf(p)

\* While the owner of the lease carries out its intent, nobody else claims its
\* action.
IntentOf(p) ==
    leaseOwner = p /\ Intends(p) /\ p \notin claims[index[p]] =>
        row.act[index[p]] # "APPLYING"

IntentInv == \A p \in Passes : IntentOf(p)

\* A copy of the current version is the row, and once edited brings no result
\* the operator does not have.
CopyOf(p) ==
    p \in fresh =>
        /\ pc[p] \in DecidingLabels \cup {"raised"} => view[p] = row
        /\ pc[p] = "checkpoint" /\ leaseOwner = p => RecordedResults(view[p])

CopyInv == \A p \in Passes : CopyOf(p)

\* Where the steps between two transactions lead.
LEMMA LocalMoves ==
  ASSUME TypeOK, LoopIndexOK, NEW p \in Passes, WorkflowStep(p)
  PROVE  \/ Load(p)
         \/ Checkpoint(p)
         \/ /\ pc[p] \notin {"load", "checkpoint", "execute", "executing",
                             "raised", "done", "crashed", "prompt"}
            /\ pc[p] = "release" => pc'[p] = "done"
            /\ pc'[p] \notin {"execute", "executing", "interpret", "raised",
                              "crashed"}
            /\ pc'[p] = "load" => next'[p] \notin {"execute", "interpret", "raised"}
<1> USE DEF StopIncident, StopAction, FinishAction, CheckpointThen, LoadThen,
            Goto, End
<1>a. /\ pc \in [Passes -> Labels] /\ next \in [Passes -> Continuations]
      /\ decision[p] \in {"none", "approve", "reject"}
  BY DEF TypeOK
<1>1. CASE Start(p) \/ Acquire(p) \/ Release(p)
  BY <1>1, <1>a DEF Start, Acquire, Release
<1>2. CASE Admit(p)
  BY <1>2, <1>a DEF Admit
<1>3. CASE Enter(p) \/ RenewBeforeObservation(p) \/ RenewBeforeIntent(p)
  BY <1>3, <1>a
     DEF Enter, RenewBeforeObservation, RenewBeforeIntent, RenewThen
<1>4. CASE Reconcile(p)
  BY <1>4, <1>a DEF Reconcile, ReconcileInflight
<1>5. CASE Step(p)
  BY <1>5, <1>a DEF Step
<1>6. CASE Observe(p)
  <2>1. Sights(index[p]) \subseteq
            {"absent", "reused", "outside_policy", "new_waiters", "actionable"}
    BY <1>6, SightsType DEF Observe
  <2>2. QED
    BY <1>6, <1>a, <2>1 DEF Observe
<1>7. CASE GateBeforeRenewal(p) \/ GateBeforeIntent(p)
  BY <1>7, <1>a DEF GateBeforeRenewal, GateBeforeIntent, Closed
<1>8. CASE Interpret(p)
  BY <1>8, <1>a DEF Interpret
<1>9. CASE Recorded(p) \/ Verify(p)
  BY <1>9, <1>a DEF Recorded, Verify
<1>10. CASE Final(p)
  BY <1>10, <1>a DEF Final
<1>11. QED
  BY <1>1, <1>2, <1>3, <1>4, <1>5, <1>6, <1>7, <1>8, <1>9, <1>10
     DEF WorkflowStep

\* What a pass may have edited when it comes to a checkpoint: only the answer to
\* a claimed intent brings a result.
LEMMA EditsOfResults ==
  ASSUME TypeOK, LoopIndexOK, NEW p \in Passes, WorkflowStep(p),
         pc'[p] = "checkpoint"
  PROVE  /\ UNCHANGED storeVars
         /\ pc[p] \in DecidingLabels
         /\ next'[p] \notin {"interpret", "raised"}
         /\ next'[p] = "execute" => view'[p].act[index'[p]] = "EXECUTING"
         /\ \/ view'[p].result = view[p].result
            \/ /\ pc[p] = "interpret" /\ view[p].act[index[p]] = "APPLYING"
               /\ \A b \in Actions \ {index[p]} :
                        view'[p].result[b] = view[p].result[b]
<1> USE DEF DecidingLabels
<1> DEFINE v == view[p]
           Keeps == view'[p].result = view[p].result
<1>a. /\ pc \in [Passes -> Labels] /\ next \in [Passes -> Continuations]
      /\ decision[p] \in {"none", "approve", "reject"}
      /\ view \in [Passes -> Incident] /\ v \in Incident
      /\ v.result \in [Actions -> Results \cup {"NONE"}]
  BY DEF TypeOK, Incident
<1>b. ASSUME NEW value, NEW label, CheckpointThen(p, value, label)
      PROVE  view'[p] = value /\ next'[p] = label
  BY <1>a, <1>b DEF CheckpointThen
<1>c. ASSUME NEW label, Goto(p, label) \/ LoadThen(p, label) \/ End(p, label),
             label # "checkpoint"
      PROVE  FALSE
  BY <1>a, <1>c DEF Goto, LoadThen, End
<1>d. ASSUME NEW state, StopIncident(p, state)
      PROVE  Keeps /\ next'[p] = "release"
  <2>1. [v EXCEPT !.state = state].result = v.result
    BY <1>a DEF Incident
  <2>2. QED
    BY <1>b, <1>d, <2>1 DEF StopIncident
<1>e. ASSUME NEW a, NEW act, StopAction(p, a, act)
      PROVE  Keeps /\ next'[p] = "release"
  <2>1. [v EXCEPT !.act[a] = act, !.state = "REVIEW_REQUIRED"].result = v.result
    BY <1>a DEF Incident
  <2>2. QED
    BY <1>b, <1>e, <2>1 DEF StopAction
<1>f. ASSUME NEW a, NEW act, FinishAction(p, a, act)
      PROVE  Keeps /\ next'[p] = "step"
  <2>1. [v EXCEPT !.act[a] = act].result = v.result
    BY <1>a DEF Incident
  <2>2. QED
    BY <1>b, <1>f, <2>1 DEF FinishAction
<1> HIDE DEF Keeps
<1>1. CASE Start(p) \/ Acquire(p) \/ Release(p) \/ Enter(p)
           \/ RenewBeforeObservation(p) \/ RenewBeforeIntent(p)
  BY <1>1, <1>c DEF Start, Acquire, Release, Enter, RenewBeforeObservation,
     RenewBeforeIntent, RenewThen
<1>2. CASE Admit(p)
  <2>1. CASE CheckpointThen(p, [v EXCEPT !.state = "RUNNING", !.approval = p],
                            "enter")
    <3>1. [v EXCEPT !.state = "RUNNING", !.approval = p].result = v.result
      BY <1>a DEF Incident
    <3>2. /\ view'[p] = [v EXCEPT !.state = "RUNNING", !.approval = p]
          /\ next'[p] = "enter"
      BY <1>a, <2>1 DEF CheckpointThen
    <3>3. Keeps /\ next'[p] \in {"enter", "release"}
      BY <3>1, <3>2 DEF Keeps
    <3>4. QED
      BY <1>2, <3>3 DEF Admit, Keeps
  <2>2. CASE StopIncident(p, "CANCELLED")
    BY <1>2, <1>d, <2>2 DEF Admit, Keeps
  <2>3. QED
    BY <1>2, <1>a, <1>c, <2>1, <2>2 DEF Admit
<1>3. CASE Reconcile(p)
  <2>1. Keeps /\ next'[p] \in {"release", "step"}
    <3>1. ASSUME NEW a \in Actions, NEW sight \in Sights(a),
                 ReconcileInflight(p, a, sight)
          PROVE  Keeps /\ next'[p] \in {"release", "step"}
      BY <1>e, <1>f, <3>1 DEF ReconcileInflight
    <3>2. QED
      BY <1>3, <1>c, <1>d, <3>1 DEF Reconcile
  <2>2. QED
    BY <1>3, <2>1 DEF Reconcile, Keeps
<1>4. CASE Step(p)
  BY <1>4, <1>c, <1>d DEF Step, Keeps
<1>5. CASE Observe(p)
  <2>1. Sights(index[p]) \subseteq
            {"absent", "reused", "outside_policy", "new_waiters", "actionable"}
    BY <1>5, SightsType DEF Observe
  <2>2. Keeps /\ next'[p] \in {"release", "step"}
    BY <1>5, <1>c, <1>d, <1>e, <1>f, <2>1 DEF Observe
  <2>3. QED
    BY <1>5, <2>2 DEF Observe, Keeps
<1>6. CASE GateBeforeRenewal(p)
  BY <1>6, <1>c, <1>d DEF GateBeforeRenewal, Closed, Keeps
<1>7. CASE GateBeforeIntent(p)
  <2>1. index[p] \in Actions
    BY <1>7 DEF GateBeforeIntent, LoopIndexOK, InLoop, LoopLabels, LoopContinuations
  <2>2. CASE CheckpointThen(p, [v EXCEPT !.act[index[p]] = "EXECUTING"], "execute")
    <3>1. /\ [v EXCEPT !.act[index[p]] = "EXECUTING"].result = v.result
          /\ [v EXCEPT !.act[index[p]] = "EXECUTING"].act[index[p]] = "EXECUTING"
      BY <1>a, <2>1 DEF Incident
    <3>2. /\ view'[p] = [v EXCEPT !.act[index[p]] = "EXECUTING"]
          /\ next'[p] = "execute" /\ index' = index
      BY <1>7, <1>a, <2>2 DEF CheckpointThen, GateBeforeIntent
    <3>3. Keeps /\ view'[p].act[index'[p]] = "EXECUTING"
      BY <3>1, <3>2 DEF Keeps
    <3>4. QED
      BY <1>7, <3>2, <3>3 DEF GateBeforeIntent, Keeps
  <2>3. CASE Closed(p)
    BY <1>7, <1>d, <2>3 DEF GateBeforeIntent, Closed, Keeps
  <2>4. QED
    BY <1>7, <2>2, <2>3 DEF GateBeforeIntent
<1>8. CASE Interpret(p)
  <2>1. CASE CheckpointThen(p, [v EXCEPT !.act[index[p]] = "PLANNED",
                                         !.state = "AWAITING_REAPPROVAL"],
                            "release")
    <3>1. [v EXCEPT !.act[index[p]] = "PLANNED",
                    !.state = "AWAITING_REAPPROVAL"].result = v.result
      BY <1>a DEF Incident
    <3>2. /\ view'[p] = [v EXCEPT !.act[index[p]] = "PLANNED",
                                   !.state = "AWAITING_REAPPROVAL"]
          /\ next'[p] = "release"
      BY <1>a, <2>1 DEF CheckpointThen
    <3>3. Keeps /\ next'[p] \in {"enter", "release"}
      BY <3>1, <3>2 DEF Keeps
    <3>4. QED
      BY <1>8, <3>3 DEF Interpret, Keeps
  <2>2. CASE StopAction(p, index[p], "IN_DOUBT")
    BY <1>8, <1>e, <2>2 DEF Interpret, Keeps
  <2>3. CASE /\ v.act[index[p]] = "APPLYING"
             /\ CheckpointThen(p, [v EXCEPT !.act[index[p]] = "RESULT_RECORDED",
                                            !.result[index[p]] = exec[p].result],
                               "recorded")
    <3>0. [v EXCEPT !.act[index[p]] = "RESULT_RECORDED",
                    !.result[index[p]] = exec[p].result].result
            = [v.result EXCEPT ![index[p]] = exec[p].result]
      BY <1>a DEF Incident
    <3>1. view'[p].result = [v.result EXCEPT ![index[p]] = exec[p].result]
      BY <1>b, <2>3, <3>0
    <3>2. \A b \in Actions \ {index[p]} : view'[p].result[b] = v.result[b]
      BY <1>a, <3>1
    <3>3. QED
      BY <1>8, <1>b, <2>3, <3>2 DEF Interpret
  <2>4. QED
    BY <1>8, <1>c, <2>1, <2>2, <2>3 DEF Interpret
<1>9. CASE Recorded(p)
  BY <1>9, <1>c, <1>e DEF Recorded, Keeps
<1>10. CASE Verify(p)
  BY <1>10, <1>e, <1>f DEF Verify, Keeps
<1>11. CASE Final(p)
  BY <1>11, <1>d DEF Final, Keeps
<1>12. CASE Checkpoint(p) \/ Load(p)
  BY <1>12, <1>a, <1>c DEF Checkpoint, Load, Continuations
<1>13. QED
  BY <1>1, <1>2, <1>3, <1>4, <1>5, <1>6, <1>7, <1>8, <1>9, <1>10, <1>11, <1>12
     DEF WorkflowStep

\* The stored incident changes at a checkpoint of its pass, and a copy that is
\* still current afterwards was so before, of the same row and owner.
LEMMA WorkflowStore ==
  ASSUME NEW p \in Passes, WorkflowStep(p)
  PROVE  /\ \/ UNCHANGED row
            \/ pc[p] = "checkpoint" /\ SaveIncident(p, view[p])
         /\ \A q \in Passes \ {p} :
                q \in fresh' => q \in fresh /\ UNCHANGED <<row, leaseOwner>>
<1> USE DEF storeVars, RenewThen, LoadIncident, AcquireLease, RenewLease,
            ReleaseLease
<1>1. CASE Start(p) \/ Acquire(p) \/ Release(p) \/ Load(p)
  BY <1>1 DEF Start, Acquire, Release, Load
<1>2. CASE Admit(p) \/ Reconcile(p) \/ Step(p) \/ Observe(p)
  BY <1>2 DEF Admit, Reconcile, Step, Observe
<1>3. CASE Enter(p) \/ RenewBeforeObservation(p) \/ RenewBeforeIntent(p)
  BY <1>3 DEF Enter, RenewBeforeObservation, RenewBeforeIntent
<1>4. CASE GateBeforeRenewal(p) \/ GateBeforeIntent(p)
  BY <1>4 DEF GateBeforeRenewal, GateBeforeIntent
<1>5. CASE Interpret(p) \/ Recorded(p) \/ Verify(p) \/ Final(p)
  BY <1>5 DEF Interpret, Recorded, Verify, Final
<1>6. CASE Checkpoint(p)
  BY <1>6 DEF Checkpoint, SaveIncident
<1>7. QED
  BY <1>1, <1>2, <1>3, <1>4, <1>5, <1>6 DEF WorkflowStep

\* The same of an executor: it touches the incident by its claim only.
LEMMA ExecutorStore ==
  ASSUME TypeOK, NEW p \in Passes, ExecutorStep(p)
  PROVE  \/ UNCHANGED storeVars
         \/ /\ fresh' = {} /\ UNCHANGED leaseOwner
            /\ claims' = [claims EXCEPT ![exec[p].act] = @ \cup {p}]
            /\ row'.result = row.result
            /\ \A b \in Actions \ {exec[p].act} : row'.act[b] = row.act[b]
<1>a. row \in Incident
  BY DEF TypeOK, StoreTypeOK
<1>1. CASE RecordIntent(p) \/ ValidateProposal(p) \/ RecheckPolicy(p)
           \/ SendTermination(p) \/ VerifyRelationship(p)
  BY <1>1 DEF RecordIntent, ValidateProposal, RecheckPolicy, SendTermination,
              VerifyRelationship
<1>2. CASE ClaimAction(p)
  <2>1. /\ [row EXCEPT !.act[exec[p].act] = "APPLYING"].result = row.result
        /\ \A b \in Actions \ {exec[p].act} :
                [row EXCEPT !.act[exec[p].act] = "APPLYING"].act[b] = row.act[b]
    BY <1>a DEF Incident
  <2>2. QED
    BY <1>2, <2>1 DEF ClaimAction, ClaimActionExecution
<1>3. QED
  BY <1>1, <1>2 DEF ExecutorStep

\* Every other step of the profile leaves the incident, its lease and its
\* current copies as they are.
LEMMA OthersStore ==
  ASSUME [IsolatedNext]_isolatedVars
  PROVE  \/ \E p \in Passes : WorkflowStep(p) \/ GrantedExecutorStep(p)
         \/ UNCHANGED <<row, leaseOwner, fresh, claims>>
<1> USE DEF storeVars, histVars, execVars, vars
<1>1. ASSUME NEW p \in Passes,
             \/ CallExecutor(p) \/ ReceiveAnswer(p) \/ GiveUp(p) \/ Serve(p)
             \/ CheckIntent(p) \/ ClaimGrant(p) \/ RecordResult(p)
             \/ DisturbPass(p) \/ Raised(p) \/ Prompt(p)
      PROVE  UNCHANGED <<row, leaseOwner, fresh, claims>>
  BY <1>1 DEF CallExecutor, ReceiveAnswer, GiveUp, Serve, CheckIntent,
     ClaimGrant, RecordResult, DisturbPass, PassCrash, PassInterrupt, Raised,
     Prompt
<1>2. CASE ReviewScope \/ IssueGrants \/ WorkerCrash
           \/ \E a \in Actions : GrantExpires(a)
  BY <1>2 DEF ReviewScope, IssueGrants, WorkerCrash, GrantExpires
<1>3. CASE Environment
  BY <1>3 DEF Environment, Clock, LeaseExpires, ApprovalExpires, DeadlinePasses
<1>4. CASE UNCHANGED isolatedVars
  BY <1>4 DEF isolatedVars
<1>5. QED
  BY <1>1, <1>2, <1>3, <1>4 DEF IsolatedNext

\* The steps of one pass leave the requests of the others alone.
LEMMA RequestKept ==
  ASSUME IsolatedTypes, NEW p \in Passes, RequestOf(p),
         [IsolatedNext]_isolatedVars,
         exec'[p].at = exec[p].at, exec'[p].act = exec[p].act,
         serving'[p] = serving[p],
         pc'[p] = pc[p], next'[p] = next[p], index'[p] = index[p],
         view'[p] = view[p],
         \A a \in Actions : p \in claims'[a] <=> p \in claims[a]
  PROVE  RequestOf(p)'
<1>1. exec[p].act \in Actions
  BY DEF IsolatedTypes, IsolatedTypeOK, TypeOK, ExecTypeOK, Execution
<1>2. AboutToCall(p) => index[p] \in Actions
  BY DEF IsolatedTypes, LoopIndexOK, InLoop, LoopLabels, LoopContinuations,
         AboutToCall
<1>3. grant[exec[p].act] = "recorded" => grant'[exec[p].act] = "recorded"
  BY <1>1, GrantsStep
<1>4. QED
  BY <1>1, <1>2, <1>3 DEF RequestOf, Away, HasAnswer, AboutToCall

\* What the steps of pass p, of its executor and of its request leave alone.
LEMMA OthersKept ==
  ASSUME IsolatedTypes, NEW p \in Passes, NEW q \in Passes \ {p},
         \/ WorkflowStep(p) \/ Prompt(p) \/ Raised(p) \/ CallExecutor(p)
         \/ ReceiveAnswer(p) \/ GiveUp(p) \/ Serve(p) \/ CheckIntent(p)
         \/ ClaimGrant(p) \/ GrantedExecutorStep(p) \/ RecordResult(p)
         \/ DisturbPass(p)
  PROVE  /\ exec'[q] = exec[q]
         /\ \A a \in Actions : q \in claims'[a] <=> q \in claims[a]
         /\ pc'[q] = pc[q] /\ next'[q] = next[q] /\ index'[q] = index[q]
         /\ view'[q] = view[q]
<1> USE DEF histVars, execVars, vars, passVars
<1>a. /\ TypeOK /\ LoopIndexOK
      /\ exec \in [Passes -> Execution] /\ claims \in [Actions -> SUBSET Passes]
      /\ pc \in [Passes -> Labels] /\ next \in [Passes -> Continuations]
      /\ view \in [Passes -> Incident] /\ index \in [Passes -> 0..N]
      /\ exec[p].act \in Actions
  BY DEF IsolatedTypes, IsolatedTypeOK, TypeOK, ExecTypeOK, Execution
<1>1. CASE WorkflowStep(p)
  BY <1>1, <1>a, WorkflowFrame, PassStepLocal DEF OthersStill
<1>2. CASE Prompt(p)
  BY <1>2, <1>a, PassStepLocal DEF OthersStill, Prompt
<1>3. CASE Raised(p)
  BY <1>3, <1>a, RaisedFrame DEF OthersStill
<1>4. CASE CallExecutor(p)
  BY <1>4, <1>a, CallFrame DEF IsolatedTypes
<1>5. CASE ReceiveAnswer(p) \/ GiveUp(p)
  BY <1>5, <1>a DEF ReceiveAnswer, GiveUp, LoadThen
<1>6. CASE Serve(p) \/ RecordResult(p)
  BY <1>6 DEF Serve, RecordResult
<1>7. CASE CheckIntent(p) \/ ClaimGrant(p)
  <2>1. UNCHANGED <<histVars, passVars>>
    BY <1>7 DEF CheckIntent, ClaimGrant
  <2>2. exec'[q] = exec[q]
    BY <1>7, <1>a DEF CheckIntent, ClaimGrant, Deny, Return, Advance
  <2>3. QED
    BY <2>1, <2>2
<1>8. CASE GrantedExecutorStep(p)
  <2>1. ExecutorStep(p) /\ UNCHANGED passVars
    BY <1>8 DEF GrantedExecutorStep
  <2>2. \A a \in Actions : q \in claims'[a] <=> q \in claims[a]
    BY <1>a, <2>1, ExecutorClaims
  <2>3. QED
    BY <1>a, <2>1, <2>2, ExecutorClaims
<1>9. CASE DisturbPass(p)
  BY <1>9, <1>a DEF DisturbPass, PassCrash, PassInterrupt, End, Goto
<1>10. QED
  BY <1>1, <1>2, <1>3, <1>4, <1>5, <1>6, <1>7, <1>8, <1>9

\* So do the operator, the clock and the sessions with every request.
LEMMA BackgroundKeeps ==
  ASSUME \/ ReviewScope \/ IssueGrants \/ (\E a \in Actions : GrantExpires(a))
         \/ Environment /\ UNCHANGED <<grantVars, serving>>
         \/ UNCHANGED isolatedVars
  PROVE  UNCHANGED <<exec, claims, serving, passVars>>
<1> USE DEF vars, execVars, histVars
<1>1. CASE Environment /\ UNCHANGED <<grantVars, serving>>
  BY <1>1 DEF Environment
<1>2. CASE ReviewScope \/ IssueGrants \/ (\E a \in Actions : GrantExpires(a))
  BY <1>2 DEF ReviewScope, IssueGrants, GrantExpires
<1>3. CASE UNCHANGED isolatedVars
  BY <1>3 DEF isolatedVars
<1>4. QED
  BY <1>1, <1>2, <1>3

\* A pass saves its intent of an action that nobody claimed.
LEMMA IntentUnclaimed ==
  ASSUME AuthorityInv, NEW p \in Passes, NEW a \in Actions,
         SaveIncident(p, view[p]), view[p].act[a] = "EXECUTING"
  PROVE  claims[a] = {} /\ row'.act[a] = "EXECUTING"
<1>1. "EXECUTING" \in ActionTransitions(row.act[a]) /\ row'.act[a] = "EXECUTING"
  BY DEF SaveIncident, CanSave
<1>2. row.act[a] \notin DescendedStates
  BY <1>1, DescendedClosed DEF DescendedStates
<1>3. QED
  BY <1>1, <1>2 DEF AuthorityInv

\* A workflow step and the request of its pass.
LEMMA RequestWorkflow ==
  ASSUME IsolatedTypes, AuthorityInv, NEW p \in Passes, RequestOf(p),
         WorkflowStep(p), UNCHANGED <<grantVars, serving>>
  PROVE  RequestOf(p)'
<1>a. /\ TypeOK /\ LoopIndexOK
      /\ pc \in [Passes -> Labels] /\ next \in [Passes -> Continuations]
  BY DEF IsolatedTypes, IsolatedTypeOK, TypeOK
<1>b. UNCHANGED <<exec, claims, serving, grant>>
  BY WorkflowFrame DEF grantVars
<1>1. CASE Load(p)
  <2>1. /\ pc[p] = "load" /\ pc'[p] = next[p] /\ next' = next /\ index' = index
    BY <1>1, <1>a DEF Load, Goto
  <2>2. next[p] \in Continuations
    BY <1>a
  <2>3. QED
    BY <1>b, <2>1, <2>2
       DEF RequestOf, Away, HasAnswer, AboutToCall, Continuations
<1>2. CASE Checkpoint(p)
  <2>1. pc[p] = "checkpoint" /\ UNCHANGED <<view, index>>
    BY <1>2 DEF Checkpoint
  <2>2. CASE pc'[p] = "release"
    BY <1>b, <2>2 DEF RequestOf, Away, HasAnswer, AboutToCall
  <2>3. CASE /\ SaveIncident(p, view[p]) /\ next[p] # "release"
             /\ pc'[p] = "load" /\ next'[p] = next[p]
    <3>1. next[p] = "execute" => p \notin claims[index[p]]
      <4>1. ASSUME next[p] = "execute"
            PROVE  p \notin claims[index[p]]
        <5>1. index[p] \in Actions
          BY <1>a, <2>1, <4>1 DEF LoopIndexOK, InLoop, LoopContinuations
        <5>2. view[p].act[index[p]] = "EXECUTING"
          BY <2>1, <4>1 DEF RequestOf
        <5>3. QED
          BY <2>3, <5>1, <5>2, IntentUnclaimed
      <4>2. QED
        BY <4>1
    <3>2. QED
      BY <1>b, <2>1, <2>3, <3>1 DEF RequestOf, Away, HasAnswer, AboutToCall
  <2>4. QED
    BY <1>2, <1>a, <2>2, <2>3 DEF Checkpoint, LoadThen, Goto
<1>3. CASE /\ pc[p] \notin {"load", "checkpoint", "execute", "executing",
                            "raised", "done", "crashed", "prompt"}
           /\ pc[p] = "release" => pc'[p] = "done"
           /\ pc'[p] \notin {"execute", "executing", "interpret", "raised",
                             "crashed"}
           /\ pc'[p] = "load" => next'[p] \notin {"execute", "interpret", "raised"}
  <2>1. Away(p) => Away(p)'
    BY <1>3 DEF Away
  <2>2. ~HasAnswer(p)' /\ ~AboutToCall(p)' /\ pc'[p] # "executing"
    BY <1>3 DEF HasAnswer, AboutToCall
  <2>3. pc'[p] = "checkpoint" =>
            /\ next'[p] \notin {"interpret", "raised"}
            /\ next'[p] = "execute" => view'[p].act[index'[p]] = "EXECUTING"
    BY <1>a, EditsOfResults
  <2>4. QED
    BY <1>b, <2>1, <2>2, <2>3 DEF RequestOf
<1>4. QED
  BY <1>a, <1>1, <1>2, <1>3, LocalMoves

\* The steps of the client and the worker, and the request they are about.
LEMMA RequestRemote ==
  ASSUME IsolatedTypes, NEW p \in Passes, RequestOf(p),
         \/ Prompt(p) /\ UNCHANGED <<grantVars, serving>>
         \/ Raised(p) /\ UNCHANGED <<grantVars, serving>>
         \/ CallExecutor(p) \/ ReceiveAnswer(p) \/ GiveUp(p) \/ Serve(p)
         \/ CheckIntent(p) \/ ClaimGrant(p) \/ GrantedExecutorStep(p)
         \/ RecordResult(p) \/ DisturbPass(p)
  PROVE  RequestOf(p)'
<1> USE DEF grantVars, execVars, histVars, passVars, vars, BeingServed
<1>a. /\ TypeOK /\ LoopIndexOK
      /\ pc \in [Passes -> Labels] /\ next \in [Passes -> Continuations]
      /\ exec \in [Passes -> Execution] /\ exec[p] \in Execution
      /\ exec[p].act \in Actions /\ DOMAIN serving = Passes
      /\ DOMAIN grant = Actions
  BY DEF IsolatedTypes, IsolatedTypeOK, TypeOK, ExecTypeOK, Execution
<1>1. CASE Prompt(p) /\ UNCHANGED <<grantVars, serving>>
  BY <1>1, <1>a DEF Prompt, Goto, RequestOf, Away, HasAnswer, AboutToCall
<1>2. CASE Raised(p) /\ UNCHANGED <<grantVars, serving>>
  BY <1>2, <1>a, RaisedFrame DEF RequestOf, Away, HasAnswer, AboutToCall
<1>3. CASE CallExecutor(p)
  <2>1. AboutToCall(p) /\ UNCHANGED <<grant, claims, index>>
    BY <1>3, CallFrame DEF CallExecutor, AboutToCall, IsolatedTypes
  <2>2. CASE /\ serving' = [serving EXCEPT ![p] = "queued"]
             /\ exec'[p].at = "idle" /\ exec'[p].act = index[p]
             /\ pc'[p] = "executing"
    BY <1>a, <2>1, <2>2 DEF RequestOf, Away, HasAnswer, AboutToCall
  <2>3. CASE UNCHANGED <<serving, exec>> /\ pc'[p] = "load" /\ next'[p] = "raised"
    BY <1>a, <2>1, <2>3 DEF RequestOf, Away, HasAnswer, AboutToCall
  <2>4. QED
    BY <1>3, <2>2, <2>3, CallFrame DEF IsolatedTypes
<1>4. CASE ReceiveAnswer(p)
  <2>1. pc'[p] = "load" /\ next'[p] = "interpret"
    BY <1>4, <1>a DEF ReceiveAnswer, LoadThen
  <2>2. QED
    BY <1>4, <2>1 DEF ReceiveAnswer, RequestOf, Away, HasAnswer, AboutToCall
<1>5. CASE GiveUp(p)
  <2>1. pc'[p] = "load" /\ next'[p] = "raised"
    BY <1>5, <1>a DEF GiveUp, LoadThen
  <2>2. QED
    BY <1>5, <2>1 DEF GiveUp, RequestOf, Away, HasAnswer, AboutToCall
<1>6. CASE Serve(p)
  BY <1>6, <1>a DEF Serve, RequestOf, Away, HasAnswer, AboutToCall
<1>7. CASE CheckIntent(p) \/ ClaimGrant(p)
  <2>1. /\ UNCHANGED <<claims, pc, next, index, view>>
        /\ serving[p] \in {"gate", "grant"}
    BY <1>7 DEF CheckIntent, ClaimGrant
  <2>2. /\ exec'[p].act = exec[p].act
        /\ \/ serving'[p] = "grant" /\ exec'[p].at = exec[p].at
           \/ serving'[p] = "executing"
           \/ serving'[p] \in {"answered", "lost"} /\ exec'[p].at = "returned"
    <3>1. ASSUME Deny(p)
          PROVE  /\ exec'[p].act = exec[p].act /\ exec'[p].at = "returned"
                 /\ serving'[p] \in {"answered", "lost"}
      <4>1. exec'[p].act = exec[p].act /\ exec'[p].at = "returned"
        BY <3>1, <1>a DEF Deny, Return, Execution
      <4>2. QED
        BY <3>1, <4>1, <1>a DEF Deny
    <3>2. ASSUME exec' = [exec EXCEPT ![p] = [@ EXCEPT !.approval = row.approval]]
          PROVE  exec'[p].act = exec[p].act /\ exec'[p].at = exec[p].at
      BY <3>2, <1>a DEF Execution
    <3>3. ASSUME Advance(p, "intent")
          PROVE  exec'[p].act = exec[p].act
      BY <3>3, <1>a DEF Advance, Execution
    <3>4. QED
      BY <1>7, <1>a, <3>1, <3>2, <3>3 DEF CheckIntent, ClaimGrant
  <2>3. p \notin claims[exec[p].act] /\ exec[p].at = "idle"
    BY <2>1 DEF RequestOf
  <2>4. Away(p) /\ ~HasAnswer(p) /\ ~AboutToCall(p)
    BY <2>1 DEF RequestOf, AboutToCall, Away
  <2>5. QED
    BY <2>1, <2>2, <2>3, <2>4 DEF RequestOf, Away, HasAnswer, AboutToCall
<1>8. CASE GrantedExecutorStep(p)
  <2>1. /\ exec[p].at \in UnderGrant /\ exec'[p].act = exec[p].act
        /\ UNCHANGED <<pc, next, index, view, grant, serving>>
    BY <1>8, <1>a, ExecutorClaims DEF GrantedExecutorStep
  <2>2. serving[p] \notin {"none", "queued", "gate", "grant", "answered"}
    BY <2>1 DEF RequestOf, UnderGrant
  <2>3. QED
    BY <2>1, <2>2 DEF RequestOf, Away, HasAnswer, AboutToCall
<1>9. CASE RecordResult(p)
  <2>1. /\ UNCHANGED <<exec, claims, pc, next, index, view>>
        /\ serving[p] = "executing" /\ exec[p].at = "returned"
    BY <1>9 DEF RecordResult
  <2>2. \/ serving'[p] = "lost"
        \/ serving'[p] = "answered" /\ grant'[exec[p].act] = "recorded"
    BY <1>9, <1>a DEF RecordResult
  <2>3. QED
    BY <2>1, <2>2 DEF RequestOf, Away, HasAnswer, AboutToCall
<1>10. CASE DisturbPass(p)
  <2>1. /\ pc'[p] \in {"done", "crashed", "release"}
        /\ UNCHANGED <<exec, claims, grant, serving>>
    BY <1>10, <1>a DEF DisturbPass, PassCrash, PassInterrupt, End, Goto
  <2>2. QED
    BY <2>1 DEF RequestOf, Away, HasAnswer, AboutToCall
<1>11. QED
  BY <1>1, <1>2, <1>3, <1>4, <1>5, <1>6, <1>7, <1>8, <1>9, <1>10

\* The serving of the other requests, in the same steps.
LEMMA OthersServed ==
  ASSUME IsolatedTypes, NEW p \in Passes, NEW q \in Passes \ {p},
         \/ CallExecutor(p) \/ ReceiveAnswer(p) \/ GiveUp(p) \/ Serve(p)
         \/ CheckIntent(p) \/ ClaimGrant(p) \/ GrantedExecutorStep(p)
         \/ RecordResult(p) \/ DisturbPass(p)
  PROVE  serving'[q] = serving[q]
<1>a. DOMAIN serving = Passes
  BY DEF IsolatedTypes, IsolatedTypeOK
<1>1. CASE CallExecutor(p)
  BY <1>1, CallFrame DEF IsolatedTypes
<1>2. CASE Serve(p) \/ RecordResult(p)
  BY <1>2, <1>a DEF Serve, RecordResult
<1>3. CASE CheckIntent(p) \/ ClaimGrant(p)
  BY <1>3, <1>a DEF CheckIntent, ClaimGrant, Deny
<1>4. CASE ReceiveAnswer(p) \/ GiveUp(p) \/ GrantedExecutorStep(p) \/ DisturbPass(p)
  BY <1>4 DEF ReceiveAnswer, GiveUp, GrantedExecutorStep, DisturbPass
<1>5. QED
  BY <1>1, <1>2, <1>3, <1>4

\* Every request stays as it should be in every step.
LEMMA RequestStep ==
  ASSUME IsolatedTypes, AuthorityInv, RequestInv, [IsolatedNext]_isolatedVars
  PROVE  RequestInv'
<1>a. \A q \in Passes : RequestOf(q)
  BY DEF RequestInv
<1>1. ASSUME NEW p \in Passes, WorkflowStep(p), UNCHANGED <<grantVars, serving>>
      PROVE  RequestInv'
  <2>1. RequestOf(p)'
    BY <1>1, <1>a, RequestWorkflow
  <2>2. ASSUME NEW q \in Passes \ {p}
        PROVE  RequestOf(q)'
    BY <1>1, <1>a, OthersKept, RequestKept
  <2>3. QED
    BY <2>1, <2>2 DEF RequestInv
<1>2. ASSUME NEW p \in Passes,
             \/ Prompt(p) /\ UNCHANGED <<grantVars, serving>>
             \/ Raised(p) /\ UNCHANGED <<grantVars, serving>>
             \/ CallExecutor(p) \/ ReceiveAnswer(p) \/ GiveUp(p) \/ Serve(p)
             \/ CheckIntent(p) \/ ClaimGrant(p) \/ GrantedExecutorStep(p)
             \/ RecordResult(p) \/ DisturbPass(p)
      PROVE  RequestInv'
  <2>1. RequestOf(p)'
    BY <1>2, <1>a, RequestRemote
  <2>2. ASSUME NEW q \in Passes \ {p}
        PROVE  RequestOf(q)'
    <3>1. serving'[q] = serving[q]
      BY <1>2, OthersServed
    <3>2. QED
      BY <1>2, <1>a, <3>1, OthersKept, RequestKept
  <2>3. QED
    BY <2>1, <2>2 DEF RequestInv
<1>3. CASE \/ ReviewScope \/ IssueGrants \/ (\E a \in Actions : GrantExpires(a))
           \/ Environment /\ UNCHANGED <<grantVars, serving>>
           \/ UNCHANGED isolatedVars
  <2>1. UNCHANGED <<exec, claims, serving, passVars>>
    BY <1>3, BackgroundKeeps
  <2>2. ASSUME NEW q \in Passes
        PROVE  RequestOf(q)'
    BY <1>a, <2>1, RequestKept DEF passVars
  <2>3. QED
    BY <2>2 DEF RequestInv
<1>4. CASE WorkerCrash
  <2>1. UNCHANGED <<claims, grant, pc, next, index, view>>
    BY <1>4 DEF WorkerCrash, histVars, passVars, grantVars
  <2>2. ASSUME NEW q \in Passes
        PROVE  RequestOf(q)'
    <3>1. \/ serving'[q] = "lost"
          \/ /\ serving'[q] = serving[q] /\ exec'[q] = exec[q]
             /\ serving[q] \notin BeingServed
      BY <1>4 DEF WorkerCrash, IsolatedTypes, IsolatedTypeOK
    <3>2. ~Away(q) \/ HasAnswer(q) => serving'[q] = serving[q]
      BY <1>4, <1>a DEF WorkerCrash, RequestOf, BeingServed
    <3>3. CASE serving'[q] = "lost" /\ serving[q] # "lost"
      <4>1. Away(q) /\ ~HasAnswer(q) /\ ~AboutToCall(q)
        BY <3>2, <3>3 DEF AboutToCall, Away
      <4>2. QED
        BY <1>a, <2>1, <3>3, <4>1 DEF RequestOf, Away, HasAnswer, AboutToCall
    <3>4. CASE serving'[q] = "lost" /\ serving[q] = "lost"
      BY <1>a, <2>1, <3>4 DEF RequestOf, Away, HasAnswer, AboutToCall
    <3>5. CASE serving'[q] = serving[q] /\ exec'[q] = exec[q]
      BY <1>a, <2>1, <3>5 DEF RequestOf, Away, HasAnswer, AboutToCall
    <3>6. QED
      BY <3>1, <3>3, <3>4, <3>5
  <2>3. QED
    BY <2>2 DEF RequestInv
<1>5. QED
  BY <1>1, <1>2, <1>3, <1>4 DEF IsolatedNext

\* While the owner of the lease carries out its intent, no step of another makes
\* its action a claimed one.
LEMMA IntentStep ==
  ASSUME IsolatedTypes, AuthorityInv, RequestInv, IntentInv,
         [IsolatedNext]_isolatedVars
  PROVE  IntentInv'
<1>a. /\ TypeOK /\ LoopIndexOK
      /\ pc \in [Passes -> Labels] /\ next \in [Passes -> Continuations]
      /\ claims \in [Actions -> SUBSET Passes]
      /\ \A q \in Passes : exec[q].act \in Actions
  BY DEF IsolatedTypes, IsolatedTypeOK, TypeOK, ExecTypeOK, Execution
<1>b. \A q \in Passes : IntentOf(q) /\ RequestOf(q)
  BY DEF IntentInv, RequestInv
<1>c. ASSUME NEW q \in Passes, Intends(q)
      PROVE  index[q] \in Actions
  BY <1>a, <1>c DEF LoopIndexOK, InLoop, LoopLabels, LoopContinuations, Intends,
                    AboutToCall, HasAnswer
<1>d. ASSUME NEW q \in Passes, Intends(q)' => Intends(q),
             leaseOwner' = q => leaseOwner = q /\ row' = row,
             index'[q] = index[q],
             \A a \in Actions : q \in claims'[a] <=> q \in claims[a]
      PROVE  IntentOf(q)'
  BY <1>b, <1>c, <1>d DEF IntentOf
<1>e. ASSUME NEW q \in Passes, UNCHANGED <<row, leaseOwner, claims>>,
             Intends(q)' => Intends(q) /\ index'[q] = index[q]
      PROVE  IntentOf(q)'
  BY <1>b, <1>c, <1>e DEF IntentOf
<1>1. ASSUME NEW p \in Passes, WorkflowStep(p)
      PROVE  IntentInv'
  <2>1. ASSUME NEW q \in Passes \ {p}
        PROVE  IntentOf(q)'
    <3>1. leaseOwner' = q => leaseOwner = q /\ row' = row
      BY <1>1, <1>a, WorkflowFrame, OwnerUndisturbed
    <3>2. /\ Intends(q)' => Intends(q)
          /\ index'[q] = index[q]
          /\ \A a \in Actions : q \in claims'[a] <=> q \in claims[a]
      BY <1>1, OthersKept DEF Intends, AboutToCall, HasAnswer
    <3>3. QED
      BY <1>d, <3>1, <3>2
  <2>2. IntentOf(p)'
    <3>1. UNCHANGED claims
      BY <1>1, WorkflowFrame
    <3>2. CASE Load(p)
      <4>1. /\ UNCHANGED <<row, leaseOwner, index>> /\ pc[p] = "load"
            /\ pc'[p] = next[p]
        BY <1>a, <3>2 DEF Load, LoadIncident, Goto
      <4>2. Intends(p)' => Intends(p)
        BY <1>a, <4>1 DEF Intends, AboutToCall, HasAnswer, Continuations
      <4>3. QED
        BY <1>e, <3>1, <4>1, <4>2
    <3>3. CASE Checkpoint(p)
      <4>1. /\ pc[p] = "checkpoint" /\ UNCHANGED index
            /\ \/ pc'[p] = "release"
               \/ /\ SaveIncident(p, view[p]) /\ pc'[p] = "load"
                  /\ next'[p] = next[p]
        BY <1>a, <3>3 DEF Checkpoint, LoadThen, Goto
      <4>2. ASSUME Intends(p)'
            PROVE  row'.act[index[p]] = "EXECUTING"
        <5>1. SaveIncident(p, view[p]) /\ next[p] = "execute"
          BY <1>b, <4>1, <4>2 DEF Intends, AboutToCall, HasAnswer, RequestOf
        <5>2. index[p] \in Actions
          BY <1>a, <4>1, <5>1 DEF LoopIndexOK, InLoop, LoopContinuations
        <5>3. view[p].act[index[p]] = "EXECUTING"
          BY <1>b, <4>1, <5>1 DEF RequestOf
        <5>4. QED
          BY <5>1, <5>2, <5>3, IntentUnclaimed
      <4>3. QED
        BY <4>1, <4>2 DEF IntentOf
    <3>4. CASE /\ pc'[p] \notin {"execute", "executing", "interpret"}
               /\ pc'[p] = "load" => next'[p] \notin {"execute", "interpret"}
      BY <3>4 DEF IntentOf, Intends, AboutToCall, HasAnswer
    <3>5. QED
      BY <1>1, <1>a, <3>2, <3>3, <3>4, LocalMoves
  <2>3. QED
    BY <2>1, <2>2 DEF IntentInv
<1>2. ASSUME NEW p \in Passes, GrantedExecutorStep(p)
      PROVE  IntentInv'
  <2>1. ExecutorStep(p) /\ UNCHANGED passVars
    BY <1>2 DEF GrantedExecutorStep
  <2>2. \A q \in Passes : /\ Intends(q)' => Intends(q)
                          /\ index'[q] = index[q]
    BY <2>1 DEF passVars, Intends, AboutToCall, HasAnswer
  <2>3. ASSUME NEW q \in Passes \ {p}
        PROVE  IntentOf(q)'
    <3>1. leaseOwner' = q => leaseOwner = q /\ row' = row
      BY <1>a, <2>1, OwnerUndisturbed
    <3>2. \A a \in Actions : q \in claims'[a] <=> q \in claims[a]
      BY <1>2, OthersKept
    <3>3. QED
      BY <1>d, <2>2, <3>1, <3>2
  <2>4. IntentOf(p)'
    <3>1. CASE UNCHANGED storeVars
      <4>1. \A a \in Actions : p \in claims[a] => p \in claims'[a]
        BY <1>a, <2>1, ExecutorClaims
      <4>2. QED
        BY <1>b, <1>c, <2>2, <3>1, <4>1 DEF IntentOf, storeVars
    <3>2. CASE /\ UNCHANGED leaseOwner
               /\ claims' = [claims EXCEPT ![exec[p].act] = @ \cup {p}]
               /\ \A b \in Actions \ {exec[p].act} : row'.act[b] = row.act[b]
      <4>1. /\ p \in claims'[exec[p].act]
            /\ \A b \in Actions : p \in claims[b] => p \in claims'[b]
        BY <1>a, <3>2
      <4>2. QED
        BY <1>b, <1>c, <2>2, <3>2, <4>1 DEF IntentOf
    <3>3. QED
      BY <1>a, <2>1, <3>1, <3>2, ExecutorStore
  <2>5. QED
    BY <2>3, <2>4 DEF IntentInv
<1>3. ASSUME UNCHANGED <<row, leaseOwner, claims>>
      PROVE  IntentInv'
  <2>1. ASSUME NEW p \in Passes, NEW q \in Passes,
               \/ Prompt(p) \/ Raised(p) \/ CallExecutor(p)
               \/ ReceiveAnswer(p) \/ GiveUp(p) \/ Serve(p) \/ CheckIntent(p)
               \/ ClaimGrant(p) \/ RecordResult(p) \/ DisturbPass(p)
        PROVE  Intends(q)' => Intends(q) /\ index'[q] = index[q]
    <3>1. CASE q # p
      BY <2>1, <3>1, OthersKept DEF Intends, AboutToCall, HasAnswer
    <3>2. CASE q = p
      <4> USE DEF Intends, AboutToCall, HasAnswer
      <4>1. CASE Prompt(p) \/ Raised(p) \/ GiveUp(p) \/ DisturbPass(p)
        <5>1. \/ pc'[p] \in {"acquire", "release", "done", "crashed", "checkpoint"}
              \/ pc'[p] = "load" /\ next'[p] = "raised"
          BY <1>a, <4>1, RaisedFrame
             DEF Prompt, GiveUp, DisturbPass, PassCrash, PassInterrupt, End, Goto,
                 LoadThen
        <5>2. QED
          BY <3>2, <5>1
      <4>2. CASE CallExecutor(p) \/ ReceiveAnswer(p)
        BY <3>2, <4>2 DEF CallExecutor, ReceiveAnswer
      <4>3. CASE Serve(p) \/ CheckIntent(p) \/ ClaimGrant(p) \/ RecordResult(p)
        BY <3>2, <4>3
           DEF Serve, CheckIntent, ClaimGrant, RecordResult, vars, passVars
      <4>4. QED
        BY <2>1, <4>1, <4>2, <4>3
    <3>3. QED
      BY <3>1, <3>2
  <2>2. ASSUME \/ ReviewScope \/ IssueGrants \/ WorkerCrash
               \/ (\E a \in Actions : GrantExpires(a))
               \/ Environment /\ UNCHANGED <<grantVars, serving>>
               \/ UNCHANGED isolatedVars,
               NEW q \in Passes
        PROVE  Intends(q)' => Intends(q) /\ index'[q] = index[q]
    <3>1. UNCHANGED passVars
      BY <2>2, BackgroundKeeps DEF WorkerCrash
    <3>2. QED
      BY <3>1 DEF passVars, Intends, AboutToCall, HasAnswer
  <2>3. QED
    BY <1>1, <1>2, <1>3, <1>e, <2>1, <2>2 DEF IsolatedNext, IntentInv
<1>4. QED
  BY <1>1, <1>2, <1>3, OthersStore

\* A copy the pass has just edited, of a current row, brings no result that was
\* not recorded: a claimed intent of the owner is its own, and its answer came
\* after its record.
LEMMA EditedResults ==
  ASSUME IsolatedTypes, NEW p \in Passes, RequestOf(p), IntentOf(p), CopyOf(p),
         OutcomesAgree, WorkflowStep(p), pc'[p] = "checkpoint",
         p \in fresh', leaseOwner' = p
  PROVE  \A a \in Actions : view'[p].result[a] # "NONE" => grant[a] = "recorded"
<1>a. TypeOK /\ LoopIndexOK
  BY DEF IsolatedTypes, IsolatedTypeOK
<1>1. /\ UNCHANGED storeVars /\ pc[p] \in DecidingLabels
      /\ \/ view'[p].result = view[p].result
         \/ /\ pc[p] = "interpret" /\ view[p].act[index[p]] = "APPLYING"
            /\ \A b \in Actions \ {index[p]} :
                    view'[p].result[b] = view[p].result[b]
  BY <1>a, EditsOfResults
<1>2. p \in fresh /\ leaseOwner = p /\ view[p] = row
  BY <1>1 DEF storeVars, CopyOf
<1>3. \A a \in Actions : view[p].result[a] # "NONE" => grant[a] = "recorded"
  BY <1>2 DEF OutcomesAgree
<1>4. ASSUME pc[p] = "interpret", view[p].act[index[p]] = "APPLYING"
      PROVE  grant[index[p]] = "recorded"
  <2>1. HasAnswer(p) /\ Intends(p)
    BY <1>4 DEF HasAnswer, Intends
  <2>2. p \in claims[index[p]]
    BY <1>2, <1>4, <2>1 DEF IntentOf
  <2>3. QED
    BY <2>1, <2>2 DEF RequestOf
<1>5. QED
  BY <1>1, <1>3, <1>4

\* Every copy stays as it should be in every step.
LEMMA CopyStep ==
  ASSUME IsolatedTypes, RequestInv, IntentInv, CopyInv, OutcomesAgree,
         [IsolatedNext]_isolatedVars
  PROVE  CopyInv'
<1>a. /\ TypeOK /\ LoopIndexOK
      /\ pc \in [Passes -> Labels] /\ next \in [Passes -> Continuations]
      /\ view \in [Passes -> Incident] /\ fresh \subseteq Passes
  BY DEF IsolatedTypes, IsolatedTypeOK, TypeOK, StoreTypeOK
<1>b. \A q \in Passes : IntentOf(q) /\ RequestOf(q) /\ CopyOf(q)
  BY DEF IntentInv, RequestInv, CopyInv
<1>c. \A a \in Actions : grant[a] = "recorded" => grant'[a] = "recorded"
  BY GrantsStep
<1>d. ASSUME NEW q \in Passes,
             q \in fresh' => q \in fresh /\ UNCHANGED <<row, leaseOwner>>,
             pc'[q] = pc[q], view'[q] = view[q]
      PROVE  CopyOf(q)'
  <2>1. RecordedResults(view[q]) => RecordedResults(view[q])'
    BY <1>c, <1>d DEF RecordedResults
  <2>2. QED
    BY <1>b, <1>d, <2>1 DEF CopyOf
<1>e. ASSUME NEW q \in Passes, pc'[q] \notin DecidingLabels \cup {"raised", "checkpoint"}
      PROVE  CopyOf(q)'
  BY <1>e DEF CopyOf
<1>1. ASSUME NEW p \in Passes, WorkflowStep(p)
      PROVE  CopyInv'
  <2>1. ASSUME NEW q \in Passes \ {p}
        PROVE  CopyOf(q)'
    <3>1. q \in fresh' => q \in fresh /\ UNCHANGED <<row, leaseOwner>>
      BY <1>1, WorkflowStore
    <3>2. pc'[q] = pc[q] /\ view'[q] = view[q]
      BY <1>1, OthersKept
    <3>3. QED
      BY <1>d, <3>1, <3>2
  <2>2. CopyOf(p)'
    <3>1. pc'[p] \in DecidingLabels \cup {"raised"} /\ p \in fresh' =>
                view'[p] = row'
      <4>1. CASE Load(p)
        BY <1>a, <4>1 DEF Load, LoadIncident
      <4>2. CASE pc'[p] \in DecidingLabels /\ ~Load(p)
        <5>1. pc[p] \in DecidingLabels /\ UNCHANGED <<storeVars, view>>
          BY <1>1, <1>a, <4>2, WorkflowFrame, ComesToDecide
        <5>2. QED
          BY <1>b, <5>1 DEF CopyOf, storeVars
      <4>3. CASE pc'[p] = "raised" /\ ~Load(p)
        <5>1. Checkpoint(p)
          BY <1>1, <1>a, <4>3, LocalMoves
        <5>2. pc'[p] \in {"release", "load"}
          BY <1>a, <5>1 DEF Checkpoint, LoadThen, Goto
        <5>3. QED
          BY <4>3, <5>2
      <4>4. QED
        BY <4>1, <4>2, <4>3
    <3>2. pc'[p] = "checkpoint" /\ p \in fresh' /\ leaseOwner' = p =>
                RecordedResults(view[p])'
      BY <1>1, <1>b, <1>c, EditedResults DEF RecordedResults
    <3>3. QED
      BY <3>1, <3>2 DEF CopyOf
  <2>3. QED
    BY <2>1, <2>2 DEF CopyInv
<1>2. ASSUME NEW p \in Passes, GrantedExecutorStep(p)
      PROVE  CopyInv'
  <2>1. ExecutorStep(p) /\ UNCHANGED passVars
    BY <1>2 DEF GrantedExecutorStep
  <2>2. UNCHANGED storeVars \/ fresh' = {}
    BY <1>a, <2>1, ExecutorStore
  <2>3. QED
    BY <1>d, <2>1, <2>2 DEF passVars, storeVars, CopyInv
<1>3. ASSUME NEW p \in Passes, Raised(p), UNCHANGED <<grantVars, serving>>
      PROVE  CopyInv'
  <2>1. UNCHANGED storeVars /\ pc[p] = "raised"
    BY <1>3 DEF Raised
  <2>2. ASSUME NEW q \in Passes \ {p}
        PROVE  CopyOf(q)'
    BY <1>3, <1>d, <2>1, OthersKept DEF storeVars
  <2>3. CopyOf(p)'
    <3>1. CASE pc'[p] = "release"
      BY <1>e, <3>1 DEF DecidingLabels
    <3>2. CASE pc'[p] = "checkpoint" /\ view'[p].result = view[p].result
      <4>1. p \in fresh' => view[p] = row
        BY <1>b, <2>1 DEF CopyOf, storeVars
      <4>2. p \in fresh' => RecordedResults(view[p])'
        BY <1>c, <3>2, <4>1 DEF RecordedResults, OutcomesAgree
      <4>3. QED
        BY <3>2, <4>2 DEF CopyOf, DecidingLabels
    <3>3. QED
      BY <1>3, <1>a, <3>1, <3>2, RaisedFrame
  <2>4. QED
    BY <2>2, <2>3 DEF CopyInv
<1>4. ASSUME NEW p \in Passes, UNCHANGED <<row, leaseOwner, fresh>>,
             \/ Prompt(p) \/ CallExecutor(p) \/ ReceiveAnswer(p) \/ GiveUp(p)
             \/ Serve(p) \/ CheckIntent(p) \/ ClaimGrant(p) \/ RecordResult(p)
             \/ DisturbPass(p)
      PROVE  CopyInv'
  <2>1. ASSUME NEW q \in Passes \ {p}
        PROVE  CopyOf(q)'
    BY <1>4, <1>d, OthersKept
  <2>2. CopyOf(p)'
    <3>1. CASE Prompt(p) \/ CallExecutor(p) \/ ReceiveAnswer(p) \/ GiveUp(p)
               \/ DisturbPass(p)
      <4>1. pc'[p] \in {"acquire", "executing", "load", "done", "crashed", "release"}
        BY <1>a, <3>1
           DEF Prompt, CallExecutor, ReceiveAnswer, GiveUp, DisturbPass,
               PassCrash, PassInterrupt, End, Goto, LoadThen
      <4>2. QED
        BY <1>e, <4>1 DEF DecidingLabels
    <3>2. CASE Serve(p) \/ CheckIntent(p) \/ ClaimGrant(p) \/ RecordResult(p)
      <4>1. UNCHANGED passVars
        BY <3>2 DEF Serve, CheckIntent, ClaimGrant, RecordResult, vars
      <4>2. QED
        BY <1>4, <1>d, <4>1 DEF passVars
    <3>3. QED
      BY <1>4, <3>1, <3>2
  <2>3. QED
    BY <2>1, <2>2 DEF CopyInv
<1>5. CASE /\ UNCHANGED <<row, leaseOwner, fresh>>
           /\ \/ ReviewScope \/ IssueGrants \/ WorkerCrash
              \/ (\E a \in Actions : GrantExpires(a))
              \/ Environment /\ UNCHANGED <<grantVars, serving>>
              \/ UNCHANGED isolatedVars
  <2>1. UNCHANGED passVars
    BY <1>5, BackgroundKeeps DEF WorkerCrash
  <2>2. QED
    BY <1>5, <1>d, <2>1 DEF passVars, CopyInv
<1>6. CASE UNCHANGED <<row, leaseOwner, fresh, claims>>
  BY <1>1, <1>2, <1>3, <1>4, <1>5, <1>6 DEF IsolatedNext
<1>7. QED
  BY <1>1, <1>2, <1>6, OthersStore DEF IsolatedNext

\* No step records a result in the incident that the operator does not have.
LEMMA OutcomesStep ==
  ASSUME IsolatedTypes, CopyInv, OutcomesAgree, [IsolatedNext]_isolatedVars
  PROVE  OutcomesAgree'
<1>a. TypeOK
  BY DEF IsolatedTypes, IsolatedTypeOK
<1>b. \A a \in Actions : grant[a] = "recorded" => grant'[a] = "recorded"
  BY GrantsStep
<1>c. ASSUME row'.result = row.result
      PROVE  OutcomesAgree'
  BY <1>b, <1>c DEF OutcomesAgree
<1>1. ASSUME NEW p \in Passes, WorkflowStep(p)
      PROVE  OutcomesAgree'
  <2>1. CASE pc[p] = "checkpoint" /\ SaveIncident(p, view[p])
    <3>1. p \in fresh /\ leaseOwner = p /\ row' = view[p]
      BY <2>1 DEF SaveIncident, CanSave, HoldsLease
    <3>2. RecordedResults(view[p])
      BY <2>1, <3>1 DEF CopyInv, CopyOf
    <3>3. QED
      BY <1>b, <3>1, <3>2 DEF RecordedResults, OutcomesAgree
  <2>2. QED
    BY <1>1, <1>c, <2>1, WorkflowStore
<1>2. ASSUME NEW p \in Passes, GrantedExecutorStep(p)
      PROVE  OutcomesAgree'
  <2>1. row'.result = row.result
    BY <1>2, <1>a, ExecutorStore DEF GrantedExecutorStep, storeVars
  <2>2. QED
    BY <1>c, <2>1
<1>3. QED
  BY <1>1, <1>2, <1>c, OthersStore

\* What the outcomes rest on, all of it.
SessionInv ==
    /\ AuthorityInv
    /\ RequestInv
    /\ IntentInv
    /\ CopyInv
    /\ OutcomesAgree

\* The requests, the copies and the two records of results stay together.
LEMMA SessionHolds == IsolatedSpec => []SessionInv
<1>1. IsolatedInit => SessionInv
  <2> SUFFICES ASSUME IsolatedInit PROVE SessionInv
    OBVIOUS
  <2>1. Init /\ serving = [p \in Passes |-> "none"]
    BY DEF IsolatedInit
  <2>2. AuthorityInv
    BY <2>1 DEF Init, ExecInit, NoExecution, AuthorityInv, SingleTermination
  <2>3. RequestInv
    BY <2>1 DEF Init, ExecInit, NoExecution, RequestInv, RequestOf, Away,
                HasAnswer, AboutToCall
  <2>4. IntentInv
    BY <2>1 DEF Init, IntentInv, IntentOf, Intends, AboutToCall, HasAnswer
  <2>5. CopyInv
    BY <2>1 DEF Init, StoreInit, CopyInv, CopyOf
  <2>6. OutcomesAgree
    BY <2>1 DEF Init, StoreInit, PlannedIncident, OutcomesAgree
  <2>7. QED
    BY <2>2, <2>3, <2>4, <2>5, <2>6 DEF SessionInv
<1>2. IsolatedTypes /\ SessionInv /\ [IsolatedNext]_isolatedVars => SessionInv'
  BY IsolatedAuthorityStep, RequestStep, IntentStep, CopyStep, OutcomesStep
     DEF SessionInv
<1>3. QED
  BY <1>1, <1>2, IsolatedTypeCorrect, PTL DEF IsolatedSpec

\* What the incident says of the result of an action, the operator's database
\* has recorded before: a lost answer, a dead worker and a pass that lost its
\* lease leave the incident without a result, never with one of its own.
THEOREM OutcomesAreRecordedFirst == IsolatedSpec => []OutcomesAgree
<1>1. SessionInv => OutcomesAgree
  BY DEF SessionInv
<1>2. QED
  BY <1>1, SessionHolds, PTL

-----------------------------------------------------------------------------
(* The order of the batch, whatever the worker still runs *)

\* The pass was not allowed to call, or got no answer.
Raising(p) == pc[p] = "raised" \/ (pc[p] = "load" /\ next[p] = "raised")

\* A pass about to save a copy that is not current any more saves nothing: the
\* worker claimed the action after the pass had given it up.
Superseded(p) == pc[p] = "checkpoint" /\ p \notin fresh

\* What holds of the owner of the lease; unlike in the combined profile, its
\* executor may claim behind its back, and then it is about to raise or to leave.
Stands(p) ==
    /\ Placed(p) \/ Superseded(p)
    /\ Raising(p) =>
        /\ row.state = "RUNNING" /\ index[p] \in Actions
        /\ row.act[index[p]] \in {"EXECUTING", "APPLYING"}
    /\ pc[p] \in DecidingLabels => p \in fresh

Entering(p) == pc[p] \in {"start", "prompt", "acquire"} => index[p] = 0

IsolatedOrderInv ==
    /\ Orderly(row)
    /\ \A p \in Passes : Entering(p)
    /\ \A p \in Passes : leaseOwner = p => Stands(p)

\* What does not concern the owner leaves it standing.
LEMMA StandKept ==
  ASSUME NEW q \in Passes, Stands(q), row' = row, q \in fresh' <=> q \in fresh,
         pc'[q] = pc[q], next'[q] = next[q], view'[q] = view[q],
         index'[q] = index[q]
  PROVE  Stands(q)'
<1>1. Placed(q) => Placed(q)'
  BY PlaceKept
<1>2. QED
  BY <1>1 DEF Stands, Superseded, Raising

\* Neither does a pass that is on its way out need anything.
LEMMA StandsOnLeaving ==
  ASSUME NEW q \in Passes, pc'[q] \in {"done", "crashed", "release"}
  PROVE  Stands(q)'
  BY DEF Stands, Placed, Raising, DecidingLabels

\* The steps that leave the incident, its lease and the copies as they are.
LEMMA StandAsBefore ==
  ASSUME IsolatedOrderInv, UNCHANGED <<row, leaseOwner, fresh>>,
         \A q \in Passes :
            \/ /\ pc'[q] = pc[q] /\ next'[q] = next[q]
               /\ view'[q] = view[q] /\ index'[q] = index[q]
            \/ pc'[q] \in {"done", "crashed", "release"}
            \/ pc'[q] \notin {"start", "prompt", "acquire"}
               /\ (leaseOwner = q => Stands(q)')
            \/ pc[q] = "prompt" /\ pc'[q] = "acquire" /\ index'[q] = index[q]
  PROVE  IsolatedOrderInv'
<1>1. Orderly(row)'
  BY DEF IsolatedOrderInv, Orderly, AllFinished
<1>2. ASSUME NEW q \in Passes
      PROVE  Entering(q)'
  BY DEF IsolatedOrderInv, Entering
<1>3. ASSUME NEW q \in Passes, leaseOwner' = q
      PROVE  Stands(q)'
  <2>1. CASE pc[q] = "prompt" /\ pc'[q] = "acquire"
    BY <2>1 DEF Stands, Placed, Raising, DecidingLabels
  <2>2. CASE pc'[q] \in {"done", "crashed", "release"}
    BY <2>2, StandsOnLeaving
  <2>3. CASE pc'[q] = pc[q] /\ next'[q] = next[q] /\ view'[q] = view[q]
             /\ index'[q] = index[q]
    BY <1>3, <2>3, StandKept DEF IsolatedOrderInv
  <2>4. QED
    BY <1>3, <2>1, <2>2, <2>3
<1>4. QED
  BY <1>1, <1>2, <1>3 DEF IsolatedOrderInv

\* What the steps between the requests keep of a copy, and where they lead.
LEMMA OwnerStands ==
  ASSUME IsolatedTypes, SessionInv, IsolatedOrderInv, NEW p \in Passes,
         WorkflowStep(p), leaseOwner' = p
  PROVE  Stands(p)'
<1>a. /\ TypeOK /\ LoopIndexOK /\ PassStep(p) /\ Orderly(row)
      /\ pc \in [Passes -> Labels] /\ next \in [Passes -> Continuations]
      /\ fresh \subseteq Passes
  BY WorkflowFrame
     DEF IsolatedTypes, IsolatedTypeOK, TypeOK, StoreTypeOK, IsolatedOrderInv
<1>b. leaseOwner = p => Stands(p)
  BY DEF IsolatedOrderInv
<1>c. pc[p] = "acquire" => index[p] = 0
  BY DEF IsolatedOrderInv, Entering
<1>d. CopyOf(p) /\ RequestOf(p)
  BY DEF SessionInv, CopyInv, RequestInv
<1>1. CASE Superseded(p)
  <2>1. Checkpoint(p)
    BY <1>1, <1>a, LocalMoves DEF Superseded, Load
  <2>2. ~SaveIncident(p, view[p])
    BY <1>1 DEF Superseded, SaveIncident, CanSave
  <2>3. pc'[p] = "release"
    BY <1>a, <2>1, <2>2 DEF Checkpoint, Goto
  <2>4. QED
    BY <2>3, StandsOnLeaving
<1>2. CASE ~Superseded(p)
  <2>1. Placed(p)'
    <3>1. leaseOwner = p =>
            Placed(p) /\ (pc[p] \in DecidingLabels => view[p] = row)
      BY <1>2, <1>b, <1>d DEF Stands, CopyOf
    <3>2. QED
      BY <1>a, <1>c, <3>1, OwnerPlaced
  <2>2. ASSUME Raising(p)'
        PROVE  /\ row'.state = "RUNNING" /\ index'[p] \in Actions
               /\ row'.act[index'[p]] \in {"EXECUTING", "APPLYING"}
    <3>1. CASE Load(p)
      <4>1. /\ pc[p] = "load" /\ pc'[p] = next[p] /\ next' = next
            /\ leaseOwner = p /\ UNCHANGED <<row, index>>
        BY <1>a, <3>1 DEF Load, LoadIncident, Goto
      <4>2. Raising(p)
        BY <1>a, <2>2, <4>1 DEF Raising, Continuations
      <4>3. QED
        BY <1>b, <4>1, <4>2 DEF Stands
    <3>2. CASE Checkpoint(p)
      <4>1. pc[p] = "checkpoint" /\ pc'[p] \in {"load", "release"} /\ next' = next
        BY <1>a, <3>2 DEF Checkpoint, LoadThen, Goto
      <4>2. FALSE
        BY <1>d, <2>2, <4>1 DEF RequestOf, Raising
      <4>3. QED
        BY <4>2
    <3>3. QED
      BY <1>a, <2>2, <3>1, <3>2, LocalMoves DEF Raising
  <2>3. pc'[p] \in DecidingLabels => p \in fresh'
    <3>1. ASSUME pc'[p] \in DecidingLabels
          PROVE  p \in fresh'
      <4>1. CASE Load(p)
        BY <4>1 DEF Load, LoadIncident
      <4>2. CASE pc[p] \in DecidingLabels /\ UNCHANGED <<storeVars, view>>
        BY <1>b, <4>2 DEF Stands, storeVars
      <4>3. QED
        BY <1>a, <3>1, <4>1, <4>2, ComesToDecide
    <3>2. QED
      BY <3>1
  <2>4. QED
    BY <2>1, <2>2, <2>3 DEF Stands
<1>3. QED
  BY <1>1, <1>2

\* A workflow step of a pass keeps the batch in order, and the owner standing,
\* be it that pass or another.
LEMMA OrderWorkflow ==
  ASSUME IsolatedTypes, SessionInv, IsolatedOrderInv, NEW p \in Passes,
         WorkflowStep(p)
  PROVE  IsolatedOrderInv'
<1>a. /\ TypeOK /\ LoopIndexOK /\ PassStep(p)
      /\ row \in Incident /\ view \in [Passes -> Incident]
      /\ Orderly(row) /\ \A q \in Passes : Entering(q)
      /\ \A q \in Passes : leaseOwner = q => Stands(q)
  BY WorkflowFrame
     DEF IsolatedTypes, IsolatedTypeOK, TypeOK, StoreTypeOK, IsolatedOrderInv
<1>b. OthersStill(p)
  BY <1>a, PassStepLocal
<1>1. Orderly(row)'
  <2>1. CASE UNCHANGED row
    BY <1>a, <2>1 DEF Orderly, AllFinished
  <2>2. CASE pc[p] = "checkpoint" /\ SaveIncident(p, view[p])
    <3>1. leaseOwner = p /\ p \in fresh /\ row' = view[p]
      BY <2>2 DEF SaveIncident, CanSave, HoldsLease
    <3>2. Edit(row, view[p])
      BY <1>a, <2>2, <3>1 DEF Stands, Superseded, Placed
    <3>3. Orderly(view[p])
      BY <1>a, <3>2, EditIsLegal
    <3>4. QED
      BY <3>1, <3>3 DEF Orderly, AllFinished
  <2>3. QED
    BY <2>1, <2>2, WorkflowStore
<1>2. \A q \in Passes : Entering(q)'
  BY <1>a, <1>b, AsksOnce DEF OthersStill, Entering
<1>3. ASSUME NEW q \in Passes, leaseOwner' = q
      PROVE  Stands(q)'
  <2>1. CASE q = p
    BY <1>3, <2>1, OwnerStands
  <2>2. CASE q # p
    <3>1. leaseOwner = q /\ row' = row /\ (q \in fresh' <=> q \in fresh)
      BY <1>a, <1>3, <2>2, OwnerUndisturbed, WorkflowStore
    <3>2. QED
      BY <1>a, <1>b, <2>2, <3>1, StandKept DEF OthersStill
  <2>3. QED
    BY <2>1, <2>2
<1>4. QED
  BY <1>1, <1>2, <1>3 DEF IsolatedOrderInv

\* The exception branch edits a current copy only as the incident allows.
LEMMA OrderRaised ==
  ASSUME IsolatedTypes, SessionInv, IsolatedOrderInv, NEW p \in Passes, Raised(p)
  PROVE  IsolatedOrderInv'
<1>a. /\ TypeOK /\ row \in Incident /\ OthersStill(p) /\ CopyOf(p)
      /\ Orderly(row)
      /\ UNCHANGED <<row, leaseOwner, fresh, index>> /\ pc[p] = "raised"
      /\ pc'[p] \in {"release", "checkpoint"}
      /\ pc'[p] = "checkpoint" => next'[p] = "release"
  BY RaisedFrame
     DEF IsolatedTypes, IsolatedTypeOK, TypeOK, StoreTypeOK, IsolatedOrderInv,
         SessionInv, CopyInv, Raised, storeVars
<1>1. ASSUME leaseOwner = p
      PROVE  Stands(p)'
  <2>1. /\ row.state = "RUNNING" /\ index[p] \in Actions
        /\ row.act[index[p]] \in {"EXECUTING", "APPLYING"}
    BY <1>1, <1>a DEF IsolatedOrderInv, Stands, Raising
  <2>2. CASE pc'[p] = "release"
    BY <2>2, StandsOnLeaving
  <2>3. CASE pc'[p] = "checkpoint" /\ p \notin fresh
    BY <1>a, <2>3 DEF Stands, Superseded, Raising, DecidingLabels
  <2>4. CASE pc'[p] = "checkpoint" /\ p \in fresh
    <3>1. view[p] = row
      BY <1>a, <2>4 DEF CopyOf
    <3>2. Due(row, index[p]) /\ "IN_DOUBT" \in ActionTransitions(row.act[index[p]])
      BY <1>a, <2>1, InFlightIsDue DEF InFlightStates, ActionTransitions
    <3>3. StopAction(p, index[p], "IN_DOUBT")
      BY <2>1, <3>1 DEF Raised
    <3>4. Placed(p)'
      BY <1>a, <2>1, <3>1, <3>2, <3>3, StopActionPlaced
    <3>5. QED
      BY <1>a, <2>4, <3>4 DEF Stands, Raising, DecidingLabels
  <2>5. QED
    BY <1>a, <2>2, <2>3, <2>4
<1>2. QED
  BY <1>a, <1>1, StandAsBefore DEF OthersStill

\* The client: what it sends for and what it gets concern the owner's intent.
LEMMA OrderClient ==
  ASSUME IsolatedTypes, SessionInv, IsolatedOrderInv, NEW p \in Passes,
         CallExecutor(p) \/ ReceiveAnswer(p) \/ GiveUp(p)
  PROVE  IsolatedOrderInv'
<1>a. /\ TypeOK /\ LoopIndexOK /\ row.act \in [Actions -> ActionStates]
      /\ pc \in [Passes -> Labels] /\ next \in [Passes -> Continuations]
  BY DEF IsolatedTypes, IsolatedTypeOK, TypeOK, StoreTypeOK, Incident
<1>b. /\ UNCHANGED <<row, leaseOwner, fresh, view, index>>
      /\ pc[p] \in {"execute", "executing"}
  BY DEF CallExecutor, ReceiveAnswer, GiveUp, storeVars
<1>c. /\ \A q \in Passes \ {p} : pc'[q] = pc[q] /\ next'[q] = next[q]
      /\ \/ pc'[p] = "executing"
         \/ pc'[p] = "load" /\ next'[p] \in {"raised", "interpret"}
  <2>1. CASE CallExecutor(p)
    BY <2>1, CallFrame DEF IsolatedTypes
  <2>2. CASE ReceiveAnswer(p) \/ GiveUp(p)
    BY <2>2, <1>a DEF ReceiveAnswer, GiveUp, LoadThen
  <2>3. QED
    BY <2>1, <2>2
<1>d. index[p] \in Actions
  BY <1>a, <1>b DEF LoopIndexOK, InLoop, LoopLabels, LoopContinuations
<1>1. ASSUME leaseOwner = p
      PROVE  Stands(p)'
  <2>1. row.state = "RUNNING" /\ row.act[index[p]] \in {"EXECUTING", "APPLYING"}
    BY <1>1, <1>b
       DEF IsolatedOrderInv, Stands, Superseded, Placed, Fits, DecidingLabels
  <2>2. Placed(p)'
    BY <1>b, <1>c, <2>1 DEF Placed, Fits, DecidingLabels
  <2>3. QED
    BY <1>b, <1>c, <1>d, <2>1, <2>2 DEF Stands, Raising, DecidingLabels
<1>2. QED
  BY <1>b, <1>c, <1>1, StandAsBefore

\* The worker's claim: it has the lease of a pass that waits, or gave up and will
\* not save what it read before.
LEMMA OrderExecutor ==
  ASSUME IsolatedTypes, SessionInv, IsolatedOrderInv, NEW p \in Passes,
         GrantedExecutorStep(p)
  PROVE  IsolatedOrderInv'
<1>a. /\ TypeOK /\ row \in Incident /\ row.act \in [Actions -> ActionStates]
      /\ exec[p].act \in Actions /\ Orderly(row) /\ LoopIndexOK
      /\ \A q \in Passes : Entering(q)
      /\ UNCHANGED passVars
  BY DEF IsolatedTypes, IsolatedTypeOK, TypeOK, StoreTypeOK, ExecTypeOK, Incident,
         Execution, IsolatedOrderInv, GrantedExecutorStep
<1>1. CASE UNCHANGED storeVars
  BY <1>1, <1>a, StandAsBefore DEF storeVars, passVars
<1>2. CASE ClaimActionExecution(p, exec[p].act, exec[p].approval,
                                exec[p].waiter)
           /\ exec[p].at = "claim"
  <2> DEFINE a == exec[p].act
  <2>1. /\ leaseOwner = p /\ UNCHANGED leaseOwner /\ fresh' = {}
        /\ row.act[a] = "EXECUTING"
        /\ row'.act = [row.act EXCEPT ![a] = "APPLYING"]
        /\ row'.state = row.state /\ row.state = "RUNNING"
    BY <1>a, <1>2 DEF ClaimActionExecution, CanClaim, HoldsLease, Incident
  <2>2. Away(p)
    <3>1. RequestOf(p)
      BY DEF SessionInv, RequestInv
    <3>2. QED
      BY <1>2, <3>1 DEF RequestOf
  <2>3. Stands(p)
    BY <2>1 DEF IsolatedOrderInv
  <2>4. Raising(p)' =>
            /\ row'.state = "RUNNING" /\ index'[p] \in Actions
            /\ row'.act[index'[p]] \in {"EXECUTING", "APPLYING"}
    BY <1>a, <2>1, <2>3 DEF Stands, Raising, passVars
  <2>5. Placed(p)' \/ Superseded(p)'
    <3>1. ASSUME pc[p] = "executing"
          PROVE  Placed(p)'
      <4>1. row.act[index[p]] \in {"EXECUTING", "APPLYING"} /\ index[p] \in Actions
        BY <1>a, <2>3, <3>1
           DEF Stands, Superseded, Placed, Fits, LoopIndexOK, InLoop, LoopLabels
      <4>2. QED
        BY <1>a, <2>1, <3>1, <4>1 DEF Placed, Fits, DecidingLabels, passVars
    <3>2. ASSUME pc[p] = "checkpoint"
          PROVE  Superseded(p)'
      BY <1>a, <2>1, <3>2 DEF Superseded, passVars
    <3>3. ASSUME pc[p] \notin {"executing", "checkpoint"}
          PROVE  Placed(p)'
      BY <1>a, <2>2, <3>3 DEF Away, Placed, Fits, DecidingLabels, passVars
    <3>4. QED
      BY <3>1, <3>2, <3>3
  <2>6. pc'[p] \notin DecidingLabels
    BY <1>a, <2>2 DEF Away, DecidingLabels, passVars
  <2>7. Stands(p)'
    BY <2>4, <2>5, <2>6 DEF Stands
  <2>8. Orderly(row)'
    BY <1>a, <2>1
       DEF Orderly, AllFinished, FinishedActionStates, CompletedStates
  <2>9. QED
    BY <1>a, <2>1, <2>7, <2>8 DEF IsolatedOrderInv, Entering, passVars
<1>3. QED
  BY <1>1, <1>2 DEF GrantedExecutorStep, ExecutorStep, RecordIntent,
     ValidateProposal, ClaimAction, RecheckPolicy, SendTermination,
     VerifyRelationship

\* Every step of the isolated profile keeps the batch in order.
LEMMA IsolatedOrderStep ==
  ASSUME IsolatedTypes, SessionInv, IsolatedOrderInv,
         [IsolatedNext]_isolatedVars
  PROVE  IsolatedOrderInv'
<1>a. /\ TypeOK /\ LoopIndexOK
      /\ pc \in [Passes -> Labels] /\ next \in [Passes -> Continuations]
      /\ view \in [Passes -> Incident] /\ index \in [Passes -> 0..N]
  BY DEF IsolatedTypes, IsolatedTypeOK, TypeOK
<1>b. CASE UNCHANGED <<row, leaseOwner, fresh, passVars>>
  BY <1>b, StandAsBefore DEF passVars
<1>1. ASSUME NEW p \in Passes, WorkflowStep(p)
      PROVE  IsolatedOrderInv'
  BY <1>1, OrderWorkflow
<1>2. ASSUME NEW p \in Passes, Prompt(p)
      PROVE  IsolatedOrderInv'
  <2>1. /\ pc[p] = "prompt" /\ pc'[p] = "acquire"
        /\ UNCHANGED <<row, leaseOwner, fresh, next, view, index>>
        /\ \A q \in Passes \ {p} : pc'[q] = pc[q]
    BY <1>2, <1>a DEF Prompt, Goto, storeVars
  <2>2. QED
    BY <2>1, StandAsBefore
<1>3. ASSUME NEW p \in Passes, Raised(p)
      PROVE  IsolatedOrderInv'
  BY <1>3, OrderRaised
<1>4. ASSUME NEW p \in Passes, CallExecutor(p) \/ ReceiveAnswer(p) \/ GiveUp(p)
      PROVE  IsolatedOrderInv'
  BY <1>4, OrderClient
<1>5. ASSUME NEW p \in Passes,
             Serve(p) \/ CheckIntent(p) \/ ClaimGrant(p) \/ RecordResult(p)
      PROVE  IsolatedOrderInv'
  BY <1>b, <1>5 DEF Serve, CheckIntent, ClaimGrant, RecordResult, vars, storeVars
<1>6. ASSUME NEW p \in Passes, GrantedExecutorStep(p)
      PROVE  IsolatedOrderInv'
  BY <1>6, OrderExecutor
<1>7. ASSUME NEW p \in Passes, DisturbPass(p)
      PROVE  IsolatedOrderInv'
  <2>1. /\ UNCHANGED <<row, leaseOwner, fresh>>
        /\ pc'[p] \in {"done", "crashed", "release"}
        /\ \A q \in Passes \ {p} :
                /\ pc'[q] = pc[q] /\ next'[q] = next[q]
                /\ view'[q] = view[q] /\ index'[q] = index[q]
    BY <1>7, <1>a DEF DisturbPass, PassCrash, PassInterrupt, End, Goto, storeVars
  <2>2. QED
    BY <2>1, StandAsBefore
<1>8. CASE \/ ReviewScope \/ IssueGrants \/ (\E a \in Actions : GrantExpires(a))
           \/ WorkerCrash \/ UNCHANGED isolatedVars
  BY <1>b, <1>8 DEF ReviewScope, IssueGrants, GrantExpires, WorkerCrash,
                    isolatedVars, vars, storeVars
<1>9. CASE Environment
  BY <1>b, <1>9 DEF Environment, Clock, LeaseExpires, ApprovalExpires,
                    DeadlinePasses, storeVars
<1>10. QED
  BY <1>1, <1>2, <1>3, <1>4, <1>5, <1>6, <1>7, <1>8, <1>9 DEF IsolatedNext

\* In every state.
LEMMA IsolatedOrderHolds == IsolatedSpec => []IsolatedOrderInv
<1>1. IsolatedInit => IsolatedOrderInv
  BY NAssumption, PassAssumption
     DEF IsolatedInit, Init, StoreInit, PlannedIncident, IsolatedOrderInv, Orderly,
         Entering, CompletedStates
<1>2. IsolatedTypes /\ SessionInv /\ IsolatedOrderInv /\ [IsolatedNext]_isolatedVars
        => IsolatedOrderInv'
  BY IsolatedOrderStep
<1>3. QED
  BY <1>1, <1>2, IsolatedTypeCorrect, SessionHolds, PTL DEF IsolatedSpec

\* The batch stays serial when its executor is another process: nothing behind
\* an unfinished action is begun, one action at most is in flight, an incident is
\* completed only when its actions are finished, and no checkpoint of a current
\* copy is refused.
THEOREM IsolatedBatchIsSerial ==
  IsolatedSpec => [](/\ SerialBatch
                     /\ OneInFlight
                     /\ CompletedMeansFinished
                     /\ CheckpointsAreLegal)
<1>1. IsolatedOrderInv => SerialBatch /\ OneInFlight /\ CompletedMeansFinished
  BY OrderlyIsSerial DEF IsolatedOrderInv, Orderly, SerialBatch,
     CompletedMeansFinished, CompletedStates, AllFinished
<1>2. IsolatedTypes /\ IsolatedOrderInv => CheckpointsAreLegal
  <2> SUFFICES ASSUME IsolatedTypes, IsolatedOrderInv, NEW p \in Passes,
                      pc[p] = "checkpoint", HoldsLease(p), p \in fresh
               PROVE  CanSave(p, view[p])
    BY DEF CheckpointsAreLegal
  <2>1. Orderly(row) /\ Edit(row, view[p])
    BY DEF HoldsLease, IsolatedOrderInv, Stands, Superseded, Placed
  <2>2. row \in Incident /\ view[p] \in Incident
    BY DEF IsolatedTypes, IsolatedTypeOK, TypeOK, StoreTypeOK
  <2>3. QED
    BY <2>1, <2>2, EditIsLegal DEF CanSave
<1>3. QED
  BY <1>1, <1>2, IsolatedTypeCorrect, IsolatedOrderHolds, PTL

\* A pass that owns the lease decides on the stored incident, although its worker
\* may claim after the pass has given its request up: a pass that gave up decides
\* nothing more.
THEOREM IsolatedOwnerIsCurrent == IsolatedSpec => []OwnerIsCurrent
<1>1. SessionInv /\ IsolatedOrderInv => OwnerIsCurrent
  BY DEF SessionInv, CopyInv, CopyOf, IsolatedOrderInv, Stands, OwnerIsCurrent
<1>2. QED
  BY <1>1, SessionHolds, IsolatedOrderHolds, PTL

\* The incident changes by an edit of its owner, or by the claim of an intent.
LEMMA IsolatedRowChanges ==
  ASSUME IsolatedTypes, IsolatedOrderInv, [IsolatedNext]_isolatedVars, row' # row
  PROVE  \E p \in Passes :
            \/ row' = view[p] /\ Edit(row, view[p]) /\ WorkflowStep(p)
            \/ /\ ClaimActionExecution(p, exec[p].act, exec[p].approval,
                                       exec[p].waiter)
               /\ ClaimAction(p)
               /\ claims' = [claims EXCEPT ![exec[p].act] = @ \cup {p}]
<1>1. ASSUME NEW p \in Passes, WorkflowStep(p)
      PROVE  row' = view[p] /\ Edit(row, view[p])
  <2>1. pc[p] = "checkpoint" /\ SaveIncident(p, view[p])
    BY <1>1, WorkflowStore
  <2>2. leaseOwner = p /\ p \in fresh /\ row' = view[p]
    BY <2>1 DEF SaveIncident, CanSave, HoldsLease
  <2>3. QED
    BY <2>1, <2>2 DEF IsolatedOrderInv, Stands, Superseded, Placed
<1>2. ASSUME NEW p \in Passes, GrantedExecutorStep(p)
      PROVE  /\ ClaimActionExecution(p, exec[p].act, exec[p].approval,
                                     exec[p].waiter)
             /\ ClaimAction(p)
             /\ claims' = [claims EXCEPT ![exec[p].act] = @ \cup {p}]
  BY <1>2 DEF GrantedExecutorStep, ExecutorStep, RecordIntent, ValidateProposal,
              ClaimAction, RecheckPolicy, SendTermination, VerifyRelationship,
              storeVars
<1>3. QED
  BY <1>1, <1>2, OthersStore

\* A finished incident is never changed again, by a worker that outlives its pass
\* either.
THEOREM IsolatedFinishedIsFinal == IsolatedSpec => TerminalIsFinal
<1>1. IsolatedTypes /\ IsolatedOrderInv /\ [IsolatedNext]_isolatedVars =>
        [row.state \in TerminalStates => row' = row]_vars
  <2> SUFFICES ASSUME IsolatedTypes, IsolatedOrderInv,
                      [IsolatedNext]_isolatedVars, row' # row
               PROVE  row.state \notin TerminalStates
    OBVIOUS
  <2>1. ASSUME NEW p \in Passes, Edit(row, view[p])
        PROVE  row.state \in ActiveIncidentStates
    BY <2>1, EditIsLegal
       DEF IsolatedTypes, IsolatedTypeOK, TypeOK, StoreTypeOK, IsolatedOrderInv
  <2>2. ASSUME NEW p \in Passes,
               ClaimActionExecution(p, exec[p].act, exec[p].approval,
                                    exec[p].waiter)
        PROVE  row.state = "RUNNING"
    BY <2>2 DEF ClaimActionExecution, CanClaim
  <2>3. QED
    BY <2>1, <2>2, IsolatedRowChanges DEF TerminalStates, ActiveIncidentStates
<1>2. QED
  BY <1>1, IsolatedTypeCorrect, IsolatedOrderHolds, PTL
     DEF IsolatedSpec, TerminalIsFinal

-----------------------------------------------------------------------------
(* The promise *)

\* Without a new incident and a signal, no step makes history.
LEMMA IsolatedOtherwiseKept ==
  ASSUME IsolatedTypes, [IsolatedNext]_isolatedVars, UNCHANGED row,
         \A p \in Passes : ~SendTermination(p)
  PROVE  StepOfPromise
<1>a. TypeOK
  BY DEF IsolatedTypes, IsolatedTypeOK
<1>1. ASSUME NEW p \in Passes, WorkflowStep(p)
      PROVE  UNCHANGED <<claims, signals>>
  BY <1>1, WorkflowFrame
<1>2. ASSUME NEW p \in Passes,
             \/ CallExecutor(p) \/ ReceiveAnswer(p) \/ GiveUp(p) \/ Serve(p)
             \/ CheckIntent(p) \/ RecordResult(p) \/ DisturbPass(p)
             \/ Raised(p) \/ Prompt(p) \/ WorkerCrash
      PROVE  UNCHANGED <<claims, signals>>
  BY <1>2, NoAuthority
<1>3. ASSUME NEW p \in Passes, ClaimGrant(p)
      PROVE  UNCHANGED <<claims, signals>>
  BY <1>3, StartsUnderGrant
<1>4. ASSUME NEW p \in Passes, GrantedExecutorStep(p)
      PROVE  UNCHANGED <<claims, signals>>
  BY <1>4, <1>a, ExecutorWithoutEffect DEF GrantedExecutorStep
<1>5. UNCHANGED <<claims, signals>>
  <2>1. CASE Environment
    BY <2>1, EnvironmentFrame
  <2>2. CASE \/ ReviewScope \/ IssueGrants \/ (\E a \in Actions : GrantExpires(a))
             \/ UNCHANGED isolatedVars
    BY <2>2 DEF ReviewScope, IssueGrants, GrantExpires, isolatedVars, vars,
                execVars, histVars
  <2>3. CASE WorkerCrash
    BY <2>3 DEF WorkerCrash, histVars
  <2>4. QED
    BY <1>1, <1>2, <1>3, <1>4, <2>1, <2>2, <2>3 DEF IsolatedNext
<1>6. QED
  BY <1>5 DEF StepOfPromise, Kept, phaseOf, outcomeOf, authorityOf, signalledOf

\* Every step of the isolated profile is a step of the promise or none of it.
LEMMA IsolatedPromiseStep ==
  ASSUME IsolatedTypes, AuthorityInv, IsolatedOrderInv,
         [IsolatedNext]_isolatedVars
  PROVE  StepOfPromise
<1>a. TypeOK /\ Orderly(row)
  BY DEF IsolatedTypes, IsolatedTypeOK, IsolatedOrderInv
<1>1. ASSUME NEW p \in Passes, row' = view[p], Edit(row, view[p]), WorkflowStep(p)
      PROVE  StepOfPromise
  <2>1. UNCHANGED <<claims, signals>>
    BY <1>1, WorkflowFrame
  <2>2. StateEdit(row, row') \/ \E a \in Actions : ActionEdit(row, row', a)
    BY <1>1 DEF Edit
  <2>3. QED
    BY <1>a, <2>1, <2>2, StateEditKeepsPromise, ActionEditKeepsPromise
<1>2. CASE row' # row
  BY <1>a, <1>1, <1>2, IsolatedRowChanges, ClaimKeepsPromise
<1>3. CASE \E p \in Passes : SendTermination(p)
  BY <1>3, <1>a, SignalKeepsPromise
<1>4. QED
  BY <1>2, <1>3, IsolatedOtherwiseKept

\* The passes, their clients, the worker and the operator's grants together keep
\* the promise of the combined profile: authority given once and in order, a
\* target signalled once and under authority, failures and ends final, though
\* requests outlive their passes and answers get lost.
THEOREM IsolatedKeepsPromise == IsolatedSpec => KeepsPromise
<1>1. IsolatedInit => Promise!PromiseInit
  BY StartsPromise DEF IsolatedInit
<1>2. IsolatedTypes /\ AuthorityInv /\ IsolatedOrderInv /\ [IsolatedNext]_isolatedVars
        => [Promise!PromiseNext]_(Promise!promiseVars)
  BY IsolatedPromiseStep DEF StepOfPromise, Kept, phaseOf, outcomeOf, authorityOf,
                             signalledOf, Promise!promiseVars
<1>3. QED
  BY <1>1, <1>2, IsolatedTypeCorrect, IsolatedAuthorityHolds, IsolatedOrderHolds,
     PTL DEF IsolatedSpec, KeepsPromise, Promise!PromiseSpec

================================================================================
