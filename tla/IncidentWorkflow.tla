--------------------------- MODULE IncidentWorkflow ---------------------------
(***************************************************************************)
(* The lock-contention workflow of src/src/incident_workflow.py: any number *)
(* of passes of run_lock_incident over one incident, concurrently and one   *)
(* after another, in one process each with the executor called in-process   *)
(* (the combined profile).                                                 *)
(*                                                                         *)
(* A pass is the code of _run_lock_incident_once between two transactions,  *)
(* observations or readings of the clock. view[p] is its in-memory incident, *)
(* which it edits and then saves: "checkpoint" is a copy edited and not yet  *)
(* saved, "load" is a transaction committed whose result is not yet read     *)
(* back, and next[p] is where the pass goes on after them.                   *)
(***************************************************************************)
EXTENDS TerminateExecutor

CONSTANT Faults  \* the disturbances the environment may cause

ASSUME FaultsAssumption ==
    Faults \subseteq {"crash", "interrupt", "lease", "expiry", "truncation"}

VARIABLES
    pc,        \* pc[p]: where pass p is
    next,      \* next[p]: where it goes on after a checkpoint or a load
    view,      \* view[p]: its in-memory copy of the incident
    index,     \* index[p]: the action its loop is at, 0 before the first
    decision   \* decision[p]: what the operator answered it

passVars == <<pc, next, view, index, decision>>

vars == <<storeVars, blocker, execVars, passVars>>

\* "raised" is reached by a remote execution only (IsolatedExecution).
Continuations ==
    {"admit", "enter", "reconcile", "step", "observe", "gate2", "execute",
     "interpret", "raised", "recorded", "release"}

Labels ==
    Continuations \cup
    {"start", "prompt", "acquire", "load", "checkpoint", "renew1", "gate1",
     "renew2", "executing", "verify", "final", "done", "crashed"}

TerminalStates ==
    {"COMPLETED", "COMPLETED_WITH_UNAPPROVED_REMAINDER", "CANCELLED",
     "REVIEW_REQUIRED"}

FinishedActionStates == {"SUCCEEDED", "SKIPPED_RESOLVED", "RECONCILED_RESOLVED"}

InFlightStates == {"EXECUTING", "APPLYING", "RESULT_RECORDED"}

AwaitingStates == {"AWAITING_APPROVAL", "AWAITING_REAPPROVAL"}

TypeOK ==
    /\ StoreTypeOK
    /\ GraphTypeOK
    /\ ExecTypeOK
    /\ pc \in [Passes -> Labels]
    /\ next \in [Passes -> Continuations]
    /\ view \in [Passes -> Incident]
    /\ index \in [Passes -> 0..N]
    /\ decision \in [Passes -> {"none", "approve", "reject"}]

Init ==
    /\ StoreInit
    /\ GraphInit
    /\ ExecInit
    /\ pc = [p \in Passes |-> "start"]
    /\ next = [p \in Passes |-> "admit"]
    /\ view = [p \in Passes |-> PlannedIncident]
    /\ index = [p \in Passes |-> 0]
    /\ decision = [p \in Passes |-> "none"]

-----------------------------------------------------------------------------
(* Moves of a pass *)

Goto(p, label) == pc' = [pc EXCEPT ![p] = label] /\ UNCHANGED next

\* The pass ends and its locals are gone.
End(p, label) ==
    /\ pc' = [pc EXCEPT ![p] = label]
    /\ next' = [next EXCEPT ![p] = "admit"]
    /\ view' = [view EXCEPT ![p] = PlannedIncident]
    /\ index' = [index EXCEPT ![p] = 0]

\* A transaction has committed: read the row back, then go on at label.
LoadThen(p, label) ==
    /\ pc' = [pc EXCEPT ![p] = "load"]
    /\ next' = [next EXCEPT ![p] = label]

\* Save value as the new incident, then go on at label.
CheckpointThen(p, value, label) ==
    /\ view' = [view EXCEPT ![p] = value]
    /\ pc' = [pc EXCEPT ![p] = "checkpoint"]
    /\ next' = [next EXCEPT ![p] = label]

\* The edits of the in-memory copy that end a pass: the incident moves to
\* state, or the current action a moves to act as well.
StopIncident(p, state) ==
    CheckpointThen(p, [view[p] EXCEPT !.state = state], "release")

\* Mutants: the two states change places; the batch goes on after a failure.
StopActionSwapped(p, a, act) ==
    CheckpointThen(p, [view[p] EXCEPT !.act[a] = "REVIEW_REQUIRED",
                                      !.state = act], "release")

StopActionGoesOn(p, a, act) ==
    CheckpointThen(p, [view[p] EXCEPT !.act[a] = act], "step")

StopAction(p, a, act) ==
    CheckpointThen(p, [view[p] EXCEPT !.act[a] = act,
                                      !.state = "REVIEW_REQUIRED"], "release")

\* The edit that finishes action a and goes on with the batch.
FinishAction(p, a, act) ==
    CheckpointThen(p, [view[p] EXCEPT !.act[a] = act], "step")

\* A lock snapshot that came back truncated is a disturbance.
MayBeTruncated == "truncation" \in Faults

-----------------------------------------------------------------------------
(* Admission *)

\* The first load. A finished incident is returned as it is, and so is one that
\* waits for a decision when there is nobody to ask.
Start(p) ==
    /\ pc[p] = "start"
    /\ LoadIncident(p)
    /\ \/ row.state \in TerminalStates \cup AwaitingStates /\ End(p, "done")
       \/ /\ \/ row.state \in AwaitingStates /\ Goto(p, "prompt")
             \/ row.state = "RUNNING" /\ Goto(p, "acquire")
          /\ view' = [view EXCEPT ![p] = row]
          /\ UNCHANGED index
    /\ UNCHANGED <<blocker, execVars, decision>>

\* The operator decides on the plan shown, before any lease is held.
Prompt(p) ==
    /\ pc[p] = "prompt"
    /\ \E d \in {"approve", "reject"} :
            decision' = [decision EXCEPT ![p] = d]
    /\ Goto(p, "acquire")
    /\ UNCHANGED <<storeVars, blocker, execVars, view, index>>

\* Refused, the pass ends: it has nothing to release.
Acquire(p) ==
    /\ pc[p] = "acquire"
    /\ \/ /\ AcquireLease(p)
          /\ LoadThen(p, "admit")
          /\ UNCHANGED <<view, index>>
       \/ ~CanAcquire(p) /\ End(p, "done") /\ UNCHANGED storeVars
    /\ UNCHANGED <<blocker, execVars, decision>>

\* The decision applies to an incident that still waits for one.
Admit(p) ==
    /\ pc[p] = "admit"
    /\ IF view[p].state \notin AwaitingStates
       THEN Goto(p, "enter") /\ UNCHANGED view
       ELSE CASE decision[p] = "none" -> Goto(p, "release") /\ UNCHANGED view
              [] decision[p] = "reject" -> StopIncident(p, "CANCELLED")
              [] decision[p] = "approve" ->
                    CheckpointThen(p, [view[p] EXCEPT !.state = "RUNNING",
                                                      !.approval = p], "enter")
    /\ UNCHANGED <<storeVars, blocker, execVars, index, decision>>

\* Mutants: the pass goes on with the copy it had; it retries a lost lease.
RenewThenStale(p, label) ==
    \/ RenewLease(p) /\ Goto(p, label)
    \/ ~CanRenew(p) /\ Goto(p, "release") /\ UNCHANGED storeVars

RenewThenRetry(p, label) == RenewLease(p) /\ LoadThen(p, label)

\* Renew the lease and go on at label, or leave the pass when it is lost.
RenewThen(p, label) ==
    \/ RenewLease(p) /\ LoadThen(p, label)
    \/ ~CanRenew(p) /\ Goto(p, "release") /\ UNCHANGED storeVars

Enter(p) ==
    /\ pc[p] = "enter"
    /\ IF view[p].state = "RUNNING"
       THEN RenewThen(p, "reconcile")
       ELSE Goto(p, "release") /\ UNCHANGED storeVars
    /\ UNCHANGED <<blocker, execVars, view, index, decision>>

-----------------------------------------------------------------------------
(* Reconciliation of what an earlier pass left in flight *)

\* What is done with action a, in flight in the copy of p, under sight. (That
\* more than one is in flight is MULTIPLE_INFLIGHT_ACTIONS, see OneInFlight.)
ReconcileInflight(p, a, sight) ==
    IF view[p].act[a] = "RESULT_RECORDED"
    THEN CASE view[p].result[a] # "CONFIRMED" -> StopAction(p, a, "FAILED")
           [] view[p].result[a] = "CONFIRMED" /\ sight \in ExactSights ->
                StopAction(p, a, "INCONCLUSIVE")
           [] OTHER -> FinishAction(p, a, "SUCCEEDED")
    ELSE CASE sight = "reused" -> StopAction(p, a, "STALE_IDENTITY")
           [] sight = "absent" -> FinishAction(p, a, "RECONCILED_RESOLVED")
           [] OTHER -> StopAction(p, a, "IN_DOUBT")

InFlight(value) == {a \in Actions : value.act[a] \in InFlightStates}

Reconcile(p) ==
    /\ pc[p] = "reconcile"
    /\ \/ MayBeTruncated /\ StopIncident(p, "REVIEW_REQUIRED")
       \/ InFlight(view[p]) = {} /\ Goto(p, "step") /\ UNCHANGED view
       \/ \E a \in Actions :
            /\ InFlight(view[p]) = {a}
            /\ \E sight \in Sights(a) : ReconcileInflight(p, a, sight)
       \/ /\ \E a, b \in InFlight(view[p]) : a # b
          /\ StopIncident(p, "REVIEW_REQUIRED")
    /\ UNCHANGED <<storeVars, blocker, execVars, index, decision>>

-----------------------------------------------------------------------------
(* One step of the batch *)

\* The loop moves to the next action that is not finished.
Step(p) ==
    /\ pc[p] = "step"
    /\ \/ /\ \A a \in index[p] + 1 .. N :
                view[p].act[a] \in FinishedActionStates
          /\ Goto(p, "final")
          /\ UNCHANGED <<view, index>>
       \/ \E a \in index[p] + 1 .. N :
            /\ view[p].act[a] \notin FinishedActionStates
            /\ \A b \in index[p] + 1 .. a - 1 :
                    view[p].act[b] \in FinishedActionStates
            /\ index' = [index EXCEPT ![p] = a]
            /\ IF view[p].act[a] # "PLANNED" \/ deadlinePassed
               THEN StopIncident(p, "REVIEW_REQUIRED")
               ELSE Goto(p, "renew1") /\ UNCHANGED view
    /\ UNCHANGED <<storeVars, blocker, execVars, decision>>

RenewBeforeObservation(p) ==
    /\ pc[p] = "renew1"
    /\ RenewThen(p, "observe")
    /\ UNCHANGED <<blocker, execVars, view, index, decision>>

\* Mutant: a changed target is put aside for later and the batch goes on.
ObserveGoesOn(p) ==
    LET a == index[p] IN
    /\ pc[p] = "observe"
    /\ \E sight \in Sights(a) :
            CASE sight \in {"reused", "new_waiters", "outside_policy"} ->
                    FinishAction(p, a, "REAPPROVAL_REQUIRED")
              [] sight = "absent" -> FinishAction(p, a, "SKIPPED_RESOLVED")
              [] sight = "actionable" -> Goto(p, "gate1") /\ UNCHANGED view
    /\ UNCHANGED <<storeVars, blocker, execVars, index, decision>>

Observe(p) ==
    LET a == index[p] IN
    /\ pc[p] = "observe"
    /\ \/ MayBeTruncated /\ StopIncident(p, "REVIEW_REQUIRED")
       \/ \E sight \in Sights(a) :
            CASE sight = "reused" -> StopAction(p, a, "STALE_IDENTITY")
              [] sight \in {"new_waiters", "outside_policy"} ->
                    StopAction(p, a, "REAPPROVAL_REQUIRED")
              [] sight = "absent" -> FinishAction(p, a, "SKIPPED_RESOLVED")
              [] sight = "actionable" -> Goto(p, "gate1") /\ UNCHANGED view
    /\ UNCHANGED <<storeVars, blocker, execVars, index, decision>>

\* A gate samples the clock: deadline first, then the approval of the copy.
\* Closed(p) is what the pass does when it does not get through.
GateOpen(p) == ~deadlinePassed /\ ApprovalIsLive(view[p].approval)

\* Mutant: a closed gate just ends the pass.
ClosedUnrecorded(p) == Goto(p, "release") /\ UNCHANGED view

Closed(p) ==
    StopIncident(p, IF deadlinePassed THEN "REVIEW_REQUIRED"
                                      ELSE "AWAITING_REAPPROVAL")

GateBeforeRenewal(p) ==
    /\ pc[p] = "gate1"
    /\ IF GateOpen(p) THEN Goto(p, "renew2") /\ UNCHANGED view ELSE Closed(p)
    /\ UNCHANGED <<storeVars, blocker, execVars, index, decision>>

RenewBeforeIntent(p) ==
    /\ pc[p] = "renew2"
    /\ RenewThen(p, "gate2")
    /\ UNCHANGED <<blocker, execVars, view, index, decision>>

\* Through the second gate, the pass records its intent to execute.
GateBeforeIntent(p) ==
    /\ pc[p] = "gate2"
    /\ IF GateOpen(p)
       THEN CheckpointThen(p, [view[p] EXCEPT !.act[index[p]] = "EXECUTING"],
                           "execute")
       ELSE Closed(p)
    /\ UNCHANGED <<storeVars, blocker, execVars, index, decision>>

\* Mutant: the pass does not wait for its executor.
ExecuteUnawaited(p) ==
    /\ pc[p] = "execute"
    /\ BeginExecution(p, index[p], view[p].approval)
    /\ Goto(p, "step")
    /\ UNCHANGED <<storeVars, blocker, histVars, view, index, decision>>

Execute(p) ==
    /\ pc[p] = "execute"
    /\ BeginExecution(p, index[p], view[p].approval)
    /\ Goto(p, "executing")
    /\ UNCHANGED <<storeVars, blocker, histVars, view, index, decision>>

\* The executor has returned: the pass loads the incident before it looks.
ExecutorReturns(p) ==
    /\ pc[p] = "executing"
    /\ exec[p].at = "returned"
    /\ LoadThen(p, "interpret")
    /\ UNCHANGED <<storeVars, blocker, execVars, view, index, decision>>

\* A refusal of an intent nobody claimed goes back for approval; an intent not
\* claimed otherwise is in doubt; a claimed one has its result recorded; and an
\* action in any other state makes the pass raise.
Interpret(p) ==
    LET a == index[p]
        act == view[p].act[a]
        result == exec[p].result
    IN
    /\ pc[p] = "interpret"
    /\ CASE act = "EXECUTING" /\ result = "REFUSED" ->
                CheckpointThen(p, [view[p] EXCEPT !.act[a] = "PLANNED",
                                       !.state = "AWAITING_REAPPROVAL"],
                               "release")
         [] act = "EXECUTING" /\ result # "REFUSED" -> StopAction(p, a, "IN_DOUBT")
         [] act = "APPLYING" ->
                CheckpointThen(p, [view[p] EXCEPT !.act[a] = "RESULT_RECORDED",
                                                  !.result[a] = result],
                               "recorded")
         [] OTHER -> Goto(p, "release") /\ UNCHANGED view
    /\ UNCHANGED <<storeVars, blocker, execVars, index, decision>>

\* The exception branch of the call: what was intended or claimed is in doubt.
Raised(p) ==
    LET a == index[p] IN
    /\ pc[p] = "raised"
    /\ IF view[p].act[a] \in {"EXECUTING", "APPLYING"}
       THEN StopAction(p, a, "IN_DOUBT")
       ELSE Goto(p, "release") /\ UNCHANGED view
    /\ UNCHANGED <<storeVars, blocker, execVars, index, decision>>

\* Mutant: whatever the result, the lock graph decides.
RecordedUnread(p) ==
    /\ pc[p] = "recorded"
    /\ Goto(p, "verify")
    /\ UNCHANGED <<storeVars, blocker, execVars, view, index, decision>>

Recorded(p) ==
    /\ pc[p] = "recorded"
    /\ IF exec[p].result = "CONFIRMED"
       THEN Goto(p, "verify") /\ UNCHANGED view
       ELSE StopAction(p, index[p], "FAILED")
    /\ UNCHANGED <<storeVars, blocker, execVars, index, decision>>

Verify(p) ==
    LET a == index[p] IN
    /\ pc[p] = "verify"
    /\ \/ MayBeTruncated /\ StopAction(p, a, "INCONCLUSIVE")
       \/ \E sight \in Sights(a) :
            IF sight \in ExactSights
            THEN StopAction(p, a, "INCONCLUSIVE")
            ELSE FinishAction(p, a, "SUCCEEDED")
    /\ UNCHANGED <<storeVars, blocker, execVars, index, decision>>

-----------------------------------------------------------------------------
(* The end of a pass *)

\* The final snapshot: approved targets that remain need review; a row of any
\* other target, a reused PID among them, is an unapproved remainder.
Final(p) ==
    /\ pc[p] = "final"
    /\ \/ MayBeTruncated /\ StopIncident(p, "REVIEW_REQUIRED")
       \/ \E snapshot \in Snapshots :
            CASE \E a \in Actions : snapshot[a] \in ExactSights ->
                    StopIncident(p, "REVIEW_REQUIRED")
              [] \A a \in Actions : snapshot[a] \notin ExactSights ->
                    \/ StopIncident(p, "COMPLETED_WITH_UNAPPROVED_REMAINDER")
                    \/ /\ \A a \in Actions : snapshot[a] = "absent"
                       /\ StopIncident(p, "COMPLETED")
    /\ UNCHANGED <<storeVars, blocker, execVars, index, decision>>

\* _checkpoint. What a pass that ends reads back is thrown away.
Checkpoint(p) ==
    /\ pc[p] = "checkpoint"
    /\ \/ /\ SaveIncident(p, view[p])
          /\ IF next[p] = "release" THEN Goto(p, "release")
                                    ELSE LoadThen(p, next[p])
       \/ ~CanSave(p, view[p]) /\ Goto(p, "release") /\ UNCHANGED storeVars
    /\ UNCHANGED <<blocker, execVars, view, index, decision>>

Load(p) ==
    /\ pc[p] = "load"
    /\ LoadIncident(p)
    /\ view' = [view EXCEPT ![p] = row]
    /\ Goto(p, next[p])
    /\ UNCHANGED <<blocker, execVars, index, decision>>

Release(p) ==
    /\ pc[p] = "release"
    /\ ReleaseLease(p)
    /\ End(p, "done")
    /\ UNCHANGED <<blocker, execVars, decision>>

-----------------------------------------------------------------------------
(* Disturbances *)

Ended == {"done", "crashed"}

\* The process dies: the lease stays as it is until it expires.
PassCrash(p) ==
    /\ "crash" \in Faults
    /\ pc[p] \notin Ended \cup {"start"}
    /\ End(p, "crashed")
    /\ UNCHANGED <<storeVars, blocker, histVars, decision>>

\* The pass is not yet in the try block whose finally releases the lease.
LeaseUnguarded(p) ==
    \/ pc[p] \in {"prompt", "acquire"}
    \/ pc[p] = "load" /\ next[p] = "admit"

\* An observation or a transaction raises, or the operator interrupts the pass.
PassInterrupt(p) ==
    /\ "interrupt" \in Faults
    /\ pc[p] \notin Ended \cup {"start", "release"}
    /\ IF LeaseUnguarded(p)
       THEN End(p, "done")
       ELSE Goto(p, "release") /\ UNCHANGED <<view, index>>
    /\ UNCHANGED <<storeVars, blocker, histVars, decision>>

\* The executor runs in the process of its pass and stops with it; a statement
\* already sent runs to its end in PostgreSQL without its client.
AbandonExecution(p) ==
    IF exec[p].at = "send" THEN UNCHANGED exec
                           ELSE exec' = [exec EXCEPT ![p] = NoExecution]

Crash(p) == PassCrash(p) /\ AbandonExecution(p)

Interrupt(p) == PassInterrupt(p) /\ AbandonExecution(p)

Clock ==
    \/ "lease" \in Faults /\ LeaseExpires
    \/ "expiry" \in Faults /\ \E p \in Passes : ApprovalExpires(p)
    \/ "expiry" \in Faults /\ DeadlinePasses

Sessions == \E a \in Actions : BlockerEnds(a) \/ BlockerPidReused(a)

Environment ==
    \/ Clock /\ UNCHANGED <<blocker, execVars, passVars>>
    \/ Sessions /\ UNCHANGED <<storeVars, execVars, passVars>>

-----------------------------------------------------------------------------

\* What a pass does by itself, its call of the executor and the operator's
\* answer excepted.
WorkflowStep(p) ==
    \/ Start(p)
    \/ Acquire(p)
    \/ Admit(p)
    \/ Enter(p)
    \/ Reconcile(p)
    \/ Step(p)
    \/ RenewBeforeObservation(p)
    \/ Observe(p)
    \/ GateBeforeRenewal(p)
    \/ RenewBeforeIntent(p)
    \/ GateBeforeIntent(p)
    \/ Interpret(p)
    \/ Recorded(p)
    \/ Verify(p)
    \/ Final(p)
    \/ Checkpoint(p)
    \/ Load(p)
    \/ Release(p)

PassStep(p) == WorkflowStep(p) \/ Execute(p) \/ ExecutorReturns(p)

Next ==
    \/ \E p \in Passes :
        \/ PassStep(p)
        \/ Prompt(p)
        \/ ExecutorStep(p) /\ UNCHANGED passVars
        \/ Crash(p)
        \/ Interrupt(p)
    \/ Environment

Spec == Init /\ [][Next]_vars

\* The threads of passes and executors are scheduled; nothing makes the operator
\* answer, a session end or the clock reach an expiry.
Fairness ==
    \A p \in Passes :
        /\ WF_vars(PassStep(p))
        /\ WF_vars(ExecutorStep(p) /\ UNCHANGED passVars)

FairSpec == Spec /\ Fairness

-----------------------------------------------------------------------------
(* Safety *)

\* At most one high-risk action is in flight, whatever passes overlap, crash or
\* lose their lease: _reconcile_inflight never meets MULTIPLE_INFLIGHT_ACTIONS.
OneInFlight ==
    \A a, b \in InFlight(row) : a = b

\* The target of an action is sent pg_terminate_backend by one execution at
\* most, however often the incident is resumed.
SingleTermination ==
    \A a \in Actions : \A s, t \in signals[a] : s = t

\* An action that is open for approval or execution again, or that was skipped,
\* has had no signal sent for it ("performed no incident-authorized side
\* effect", incident_workflow.py:1521-1524).
OpenMeansUntouched ==
    \A a \in Actions :
        row.act[a] \in {"PLANNED", "EXECUTING", "SKIPPED_RESOLVED",
                        "REAPPROVAL_REQUIRED"} => signals[a] = {}

\* A signal goes to the approved transaction for the sake of an approved
\* waiter, under an approval an operator gave.
SignalsWithinApproval ==
    \A a \in Actions : \A s \in signals[a] :
        /\ s.waiter = "approved"
        /\ s.approval # NoPass
        /\ decision[s.approval] = "approve"

\* A pass whose operator rejects the batch signals nothing ("rejected batch
\* executes nothing", tests/test_incident_workflow.py:941).
RejectedBatchExecutesNothing ==
    \A a \in Actions : \A s \in signals[a] : decision[s.by] # "reject"

\* SUCCEEDED is claimed of a signalled target that is not there any more.
SucceededMeansTerminated ==
    \A a \in Actions :
        row.act[a] = "SUCCEEDED" => signals[a] # {} /\ blocker[a] # "held"

\* The batch is serial and stops at the first failure: an action leaves PLANNED
\* only when every action before it is finished.
SerialBatch ==
    \A a, b \in Actions :
        a < b /\ row.act[b] # "PLANNED" => row.act[a] \in FinishedActionStates

\* An incident is completed only when all its actions are finished.
CompletedMeansFinished ==
    row.state \in {"COMPLETED", "COMPLETED_WITH_UNAPPROVED_REMAINDER"} =>
        \A a \in Actions : row.act[a] \in FinishedActionStates

\* The pass that owns the lease decides on the incident as it is stored, also
\* after its lease has expired and until another takes it.
DecidingLabels ==
    {"admit", "enter", "reconcile", "step", "renew1", "observe", "gate1",
     "renew2", "gate2", "execute", "interpret", "recorded", "verify", "final"}

OwnerIsCurrent ==
    \A p \in Passes :
        leaseOwner = p /\ pc[p] \in DecidingLabels =>
            view[p] = row /\ p \in fresh

\* The transition tables never refuse a checkpoint of the lease's holder whose
\* copy is current: the workflow asks for legal transitions only.
CheckpointsAreLegal ==
    \A p \in Passes :
        pc[p] = "checkpoint" /\ HoldsLease(p) /\ p \in fresh =>
            CanSave(p, view[p])

\* When no pass is under way and none was disturbed, nothing is left in flight:
\* an incident is not left RUNNING, nor its lease held (runs without "crash",
\* "interrupt" and "lease").
Quiet == \A p \in Passes : pc[p] \in Ended \cup {"start", "prompt"}

QuietMeansSettled ==
    Quiet => InFlight(row) = {} /\ row.state # "RUNNING" /\ leaseOwner = NoPass

\* A pass that has the operator's answer, or needs none, comes to its end,
\* whatever it meets in the store and in the database.
PassReturns ==
    \A p \in Passes : pc[p] = "acquire" ~> pc[p] \in Ended

\* A finished incident is never changed again.
TerminalIsFinal ==
    [][row.state \in TerminalStates => row' = row]_vars

-----------------------------------------------------------------------------
(* Inductive strengthenings of the safety invariants *)

\* The states of an action that was claimed once: no transition leaves them.
DescendedStates ==
    {"APPLYING", "RESULT_RECORDED", "SUCCEEDED", "FAILED", "INCONCLUSIVE",
     "IN_DOUBT", "RECONCILED_RESOLVED", "STALE_IDENTITY"}

\* A claim is possible once per action and a signal once per claim, also by an
\* executor whose pass has lost the lease or gone.
AuthorityInv ==
    /\ \A a \in Actions :
        /\ claims[a] # {} => row.act[a] \in DescendedStates
        /\ \A p, q \in claims[a] : p = q
        /\ \A s \in signals[a] : s.by \in claims[a]
    /\ \A p \in Passes :
        exec[p].at \in {"policy", "send"} =>
            p \in claims[exec[p].act] /\ signals[exec[p].act] = {}
    /\ SingleTermination

\* An approval id anywhere in the system is that of a pass whose operator said
\* yes.
Vouched(id) == id # NoPass => decision[id] = "approve"

ApprovalInv ==
    /\ Vouched(row.approval)
    /\ \A p \in Passes :
        /\ Vouched(view[p].approval)
        /\ Vouched(exec[p].approval)
        /\ pc[p] \in {"start", "prompt"} => decision[p] = "none"
        /\ exec[p].at \in {"policy", "send"} =>
                exec[p].waiter = "approved" /\ exec[p].approval # NoPass
    /\ SignalsWithinApproval

\* Before its claim, an executor runs only while its pass waits for it.
CurrentInv ==
    /\ \A p \in Passes :
        exec[p].at \in {"intent", "validate", "claim"} => pc[p] = "executing"
    /\ OwnerIsCurrent

-----------------------------------------------------------------------------
(* Refinement *)

PhaseOf(state) ==
    CASE state \in AwaitingStates -> "asking"
      [] state = "RUNNING" -> "running"
      [] state \in {"COMPLETED", "COMPLETED_WITH_UNAPPROVED_REMAINDER"} ->
            "completed"
      [] OTHER -> "ended"

OutcomeOf(act) ==
    CASE act \in {"PLANNED", "EXECUTING"} -> "open"
      [] act \in {"APPLYING", "RESULT_RECORDED"} -> "claimed"
      [] act \in FinishedActionStates -> "resolved"
      [] OTHER -> "failed"

Promise == INSTANCE TerminationPromise WITH
    phase <- PhaseOf(row.state),
    outcome <- [a \in Actions |-> OutcomeOf(row.act[a])],
    authority <- {a \in Actions : claims[a] # {}},
    signalled <- {a \in Actions : signals[a] # {}}

\* The passes, their store and their executors together keep the promise.
KeepsPromise == Promise!PromiseSpec

=============================================================================
