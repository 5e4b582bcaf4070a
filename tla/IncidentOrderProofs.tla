-------------------------- MODULE IncidentOrderProofs ---------------------------
(***************************************************************************)
(* The batch of the incident workflow is serial, its successes are true, the *)
(* workflow implements TerminationPromise (every step of the passes, their   *)
(* store and their executors is a step of the promise, or none of its        *)
(* business), and undisturbed passes leave nothing in flight behind.         *)
(***************************************************************************)
EXTENDS IncidentWorkflowProofs

-----------------------------------------------------------------------------
(* The invariant *)

CompletedStates == {"COMPLETED", "COMPLETED_WITH_UNAPPROVED_REMAINDER"}

AllFinished(acts) == \A a \in Actions : acts[a] \in FinishedActionStates

\* The batch is in order as value has it, and ended only when done.
Orderly(value) ==
    /\ \A a, b \in Actions :
        a < b /\ value.act[b] # "PLANNED" =>
            value.act[a] \in FinishedActionStates
    /\ value.state \in CompletedStates => AllFinished(value.act)

\* It is the turn of action a.
Due(value, a) ==
    /\ value.act[a] \in
        {"PLANNED", "EXECUTING", "APPLYING", "RESULT_RECORDED"}
    /\ \A b \in Actions : b < a => value.act[b] \in FinishedActionStates

NoneClaimed(value) ==
    \A a \in Actions : value.act[a] \notin {"APPLYING", "RESULT_RECORDED"}

\* The edits of the incident as a whole: the operator's decision, a stop for
\* review, the way back to the operator, and the end.
StateEdit(old, new) ==
    /\ new.act = old.act
    /\ \/ old.state \in AwaitingStates /\ new.state \in {"RUNNING", "CANCELLED"}
       \/ old.state = "RUNNING" /\ new.state = "REVIEW_REQUIRED"
       \/ /\ old.state = "RUNNING" /\ new.state = "AWAITING_REAPPROVAL"
          /\ NoneClaimed(old)
       \/ /\ old.state = "RUNNING" /\ new.state \in CompletedStates
          /\ AllFinished(old.act)

\* The edits of the action whose turn it is: it goes on, it fails and the batch
\* stops, or its intent is withdrawn and the operator asked again.
ActionEdit(old, new, a) ==
    /\ old.state = "RUNNING"
    /\ Due(old, a)
    /\ \E act \in ActionTransitions(old.act[a]) \ {old.act[a]} :
        /\ new.act = [old.act EXCEPT ![a] = act]
        /\ \/ /\ act \in FinishedActionStates \cup {"EXECUTING", "RESULT_RECORDED"}
              /\ new.state = "RUNNING"
           \/ /\ act \in {"STALE_IDENTITY", "REAPPROVAL_REQUIRED", "FAILED",
                          "INCONCLUSIVE", "IN_DOUBT"}
              /\ new.state = "REVIEW_REQUIRED"
           \/ /\ act = "PLANNED"
              /\ new.state = "AWAITING_REAPPROVAL"

Edit(old, new) ==
    StateEdit(old, new) \/ \E a \in Actions : ActionEdit(old, new, a)

\* What a pass at label, that is the owner of the lease, may rely on in value.
Fits(p, label, value) ==
    /\ label \in {"admit", "enter"} => value.state \in ActiveIncidentStates
    /\ label \in {"admit", "enter", "reconcile"} => index[p] = 0
    /\ label \in (DecidingLabels \ {"admit", "enter"}) \cup {"executing"} =>
            value.state = "RUNNING"
    /\ label = "step" =>
            \A b \in Actions :
                b <= index[p] => value.act[b] \in FinishedActionStates
    /\ label \in {"renew1", "observe", "gate1", "renew2", "gate2"} =>
            Due(value, index[p]) /\ value.act[index[p]] = "PLANNED"
    /\ label \in {"execute", "executing", "interpret"} =>
            value.act[index[p]] \in {"EXECUTING", "APPLYING"}
    /\ label \in {"recorded", "verify"} =>
            value.act[index[p]] = "RESULT_RECORDED"
    /\ label = "final" => AllFinished(value.act)

\* Between the choice of an action and its intent.
Choosing(p) == pc[p] \in {"renew1", "observe", "gate1", "renew2", "gate2"}

\* The owner's place in its code fits the stored incident, and what it is about
\* to save is an edit of that.
Placed(p) ==
    /\ pc[p] \in DecidingLabels \cup {"executing"} => Fits(p, pc[p], row)
    /\ pc[p] = "load" => Fits(p, next[p], row)
    /\ pc[p] = "checkpoint" => Edit(row, view[p]) /\ Fits(p, next[p], view[p])

OrderInv ==
    /\ Orderly(row)
    /\ \A p \in Passes : pc[p] \in {"start", "prompt", "acquire"} => index[p] = 0
    /\ \A p \in Passes : leaseOwner = p => Placed(p)

-----------------------------------------------------------------------------
(* Success *)

Terminated(a) == signals[a] # {} /\ blocker[a] # "held"

\* The successes value holds, and those it is about to, are of terminated
\* targets.
Truthful(value) ==
    \A a \in Actions :
        value.act[a] = "SUCCEEDED"
        \/ (value.act[a] = "RESULT_RECORDED" /\ value.result[a] = "CONFIRMED")
            => Terminated(a)

\* Past its call, a pass has the result of the action it is at.
PastCall(p) ==
    \/ pc[p] \in {"interpret", "recorded", "verify"}
    \/ pc[p] \in {"load", "checkpoint"} /\ next[p] \in {"interpret", "recorded"}

SuccessInv ==
    /\ Truthful(row)
    /\ \A p \in Passes :
        /\ exec[p].at = "verify" \/ exec[p].result = "CONFIRMED" =>
                Terminated(exec[p].act)
        /\ pc[p] = "executing" => exec[p].act = index[p]
        /\ PastCall(p) => exec[p].at = "returned" /\ exec[p].act = index[p]
        /\ pc[p] = "verify" => exec[p].result = "CONFIRMED"
        /\ leaseOwner = p /\ pc[p] = "checkpoint" => Truthful(view[p])

-----------------------------------------------------------------------------
(* Edits *)

\* What is in flight, or planned next to nothing unfinished, is due.
LEMMA InFlightIsDue ==
  ASSUME NEW value \in Incident, Orderly(value), NEW a \in Actions,
         value.act[a] \in InFlightStates
  PROVE  Due(value, a)
  BY DEF Orderly, Due, InFlightStates

\* An edit is legal for both tables, of an incident that goes on, and leaves the
\* batch in order.
LEMMA EditIsLegal ==
  ASSUME NEW old \in Incident, NEW new \in Incident, Orderly(old),
         Edit(old, new)
  PROVE  /\ Orderly(new)
         /\ old.state \in ActiveIncidentStates
         /\ new.state \in IncidentTransitions(old.state)
         /\ \A b \in Actions : new.act[b] \in ActionTransitions(old.act[b])
<1>a. /\ old.act \in [Actions -> ActionStates]
      /\ \A b \in Actions : old.act[b] \in ActionTransitions(old.act[b])
  BY DEF Incident, ActionTransitions
<1>1. CASE StateEdit(old, new)
  BY <1>1, <1>a DEF StateEdit, Orderly, ActiveIncidentStates, AwaitingStates,
                    IncidentTransitions, CompletedStates
<1>2. ASSUME NEW a \in Actions, ActionEdit(old, new, a)
      PROVE  /\ Orderly(new)
             /\ old.state \in ActiveIncidentStates
             /\ new.state \in IncidentTransitions(old.state)
             /\ \A b \in Actions : new.act[b] \in ActionTransitions(old.act[b])
  <2>1. /\ new.act[a] \in ActionTransitions(old.act[a])
        /\ \A b \in Actions \ {a} : new.act[b] = old.act[b]
    BY <1>2, <1>a DEF ActionEdit
  <2>2. /\ old.state = "RUNNING"
        /\ new.state \in {"RUNNING", "REVIEW_REQUIRED", "AWAITING_REAPPROVAL"}
        /\ old.act[a] \notin FinishedActionStates
        /\ \A b \in Actions : b < a => old.act[b] \in FinishedActionStates
    BY <1>2 DEF ActionEdit, Due, FinishedActionStates
  <2>3. ASSUME NEW c \in Actions, NEW d \in Actions, c < d,
               new.act[d] # "PLANNED"
        PROVE  new.act[c] \in FinishedActionStates
    <3>1. CASE d = a
      <4>1. c # a
        BY <2>3, <3>1 DEF Actions
      <4>2. QED
        BY <2>1, <2>2, <2>3, <3>1, <4>1
    <3>2. CASE d # a
      BY <2>1, <2>2, <2>3, <3>2 DEF Orderly
    <3>3. QED
      BY <3>1, <3>2
  <2>4. QED
    BY <2>1, <2>2, <2>3, <1>a DEF Orderly, ActiveIncidentStates,
                                  IncidentTransitions, CompletedStates
<1>3. QED
  BY <1>1, <1>2 DEF Edit

-----------------------------------------------------------------------------
(* The owner keeps its place *)

\* A pass that is about to save an edit, goes on reading, or moves on by itself is
\* in its place if what it relies on is so.
LEMMA PlacedByMove ==
  ASSUME TypeOK, NEW p \in Passes, UNCHANGED row,
         \/ \E label \in Labels \ {"load", "checkpoint"} :
                Goto(p, label) /\ Fits(p, label, row)'
         \/ \E label \in Continuations :
                LoadThen(p, label) /\ Fits(p, label, row)'
         \/ \E value, label :
                /\ CheckpointThen(p, value, label)
                /\ Edit(row, value)
                /\ Fits(p, label, value)'
         \/ \E label \in Ended : End(p, label)
  PROVE  Placed(p)'
<1>a. /\ pc \in [Passes -> Labels] /\ next \in [Passes -> Continuations]
      /\ view \in [Passes -> Incident]
  BY DEF TypeOK
<1>1. ASSUME NEW label \in Labels \ {"load", "checkpoint"}, Goto(p, label),
             Fits(p, label, row)'
      PROVE  Placed(p)'
  <2>1. pc'[p] = label
    BY <1>1, <1>a DEF Goto
  <2>2. QED
    BY <1>1, <2>1 DEF Placed
<1>2. ASSUME NEW label \in Continuations, LoadThen(p, label),
             Fits(p, label, row)'
      PROVE  Placed(p)'
  <2>1. pc'[p] = "load" /\ next'[p] = label
    BY <1>2, <1>a DEF LoadThen
  <2>2. QED
    BY <1>2, <2>1 DEF Placed, DecidingLabels
<1>3. ASSUME NEW value, NEW label, CheckpointThen(p, value, label),
             Edit(row, value), Fits(p, label, value)'
      PROVE  Placed(p)'
  <2>1. pc'[p] = "checkpoint" /\ next'[p] = label /\ view'[p] = value
    BY <1>3, <1>a DEF CheckpointThen
  <2>2. Edit(row', view'[p])
    BY <1>3, <2>1
  <2>3. QED
    BY <1>3, <2>1, <2>2 DEF Placed, DecidingLabels, Edit, StateEdit, ActionEdit,
                            Due, NoneClaimed, AllFinished
<1>4. ASSUME NEW label \in Ended, End(p, label)
      PROVE  Placed(p)'
  BY <1>4, <1>a DEF End, Ended, Placed, DecidingLabels
<1>5. QED
  BY <1>1, <1>2, <1>3, <1>4

\* Stopping the incident as a whole.
LEMMA StopIncidentPlaced ==
  ASSUME TypeOK, NEW p \in Passes, UNCHANGED row, view[p] = row,
         NEW state, StopIncident(p, state),
         \/ row.state \in AwaitingStates /\ state = "CANCELLED"
         \/ row.state = "RUNNING" /\ state = "REVIEW_REQUIRED"
         \/ /\ row.state = "RUNNING" /\ state = "AWAITING_REAPPROVAL"
            /\ NoneClaimed(row)
         \/ /\ row.state = "RUNNING" /\ state \in CompletedStates
            /\ AllFinished(row.act)
  PROVE  Placed(p)'
<1> DEFINE value == [row EXCEPT !.state = state]
<1>1. value.act = row.act /\ value.state = state
  BY DEF TypeOK, StoreTypeOK, Incident
<1>2. Edit(row, value)
  BY <1>1 DEF Edit, StateEdit
<1>3. Fits(p, "release", value)'
  BY DEF Fits, DecidingLabels
<1>4. CheckpointThen(p, value, "release")
  BY DEF StopIncident
<1>5. QED
  BY <1>2, <1>3, <1>4, PlacedByMove

\* Stopping it at a failed action.
LEMMA StopActionPlaced ==
  ASSUME TypeOK, NEW p \in Passes, UNCHANGED row, view[p] = row,
         row.state = "RUNNING", NEW a \in Actions, Due(row, a),
         NEW act \in {"STALE_IDENTITY", "REAPPROVAL_REQUIRED", "FAILED",
                      "INCONCLUSIVE", "IN_DOUBT"},
         act \in ActionTransitions(row.act[a]),
         StopAction(p, a, act)
  PROVE  Placed(p)'
<1> DEFINE value == [row EXCEPT !.act[a] = act, !.state = "REVIEW_REQUIRED"]
<1>1. value.act = [row.act EXCEPT ![a] = act] /\ value.state = "REVIEW_REQUIRED"
  BY DEF TypeOK, StoreTypeOK, Incident
<1>2. act # row.act[a]
  BY DEF Due
<1>3. ActionEdit(row, value, a)
  BY <1>1, <1>2 DEF ActionEdit
<1>4. Fits(p, "release", value)'
  BY DEF Fits, DecidingLabels
<1>5. CheckpointThen(p, value, "release")
  BY DEF StopAction
<1>6. QED
  BY <1>3, <1>4, <1>5, PlacedByMove DEF Edit

\* Finishing an action: the loop goes on behind it.
LEMMA FinishActionPlaced ==
  ASSUME TypeOK, NEW p \in Passes, UNCHANGED <<row, index>>, view[p] = row,
         row.state = "RUNNING", NEW a \in Actions, Due(row, a),
         NEW act \in FinishedActionStates,
         act \in ActionTransitions(row.act[a]),
         \A b \in Actions : b <= index[p] => b <= a,
         FinishAction(p, a, act)
  PROVE  Placed(p)'
<1> DEFINE value == [row EXCEPT !.act[a] = act]
<1>1. value.act = [row.act EXCEPT ![a] = act] /\ value.state = "RUNNING"
      /\ row.act \in [Actions -> ActionStates]
  BY DEF TypeOK, StoreTypeOK, Incident
<1>2. act # row.act[a]
  BY DEF Due, FinishedActionStates
<1>3. ActionEdit(row, value, a)
  BY <1>1, <1>2 DEF ActionEdit
<1>4. \A b \in Actions : b <= index'[p] => value.act[b] \in FinishedActionStates
  <2>1. ASSUME NEW b \in Actions, b <= index'[p], b # a
        PROVE  b < a
    BY <2>1 DEF Actions
  <2>2. QED
    BY <1>1, <2>1 DEF Due
<1>5. Fits(p, "step", value)'
  BY <1>1, <1>4 DEF Fits, DecidingLabels
<1>6. CheckpointThen(p, value, "step")
  BY DEF FinishAction
<1>7. QED
  BY <1>3, <1>5, <1>6, PlacedByMove DEF Edit

\* Renewing the lease changes nothing the pass relies on.
LEMMA RenewPlaced ==
  ASSUME TypeOK, NEW p \in Passes, UNCHANGED index,
         NEW label \in Continuations, RenewThen(p, label), Fits(p, label, row)
  PROVE  Placed(p)'
<1>1. UNCHANGED row
  BY DEF RenewThen, RenewLease, storeVars
<1>2. CASE LoadThen(p, label)
  <2>1. Fits(p, label, row)'
    BY <1>1 DEF Fits, Due, AllFinished
  <2>2. QED
    BY <1>1, <1>2, <2>1, PlacedByMove
<1>3. CASE Goto(p, "release")
  <2>1. Fits(p, "release", row)' /\ "release" \in Labels \ {"load", "checkpoint"}
    BY DEF Fits, DecidingLabels, Labels, Continuations
  <2>2. QED
    BY <1>1, <1>3, <2>1, PlacedByMove
<1>4. QED
  BY <1>2, <1>3 DEF RenewThen

\* Leaving needs nothing.
LEMMA LeavePlaced ==
  ASSUME TypeOK, NEW p \in Passes, UNCHANGED row, Goto(p, "release")
  PROVE  Placed(p)'
<1>1. Fits(p, "release", row)' /\ "release" \in Labels \ {"load", "checkpoint"}
  BY DEF Fits, DecidingLabels, Labels, Continuations
<1>2. QED
  BY <1>1, PlacedByMove

\* Before the loop: admission, and what an earlier pass left in flight.
LEMMA EntryPlaced ==
  ASSUME TypeOK, Orderly(row), NEW p \in Passes, Placed(p),
         pc[p] \in DecidingLabels => view[p] = row,
         Admit(p) \/ Enter(p) \/ Reconcile(p)
  PROVE  Placed(p)'
<1>a. /\ row \in Incident /\ row.act \in [Actions -> ActionStates]
      /\ decision[p] \in {"none", "approve", "reject"}
      /\ index \in [Passes -> 0..N]
  BY DEF TypeOK, StoreTypeOK, Incident
<1>1. CASE Admit(p)
  <2>1. /\ row.state \in ActiveIncidentStates /\ index[p] = 0 /\ view[p] = row
        /\ UNCHANGED <<row, index>>
    BY <1>1 DEF Admit, Placed, Fits, DecidingLabels, storeVars
  <2>2. CASE Goto(p, "enter")
    <3>1. Fits(p, "enter", row)' /\ "enter" \in Labels \ {"load", "checkpoint"}
      BY <2>1 DEF Fits, DecidingLabels, Labels, Continuations
    <3>2. QED
      BY <2>1, <2>2, <3>1, PlacedByMove
  <2>3. CASE StopIncident(p, "CANCELLED") /\ row.state \in AwaitingStates
    BY <2>1, <2>3, StopIncidentPlaced
  <2>4. CASE Goto(p, "release")
    BY <2>1, <2>4, LeavePlaced
  <2>5. CASE /\ CheckpointThen(p, [view[p] EXCEPT !.state = "RUNNING",
                                                  !.approval = p], "enter")
             /\ row.state \in AwaitingStates
    <3> DEFINE value == [row EXCEPT !.state = "RUNNING", !.approval = p]
    <3>1. value.state = "RUNNING" /\ value.act = row.act
      BY <1>a DEF Incident
    <3>2. Edit(row, value)
      BY <2>5, <3>1 DEF Edit, StateEdit
    <3>3. Fits(p, "enter", value)'
      BY <2>1, <3>1 DEF Fits, DecidingLabels, ActiveIncidentStates
    <3>4. QED
      BY <2>1, <2>5, <3>2, <3>3, PlacedByMove
  <2>6. QED
    BY <1>1, <1>a, <2>1, <2>2, <2>3, <2>4, <2>5 DEF Admit
<1>2. CASE Enter(p)
  <2>1. index[p] = 0 /\ view[p] = row /\ UNCHANGED <<index, view>>
    BY <1>2 DEF Enter, Placed, Fits, DecidingLabels
  <2>2. CASE RenewThen(p, "reconcile") /\ row.state = "RUNNING"
    <3>1. Fits(p, "reconcile", row) /\ "reconcile" \in Continuations
      BY <2>1, <2>2 DEF Fits, DecidingLabels, Continuations
    <3>2. QED
      BY <2>1, <2>2, <3>1, RenewPlaced
  <2>3. CASE Goto(p, "release") /\ UNCHANGED storeVars
    BY <2>3, LeavePlaced DEF storeVars
  <2>4. QED
    BY <1>2, <2>1, <2>2, <2>3 DEF Enter
<1>3. CASE Reconcile(p)
  <2>1. /\ row.state = "RUNNING" /\ index[p] = 0 /\ view[p] = row
        /\ UNCHANGED <<row, index>>
    BY <1>3 DEF Reconcile, Placed, Fits, DecidingLabels, storeVars
  <2>2. CASE StopIncident(p, "REVIEW_REQUIRED")
    BY <2>1, <2>2, StopIncidentPlaced
  <2>3. CASE Goto(p, "step")
    <3>1. Fits(p, "step", row)' /\ "step" \in Labels \ {"load", "checkpoint"}
      BY <2>1 DEF Fits, DecidingLabels, Labels, Continuations, Actions
    <3>2. QED
      BY <2>1, <2>3, <3>1, PlacedByMove
  <2>4. ASSUME NEW a \in Actions, row.act[a] \in InFlightStates, NEW sight,
               ReconcileInflight(p, a, sight)
        PROVE  Placed(p)'
    <3>1. Due(row, a) /\ \A b \in Actions : b <= index[p] => b <= a
      BY <1>a, <2>1, <2>4, InFlightIsDue DEF Actions
    <3>2. \/ StopAction(p, a, "FAILED") /\ row.act[a] = "RESULT_RECORDED"
          \/ StopAction(p, a, "INCONCLUSIVE") /\ row.act[a] = "RESULT_RECORDED"
          \/ FinishAction(p, a, "SUCCEEDED") /\ row.act[a] = "RESULT_RECORDED"
          \/ StopAction(p, a, "STALE_IDENTITY") /\ row.act[a] # "RESULT_RECORDED"
          \/ FinishAction(p, a, "RECONCILED_RESOLVED")
                /\ row.act[a] # "RESULT_RECORDED"
          \/ StopAction(p, a, "IN_DOUBT") /\ row.act[a] # "RESULT_RECORDED"
      BY <2>1, <2>4 DEF ReconcileInflight
    <3>3. CASE row.act[a] = "RESULT_RECORDED"
      <4>1. {"FAILED", "INCONCLUSIVE", "SUCCEEDED"}
                \subseteq ActionTransitions(row.act[a])
        BY <3>3 DEF ActionTransitions
      <4>2. QED
        BY <2>1, <3>1, <3>2, <3>3, <4>1, StopActionPlaced, FinishActionPlaced
           DEF FinishedActionStates
    <3>4. CASE row.act[a] \in {"EXECUTING", "APPLYING"}
      <4>1. {"STALE_IDENTITY", "RECONCILED_RESOLVED", "IN_DOUBT"}
                \subseteq ActionTransitions(row.act[a])
        BY <3>4 DEF ActionTransitions
      <4>2. QED
        BY <2>1, <3>1, <3>2, <3>4, <4>1, StopActionPlaced, FinishActionPlaced
           DEF FinishedActionStates
    <3>5. QED
      BY <2>4, <3>3, <3>4 DEF InFlightStates
  <2>5. ASSUME NEW a \in Actions, InFlight(view[p]) = {a}
        PROVE  row.act[a] \in InFlightStates
    BY <2>1, <2>5 DEF InFlight
  <2>6. QED
    BY <1>3, <2>2, <2>3, <2>4, <2>5 DEF Reconcile
<1>4. QED
  BY <1>1, <1>2, <1>3

\* Inside the loop, up to the intent.
LEMMA ChoicePlaced ==
  ASSUME TypeOK, LoopIndexOK, Orderly(row), NEW p \in Passes, Placed(p),
         pc[p] \in DecidingLabels => view[p] = row,
         \/ Step(p) \/ RenewBeforeObservation(p) \/ Observe(p)
         \/ GateBeforeRenewal(p) \/ RenewBeforeIntent(p) \/ GateBeforeIntent(p)
  PROVE  Placed(p)'
<1>a. /\ row \in Incident /\ row.act \in [Actions -> ActionStates]
      /\ index \in [Passes -> 0..N]
  BY DEF TypeOK, StoreTypeOK, Incident
<1>b. Choosing(p) =>
        /\ row.state = "RUNNING" /\ view[p] = row
        /\ index[p] \in Actions
        /\ Due(row, index[p]) /\ row.act[index[p]] = "PLANNED"
        /\ NoneClaimed(row)
  <2> SUFFICES ASSUME Choosing(p)
               PROVE  /\ row.state = "RUNNING" /\ view[p] = row
                      /\ index[p] \in Actions
                      /\ Due(row, index[p]) /\ row.act[index[p]] = "PLANNED"
                      /\ NoneClaimed(row)
    OBVIOUS
  <2>1. /\ row.state = "RUNNING" /\ view[p] = row
        /\ Due(row, index[p]) /\ row.act[index[p]] = "PLANNED"
    BY DEF Choosing, Placed, Fits, DecidingLabels
  <2>2. index[p] \in Actions
    BY DEF Choosing, LoopIndexOK, InLoop, LoopLabels, LoopContinuations
  <2>3. ASSUME NEW b \in Actions
        PROVE  row.act[b] \in FinishedActionStates \cup {"PLANNED"}
    BY <2>1, <2>2, <2>3 DEF Orderly, Due, Actions, FinishedActionStates
  <2>4. QED
    BY <2>1, <2>2, <2>3 DEF NoneClaimed, FinishedActionStates
<1>1. CASE Step(p)
  <2>1. /\ row.state = "RUNNING" /\ view[p] = row /\ UNCHANGED row
        /\ \A b \in Actions : b <= index[p] => row.act[b] \in FinishedActionStates
    BY <1>1 DEF Step, Placed, Fits, DecidingLabels, storeVars
  <2>2. CASE /\ \A a \in index[p] + 1 .. N : row.act[a] \in FinishedActionStates
             /\ Goto(p, "final")
    <3>1. AllFinished(row.act)
      BY <1>a, <2>1, <2>2, NAssumption DEF AllFinished, Actions
    <3>2. Fits(p, "final", row)' /\ "final" \in Labels \ {"load", "checkpoint"}
      BY <2>1, <3>1 DEF Fits, DecidingLabels, Labels, Continuations, AllFinished
    <3>3. QED
      BY <2>1, <2>2, <3>2, PlacedByMove
  <2>3. CASE StopIncident(p, "REVIEW_REQUIRED")
    BY <2>1, <2>3, StopIncidentPlaced
  <2>4. ASSUME NEW a \in index[p] + 1 .. N,
               \A b \in index[p] + 1 .. a - 1 :
                    row.act[b] \in FinishedActionStates,
               row.act[a] = "PLANNED",
               index' = [index EXCEPT ![p] = a],
               Goto(p, "renew1")
        PROVE  Placed(p)'
    <3>1. a \in Actions /\ index'[p] = a
      BY <1>a, <2>4, NAssumption DEF Actions
    <3>2. \A b \in Actions : b < a => row.act[b] \in FinishedActionStates
      BY <1>a, <2>1, <2>4, <3>1, NAssumption DEF Actions
    <3>3. Due(row, a)
      BY <2>4, <3>2 DEF Due
    <3>4. Fits(p, "renew1", row)'
      BY <2>1, <2>4, <3>1, <3>3 DEF Fits, DecidingLabels, Due
    <3>5. "renew1" \in Labels \ {"load", "checkpoint"}
      BY DEF Labels, Continuations
    <3>6. QED
      BY <2>1, <2>4, <3>4, <3>5, PlacedByMove
  <2>5. QED
    BY <1>1, <2>1, <2>2, <2>3, <2>4 DEF Step
<1>2. CASE RenewBeforeObservation(p) \/ RenewBeforeIntent(p)
  <2>1. Choosing(p) /\ UNCHANGED index
    BY <1>2 DEF RenewBeforeObservation, RenewBeforeIntent, Choosing
  <2>2. /\ Fits(p, "observe", row) /\ Fits(p, "gate2", row)
        /\ "observe" \in Continuations /\ "gate2" \in Continuations
    BY <1>b, <2>1 DEF Fits, DecidingLabels, Continuations
  <2>3. QED
    BY <1>2, <2>1, <2>2, RenewPlaced
       DEF RenewBeforeObservation, RenewBeforeIntent
<1>3. CASE Observe(p)
  <2> DEFINE a == index[p]
  <2>1. Choosing(p) /\ UNCHANGED <<row, index>>
    BY <1>3 DEF Observe, Choosing, storeVars
  <2>2. Sights(a) \subseteq
            {"absent", "reused", "outside_policy", "new_waiters", "actionable"}
    BY <1>3, SightsType DEF Observe
  <2>3. {"STALE_IDENTITY", "REAPPROVAL_REQUIRED", "SKIPPED_RESOLVED"}
            \subseteq ActionTransitions(row.act[a])
    BY <1>b, <2>1 DEF ActionTransitions
  <2>4. \/ StopIncident(p, "REVIEW_REQUIRED")
        \/ StopAction(p, a, "STALE_IDENTITY")
        \/ StopAction(p, a, "REAPPROVAL_REQUIRED")
        \/ FinishAction(p, a, "SKIPPED_RESOLVED")
        \/ Goto(p, "gate1")
    BY <1>3, <2>2 DEF Observe
  <2>5. CASE StopIncident(p, "REVIEW_REQUIRED")
    BY <1>b, <2>1, <2>5, StopIncidentPlaced
  <2>6. CASE \/ StopAction(p, a, "STALE_IDENTITY")
             \/ StopAction(p, a, "REAPPROVAL_REQUIRED")
    BY <1>b, <2>1, <2>3, <2>6, StopActionPlaced
  <2>7. CASE FinishAction(p, a, "SKIPPED_RESOLVED")
    BY <1>b, <2>1, <2>3, <2>7, FinishActionPlaced DEF FinishedActionStates
  <2>8. CASE Goto(p, "gate1")
    <3>1. Fits(p, "gate1", row)' /\ "gate1" \in Labels \ {"load", "checkpoint"}
      BY <1>b, <2>1 DEF Fits, DecidingLabels, Labels, Continuations, Due
    <3>2. QED
      BY <2>1, <2>8, <3>1, PlacedByMove
  <2>9. QED
    BY <2>4, <2>5, <2>6, <2>7, <2>8
<1>4. ASSUME Choosing(p), UNCHANGED row, Closed(p)
      PROVE  Placed(p)'
  <2>1. \/ StopIncident(p, "REVIEW_REQUIRED")
        \/ StopIncident(p, "AWAITING_REAPPROVAL")
    BY <1>4 DEF Closed
  <2>2. QED
    BY <1>b, <1>4, <2>1, StopIncidentPlaced
<1>5. CASE GateBeforeRenewal(p)
  <2>1. Choosing(p) /\ UNCHANGED <<row, index>>
    BY <1>5 DEF GateBeforeRenewal, Choosing, storeVars
  <2>2. CASE Goto(p, "renew2")
    <3>1. Fits(p, "renew2", row)' /\ "renew2" \in Labels \ {"load", "checkpoint"}
      BY <1>b, <2>1 DEF Fits, DecidingLabels, Labels, Continuations, Due
    <3>2. QED
      BY <2>1, <2>2, <3>1, PlacedByMove
  <2>3. QED
    BY <1>4, <1>5, <2>1, <2>2 DEF GateBeforeRenewal
<1>6. CASE GateBeforeIntent(p)
  <2> DEFINE a == index[p]
             value == [row EXCEPT !.act[a] = "EXECUTING"]
  <2>1. Choosing(p) /\ UNCHANGED <<row, index>>
    BY <1>6 DEF GateBeforeIntent, Choosing, storeVars
  <2>2. CASE CheckpointThen(p, value, "execute")
    <3>1. value.act = [row.act EXCEPT ![a] = "EXECUTING"]
          /\ value.state = "RUNNING"
      BY <1>a, <1>b, <2>1 DEF Incident
    <3>2. ActionEdit(row, value, a)
      BY <1>b, <2>1, <3>1 DEF ActionEdit, ActionTransitions
    <3>3. Fits(p, "execute", value)'
      BY <1>a, <1>b, <2>1, <3>1 DEF Fits, DecidingLabels
    <3>4. QED
      BY <1>b, <2>1, <2>2, <3>2, <3>3, PlacedByMove DEF Edit
  <2>3. QED
    BY <1>4, <1>6, <1>b, <2>1, <2>2 DEF GateBeforeIntent
<1>7. QED
  BY <1>1, <1>2, <1>3, <1>5, <1>6

\* From the intent to the end of the batch.
LEMMA ResultPlaced ==
  ASSUME TypeOK, LoopIndexOK, Orderly(row), NEW p \in Passes, Placed(p),
         pc[p] \in DecidingLabels => view[p] = row,
         \/ Execute(p) \/ ExecutorReturns(p) \/ Interpret(p) \/ Recorded(p)
         \/ Verify(p) \/ Final(p)
  PROVE  Placed(p)'
<1> DEFINE a == index[p]
<1>a. /\ row \in Incident /\ row.act \in [Actions -> ActionStates]
      /\ row.result \in [Actions -> Results \cup {"NONE"}]
      /\ index \in [Passes -> 0..N]
      /\ UNCHANGED <<row, index>>
  BY DEF TypeOK, StoreTypeOK, Incident, Execute, ExecutorReturns, Interpret,
         Recorded, Verify, Final, storeVars
<1>b. ASSUME NEW act \in InFlightStates, row.act[a] = act, a \in Actions
      PROVE  Due(row, a)
  BY <1>a, <1>b, InFlightIsDue
<1>c. pc[p] \in {"execute", "executing", "interpret", "recorded", "verify"} =>
        a \in Actions /\ row.state = "RUNNING"
  BY DEF LoopIndexOK, InLoop, LoopLabels, LoopContinuations, Placed, Fits,
         DecidingLabels
<1>1. CASE Execute(p)
  <2>1. pc[p] = "execute" /\ Goto(p, "executing")
    BY <1>1 DEF Execute
  <2>2. Fits(p, "executing", row)'
    BY <1>a, <1>c, <2>1 DEF Placed, Fits, DecidingLabels
  <2>3. "executing" \in Labels \ {"load", "checkpoint"}
    BY DEF Labels, Continuations
  <2>4. QED
    BY <1>a, <2>1, <2>2, <2>3, PlacedByMove
<1>2. CASE ExecutorReturns(p)
  <2>1. pc[p] = "executing" /\ LoadThen(p, "interpret")
    BY <1>2 DEF ExecutorReturns
  <2>2. Fits(p, "interpret", row)' /\ "interpret" \in Continuations
    BY <1>a, <1>c, <2>1 DEF Placed, Fits, DecidingLabels, Continuations
  <2>3. QED
    BY <1>a, <2>1, <2>2, PlacedByMove
<1>3. CASE Interpret(p)
  <2>1. /\ pc[p] = "interpret" /\ view[p] = row
        /\ row.act[a] \in {"EXECUTING", "APPLYING"}
    BY <1>3 DEF Interpret, Placed, Fits, DecidingLabels
  <2>2. Due(row, a) /\ a \in Actions /\ row.state = "RUNNING"
    BY <1>b, <1>c, <2>1 DEF InFlightStates
  <2>3. CASE StopAction(p, a, "IN_DOUBT")
    <3>1. "IN_DOUBT" \in ActionTransitions(row.act[a])
      BY <2>1 DEF ActionTransitions
    <3>2. QED
      BY <1>a, <2>1, <2>2, <2>3, <3>1, StopActionPlaced
  <2>4. CASE /\ row.act[a] = "EXECUTING"
             /\ CheckpointThen(p, [row EXCEPT !.act[a] = "PLANNED",
                                      !.state = "AWAITING_REAPPROVAL"],
                               "release")
    <3> DEFINE value == [row EXCEPT !.act[a] = "PLANNED",
                                    !.state = "AWAITING_REAPPROVAL"]
    <3>1. value.act = [row.act EXCEPT ![a] = "PLANNED"]
          /\ value.state = "AWAITING_REAPPROVAL"
      BY <1>a DEF Incident
    <3>2. "PLANNED" \in ActionTransitions(row.act[a]) \ {row.act[a]}
      BY <2>4 DEF ActionTransitions
    <3>3. ActionEdit(row, value, a)
      BY <2>2, <3>1, <3>2 DEF ActionEdit
    <3>4. Fits(p, "release", value)'
      BY DEF Fits, DecidingLabels
    <3>5. QED
      BY <1>a, <2>2, <2>4, <3>3, <3>4, PlacedByMove DEF Edit
  <2>5. CASE /\ row.act[a] = "APPLYING"
             /\ CheckpointThen(p, [row EXCEPT !.act[a] = "RESULT_RECORDED",
                                      !.result[a] = exec[p].result],
                               "recorded")
    <3>1. PICK value : value = [row EXCEPT !.act[a] = "RESULT_RECORDED",
                                           !.result[a] = exec[p].result]
      OBVIOUS
    <3>2. value.act = [row.act EXCEPT ![a] = "RESULT_RECORDED"]
          /\ value.state = "RUNNING"
      BY <1>a, <2>2, <3>1 DEF Incident
    <3>3. "RESULT_RECORDED" \in ActionTransitions(row.act[a]) \ {row.act[a]}
      BY <2>5 DEF ActionTransitions
    <3>4. Edit(row, value)
      BY <2>2, <3>2, <3>3 DEF Edit, ActionEdit
    <3>5. Fits(p, "recorded", value)'
      BY <1>a, <2>2, <3>2 DEF Fits, DecidingLabels
    <3>6. CheckpointThen(p, value, "recorded")
      BY <2>5, <3>1
    <3>7. QED
      BY <1>a, <3>4, <3>5, <3>6, PlacedByMove
  <2>6. \/ /\ row.act[a] = "EXECUTING"
           /\ CheckpointThen(p, [row EXCEPT !.act[a] = "PLANNED",
                                    !.state = "AWAITING_REAPPROVAL"],
                             "release")
        \/ StopAction(p, a, "IN_DOUBT")
        \/ /\ row.act[a] = "APPLYING"
           /\ CheckpointThen(p, [row EXCEPT !.act[a] = "RESULT_RECORDED",
                                    !.result[a] = exec[p].result],
                             "recorded")
    BY <1>3, <2>1 DEF Interpret
  <2>7. QED
    BY <2>3, <2>4, <2>5, <2>6
<1>4. CASE Recorded(p) \/ Verify(p)
  <2>1. /\ pc[p] \in {"recorded", "verify"} /\ view[p] = row
        /\ row.act[a] = "RESULT_RECORDED"
    BY <1>4 DEF Recorded, Verify, Placed, Fits, DecidingLabels
  <2>2. Due(row, a) /\ a \in Actions /\ row.state = "RUNNING"
    BY <1>b, <1>c, <2>1 DEF InFlightStates
  <2>3. {"FAILED", "INCONCLUSIVE", "SUCCEEDED"} \subseteq ActionTransitions(row.act[a])
    BY <2>1 DEF ActionTransitions
  <2>4. CASE StopAction(p, a, "FAILED") \/ StopAction(p, a, "INCONCLUSIVE")
    BY <1>a, <2>1, <2>2, <2>3, <2>4, StopActionPlaced
  <2>5. CASE FinishAction(p, a, "SUCCEEDED")
    BY <1>a, <2>1, <2>2, <2>3, <2>5, FinishActionPlaced DEF FinishedActionStates
  <2>6. CASE Goto(p, "verify")
    <3>1. Fits(p, "verify", row)' /\ "verify" \in Labels \ {"load", "checkpoint"}
      BY <1>a, <2>1, <2>2 DEF Fits, DecidingLabels, Labels, Continuations
    <3>2. QED
      BY <1>a, <2>6, <3>1, PlacedByMove
  <2>7. CASE Recorded(p)
    BY <2>4, <2>6, <2>7 DEF Recorded
  <2>8. CASE Verify(p)
    BY <2>4, <2>5, <2>8 DEF Verify
  <2>9. QED
    BY <1>4, <2>7, <2>8
<1>5. CASE Final(p)
  <2>1. row.state = "RUNNING" /\ AllFinished(row.act) /\ view[p] = row
    BY <1>5 DEF Final, Placed, Fits, DecidingLabels
  <2>2. \/ StopIncident(p, "REVIEW_REQUIRED")
        \/ StopIncident(p, "COMPLETED_WITH_UNAPPROVED_REMAINDER")
        \/ StopIncident(p, "COMPLETED")
    BY <1>5 DEF Final
  <2>3. QED
    BY <1>a, <2>1, <2>2, StopIncidentPlaced DEF CompletedStates
<1>6. QED
  BY <1>1, <1>2, <1>3, <1>4, <1>5

\* A pass that owns the lease after its step is in its place.
LEMMA OwnerPlaced ==
  ASSUME TypeOK, LoopIndexOK, Orderly(row), NEW p \in Passes,
         pc[p] = "acquire" => index[p] = 0,
         leaseOwner = p =>
            Placed(p) /\ (pc[p] \in DecidingLabels => view[p] = row),
         PassStep(p), leaseOwner' = p
  PROVE  Placed(p)'
<1>a. /\ pc \in [Passes -> Labels] /\ next \in [Passes -> Continuations]
      /\ view \in [Passes -> Incident] /\ index \in [Passes -> 0..N]
  BY DEF TypeOK
<1>1. CASE Start(p)
  <2>1. pc'[p] \in {"done", "prompt", "acquire"}
    BY <1>1, <1>a DEF Start, End, Goto
  <2>2. QED
    BY <2>1 DEF Placed, DecidingLabels
<1>2. CASE Acquire(p)
  <2>1. CASE AcquireLease(p) /\ LoadThen(p, "admit") /\ UNCHANGED index
    <3>1. UNCHANGED row /\ row.state \in ActiveIncidentStates
      BY <2>1 DEF AcquireLease, CanAcquire
    <3>2. index[p] = 0
      BY <1>2 DEF Acquire
    <3>3. Fits(p, "admit", row)' /\ "admit" \in Continuations
      BY <2>1, <3>1, <3>2 DEF Fits, DecidingLabels, Continuations
    <3>4. QED
      BY <2>1, <3>1, <3>3, PlacedByMove
  <2>2. CASE End(p, "done") /\ UNCHANGED storeVars
    BY <2>2, PlacedByMove DEF storeVars, Ended
  <2>3. QED
    BY <1>2, <2>1, <2>2 DEF Acquire
<1>3. CASE Admit(p) \/ Enter(p) \/ Reconcile(p)
  <2>1. leaseOwner = p
    BY <1>3 DEF Admit, Enter, Reconcile, RenewThen, RenewLease, storeVars
  <2>2. QED
    BY <1>3, <2>1, EntryPlaced
<1>4. CASE \/ Step(p) \/ RenewBeforeObservation(p) \/ Observe(p)
           \/ GateBeforeRenewal(p) \/ RenewBeforeIntent(p) \/ GateBeforeIntent(p)
  <2>1. leaseOwner = p
    BY <1>4 DEF Step, RenewBeforeObservation, Observe, GateBeforeRenewal,
                RenewBeforeIntent, GateBeforeIntent, RenewThen, RenewLease,
                storeVars
  <2>2. QED
    BY <1>4, <2>1, ChoicePlaced
<1>5. CASE \/ Execute(p) \/ ExecutorReturns(p) \/ Interpret(p) \/ Recorded(p)
           \/ Verify(p) \/ Final(p)
  <2>1. leaseOwner = p
    BY <1>5 DEF Execute, ExecutorReturns, Interpret, Recorded, Verify, Final,
                storeVars
  <2>2. QED
    BY <1>5, <2>1, ResultPlaced
<1>6. CASE Checkpoint(p)
  <2>1. pc[p] = "checkpoint" /\ leaseOwner = p /\ UNCHANGED index
    BY <1>6 DEF Checkpoint, SaveIncident, storeVars
  <2>2. CASE /\ SaveIncident(p, view[p]) /\ LoadThen(p, next[p])
    <3>1. row' = view[p]
      BY <2>2 DEF SaveIncident
    <3>2. Fits(p, next[p], view[p])
      BY <2>1 DEF Placed
    <3>3. Fits(p, next[p], row)'
      BY <1>a, <2>1, <2>2, <3>1, <3>2 DEF Fits, Due, AllFinished, LoadThen
    <3>4. pc'[p] = "load" /\ next'[p] = next[p]
      BY <1>a, <2>2 DEF LoadThen
    <3>5. QED
      BY <3>3, <3>4 DEF Placed, DecidingLabels
  <2>3. CASE Goto(p, "release")
    <3>1. pc'[p] = "release"
      BY <1>a, <2>3 DEF Goto
    <3>2. QED
      BY <3>1 DEF Placed, DecidingLabels
  <2>4. QED
    BY <1>6, <2>2, <2>3 DEF Checkpoint
<1>7. CASE Load(p)
  <2>1. /\ pc[p] = "load" /\ leaseOwner = p /\ UNCHANGED <<row, index>>
        /\ Goto(p, next[p])
    BY <1>7 DEF Load, LoadIncident
  <2>2. Fits(p, next[p], row)
    BY <2>1 DEF Placed
  <2>3. pc'[p] = next[p] /\ next[p] \notin {"load", "checkpoint"}
    BY <1>a, <2>1 DEF Goto, Continuations
  <2>4. Fits(p, pc[p], row)'
    BY <2>1, <2>2, <2>3 DEF Fits, Due, AllFinished
  <2>5. QED
    BY <2>3, <2>4 DEF Placed
<1>8. CASE Release(p)
  <2>1. pc'[p] = "done"
    BY <1>8, <1>a DEF Release, End
  <2>2. QED
    BY <2>1 DEF Placed, DecidingLabels
<1>9. QED
  BY <1>1, <1>2, <1>3, <1>4, <1>5, <1>6, <1>7, <1>8 DEF PassStep, WorkflowStep

\* What does not concern a pass leaves it in its place.
LEMMA PlaceKept ==
  ASSUME NEW q \in Passes, Placed(q), row' = row,
         pc'[q] = pc[q], next'[q] = next[q], view'[q] = view[q],
         index'[q] = index[q]
  PROVE  Placed(q)'
<1>1. \A label : Fits(q, label, row) => Fits(q, label, row)'
  BY DEF Fits, Due, AllFinished
<1>2. Fits(q, next[q], view[q]) => Fits(q, next[q], view[q])'
  BY DEF Fits, Due, AllFinished
<1>3. Edit(row, view[q]) => Edit(row', view'[q])
  OBVIOUS
<1>4. CASE pc[q] = "checkpoint"
  BY <1>2, <1>3, <1>4 DEF Placed, DecidingLabels
<1>5. CASE pc[q] # "checkpoint"
  BY <1>1, <1>5 DEF Placed
<1>6. QED
  BY <1>4, <1>5

\* The stored incident changes only where a checkpoint is saved.
LEMMA SavesAtCheckpoint ==
  ASSUME NEW p \in Passes, PassStep(p)
  PROVE  UNCHANGED row \/ (Checkpoint(p) /\ SaveIncident(p, view[p]))
<1> USE DEF storeVars
<1>1. CASE Start(p) \/ Load(p)
  BY <1>1 DEF Start, Load, LoadIncident
<1>2. CASE Acquire(p) \/ Release(p)
  BY <1>2 DEF Acquire, AcquireLease, Release, ReleaseLease
<1>3. CASE Admit(p) \/ Reconcile(p) \/ Step(p) \/ Observe(p)
  BY <1>3 DEF Admit, Reconcile, Step, Observe
<1>4. CASE Enter(p) \/ RenewBeforeObservation(p) \/ RenewBeforeIntent(p)
  BY <1>4 DEF Enter, RenewBeforeObservation, RenewBeforeIntent, RenewThen,
              RenewLease
<1>5. CASE GateBeforeRenewal(p) \/ GateBeforeIntent(p) \/ Execute(p)
  BY <1>5 DEF GateBeforeRenewal, GateBeforeIntent, Execute
<1>6. CASE ExecutorReturns(p) \/ Interpret(p) \/ Recorded(p) \/ Verify(p)
           \/ Final(p)
  BY <1>6 DEF ExecutorReturns, Interpret, Recorded, Verify, Final
<1>7. CASE Checkpoint(p)
  BY <1>7 DEF Checkpoint
<1>8. QED
  BY <1>1, <1>2, <1>3, <1>4, <1>5, <1>6, <1>7 DEF PassStep, WorkflowStep

\* Every step keeps the batch in order and the owner in its place.
LEMMA OrderStep ==
  ASSUME TypeOK, LoopIndexOK, CurrentInv, OrderInv, [Next]_vars
  PROVE  OrderInv'
<1>a. /\ pc \in [Passes -> Labels] /\ index \in [Passes -> 0..N]
      /\ view \in [Passes -> Incident]
      /\ row \in Incident /\ row.act \in [Actions -> ActionStates]
      /\ exec \in [Passes -> Execution]
  BY DEF TypeOK, StoreTypeOK, ExecTypeOK, Incident
<1> DEFINE First(q) == pc[q] \in {"start", "prompt", "acquire"} => index[q] = 0
<1>b. /\ Orderly(row)
      /\ \A q \in Passes : First(q)
      /\ \A q \in Passes : leaseOwner = q => Placed(q)
  BY DEF OrderInv
<1>1. ASSUME NEW p \in Passes, PassStep(p)
      PROVE  OrderInv'
  <2>1. OthersStill(p)
    BY <1>1, PassStepLocal
  <2>2. Orderly(row)'
    <3>1. CASE UNCHANGED row
      BY <1>b, <3>1 DEF Orderly, AllFinished
    <3>2. CASE Checkpoint(p) /\ SaveIncident(p, view[p])
      <4>1. leaseOwner = p /\ pc[p] = "checkpoint" /\ row' = view[p]
        BY <3>2 DEF Checkpoint, SaveIncident, CanSave, HoldsLease
      <4>2. Edit(row, view[p])
        BY <1>b, <4>1 DEF Placed
      <4>3. Orderly(view[p])
        BY <1>a, <1>b, <4>2, EditIsLegal
      <4>4. QED
        BY <4>1, <4>3 DEF Orderly, AllFinished
    <3>3. QED
      BY <1>1, <3>1, <3>2, SavesAtCheckpoint
  <2>3. \A q \in Passes : First(q)'
    BY <1>1, <1>b, <2>1, AsksOnce DEF OthersStill
  <2>4. ASSUME NEW q \in Passes, leaseOwner' = q
        PROVE  Placed(q)'
    <3>1. CASE q = p
      BY <1>1, <1>b, <2>4, <3>1, OwnerPlaced DEF CurrentInv, OwnerIsCurrent
    <3>2. CASE q # p
      <4>1. leaseOwner = q /\ row' = row
        BY <1>1, <2>4, <3>2, OwnerUndisturbed
      <4>2. QED
        BY <1>b, <2>1, <3>2, <4>1, PlaceKept DEF OthersStill
    <3>3. QED
      BY <3>1, <3>2
  <2>5. QED
    BY <2>2, <2>3, <2>4 DEF OrderInv
<1>2. ASSUME UNCHANGED <<row, leaseOwner>>,
             \A q \in Passes :
                \/ /\ pc'[q] = pc[q] /\ next'[q] = next[q]
                   /\ view'[q] = view[q] /\ index'[q] = index[q]
                \/ pc'[q] \in {"done", "crashed", "release"}
      PROVE  OrderInv'
  <2>1. Orderly(row)' /\ \A q \in Passes : First(q)'
    BY <1>2, <1>b DEF Orderly, AllFinished
  <2>2. ASSUME NEW q \in Passes, leaseOwner' = q
        PROVE  Placed(q)'
    <3>1. CASE pc'[q] \in {"done", "crashed", "release"}
      BY <3>1 DEF Placed, DecidingLabels
    <3>2. CASE pc'[q] = pc[q] /\ next'[q] = next[q] /\ view'[q] = view[q]
               /\ index'[q] = index[q]
      BY <1>2, <1>b, <2>2, <3>2, PlaceKept
    <3>3. QED
      BY <1>2, <3>1, <3>2
  <2>3. QED
    BY <2>1, <2>2 DEF OrderInv
<1>3. ASSUME NEW p \in Passes, Prompt(p)
      PROVE  OrderInv'
  <2>1. /\ pc[p] = "prompt" /\ pc'[p] = "acquire"
        /\ UNCHANGED <<row, leaseOwner, next, view, index>>
        /\ \A q \in Passes \ {p} : pc'[q] = pc[q]
    BY <1>3, <1>a DEF Prompt, Goto, storeVars
  <2>2. Orderly(row)' /\ \A q \in Passes : First(q)'
    BY <2>1, <1>b DEF Orderly, AllFinished
  <2>3. ASSUME NEW q \in Passes, leaseOwner' = q
        PROVE  Placed(q)'
    <3>1. CASE q = p
      BY <2>1, <3>1 DEF Placed, DecidingLabels
    <3>2. CASE q # p
      BY <1>b, <2>1, <2>3, <3>2, PlaceKept
    <3>3. QED
      BY <3>1, <3>2
  <2>4. QED
    BY <2>2, <2>3 DEF OrderInv
<1>4. ASSUME NEW p \in Passes, ExecutorStep(p), UNCHANGED passVars
      PROVE  OrderInv'
  <2>1. CASE UNCHANGED storeVars
    BY <1>2, <1>4, <2>1 DEF storeVars, passVars
  <2>2. CASE ClaimActionExecution(p, exec[p].act, exec[p].approval,
                                  exec[p].waiter)
             /\ exec[p].at = "claim"
    <3> DEFINE a == exec[p].act
    <3>1. /\ leaseOwner = p /\ UNCHANGED leaseOwner
          /\ row.act[a] = "EXECUTING" /\ a \in Actions
          /\ row'.act = [row.act EXCEPT ![a] = "APPLYING"]
          /\ row'.state = row.state /\ row.state = "RUNNING"
      BY <1>a, <2>2 DEF ClaimActionExecution, CanClaim, HoldsLease, Incident,
                        Execution
    <3>2. pc[p] = "executing"
      BY <2>2 DEF CurrentInv
    <3>3. row.act[index[p]] \in {"EXECUTING", "APPLYING"} /\ index[p] \in Actions
      BY <1>b, <3>1, <3>2 DEF Placed, Fits, LoopIndexOK, InLoop, LoopLabels
    <3>4. Placed(p)'
      BY <1>4, <1>a, <3>1, <3>2, <3>3 DEF Placed, Fits, DecidingLabels, passVars
    <3>5. Orderly(row)'
      BY <1>a, <1>b, <3>1
         DEF Orderly, AllFinished, FinishedActionStates, CompletedStates
    <3>6. QED
      BY <1>4, <1>b, <3>1, <3>4, <3>5 DEF OrderInv, passVars
  <2>3. QED
    BY <1>4, <2>1, <2>2 DEF ExecutorStep, RecordIntent, ValidateProposal,
       ClaimAction, RecheckPolicy, SendTermination, VerifyRelationship
<1>5. ASSUME NEW p \in Passes, Crash(p) \/ Interrupt(p)
      PROVE  OrderInv'
  <2>1. UNCHANGED storeVars
    BY <1>5 DEF Crash, Interrupt, PassCrash, PassInterrupt
  <2>2. /\ pc'[p] \in {"done", "crashed", "release"}
        /\ \A q \in Passes \ {p} :
                /\ pc'[q] = pc[q] /\ next'[q] = next[q]
                /\ view'[q] = view[q] /\ index'[q] = index[q]
    BY <1>5, <1>a DEF Crash, Interrupt, PassCrash, PassInterrupt, End, Goto,
                      TypeOK
  <2>3. QED
    BY <1>2, <2>1, <2>2 DEF storeVars
<1>6. CASE Environment
  BY <1>2, <1>6 DEF Environment, Clock, LeaseExpires, ApprovalExpires,
                    DeadlinePasses, storeVars, passVars
<1>7. CASE UNCHANGED vars
  BY <1>2, <1>7 DEF vars, storeVars, passVars
<1>8. QED
  BY <1>1, <1>3, <1>4, <1>5, <1>6, <1>7 DEF Next

\* The order holds in every state.
THEOREM OrderHolds == Spec => []OrderInv
<1>1. Init => OrderInv
  BY NAssumption, PassAssumption DEF Init, StoreInit, PlannedIncident, OrderInv, Orderly,
     CompletedStates
<1>2. TypeOK /\ LoopIndexOK /\ CurrentInv /\ OrderInv /\ [Next]_vars => OrderInv'
  BY OrderStep
<1>3. QED
  BY <1>1, <1>2, TypeCorrect, OwnersAreCurrent, PTL DEF Spec

\* In an orderly batch nothing behind an unfinished action has been begun.
LEMMA OrderlyIsSerial == Orderly(row) => OneInFlight
<1> SUFFICES ASSUME Orderly(row), NEW a \in InFlight(row), NEW b \in InFlight(row),
                    a # b
             PROVE  FALSE
  BY DEF OneInFlight
<1>1. a \in Actions /\ b \in Actions /\ (a < b \/ b < a)
  BY NAssumption DEF InFlight, Actions
<1>2. \A c \in {a, b} : row.act[c] \in InFlightStates
  BY DEF InFlight
<1>3. QED
  BY <1>1, <1>2 DEF Orderly, InFlightStates, FinishedActionStates

\* At most one action is in flight, whatever passes overlap or lose their lease:
\* MULTIPLE_INFLIGHT_ACTIONS cannot be reached.
THEOREM OneActionInFlight == Spec => []OneInFlight
<1>1. OrderInv => OneInFlight
  BY OrderlyIsSerial DEF OrderInv
<1>2. QED
  BY <1>1, OrderHolds, PTL

\* The batch is serial and stops at the first failure.
THEOREM BatchIsSerial == Spec => []SerialBatch
<1>1. OrderInv => SerialBatch
  BY DEF OrderInv, Orderly, SerialBatch
<1>2. QED
  BY <1>1, OrderHolds, PTL

\* An incident is completed only when its actions are finished.
THEOREM CompletedIsFinished == Spec => []CompletedMeansFinished
<1>1. OrderInv => CompletedMeansFinished
  BY DEF OrderInv, Orderly, CompletedMeansFinished, CompletedStates, AllFinished
<1>2. QED
  BY <1>1, OrderHolds, PTL

\* The transition tables refuse no checkpoint of the lease's holder.
THEOREM LegalCheckpoints == Spec => []CheckpointsAreLegal
<1>1. TypeOK /\ OrderInv => CheckpointsAreLegal
  <2> SUFFICES ASSUME TypeOK, OrderInv, NEW p \in Passes, pc[p] = "checkpoint",
                      HoldsLease(p), p \in fresh
               PROVE  CanSave(p, view[p])
    BY DEF CheckpointsAreLegal
  <2>1. Orderly(row) /\ Edit(row, view[p])
    BY DEF HoldsLease, OrderInv, Placed
  <2>2. row \in Incident /\ view[p] \in Incident
    BY DEF TypeOK, StoreTypeOK
  <2>3. QED
    BY <2>1, <2>2, EditIsLegal DEF CanSave
<1>2. QED
  BY <1>1, OrderHolds, TypeCorrect, PTL

\* A change of the incident is the owner's edit of it, or the claim of an intent in
\* a running incident; nothing else changes it.
LEMMA RowChanges ==
  ASSUME TypeOK, LoopIndexOK, OrderInv, [Next]_vars, row' # row
  PROVE  \E p \in Passes :
            \/ /\ row' = view[p] /\ Edit(row, view[p])
               /\ Checkpoint(p) /\ leaseOwner = p /\ PassStep(p)
            \/ /\ ClaimActionExecution(p, exec[p].act, exec[p].approval,
                                       exec[p].waiter)
               /\ ClaimAction(p)
               /\ claims' = [claims EXCEPT ![exec[p].act] = @ \cup {p}]
<1>1. ASSUME NEW p \in Passes, PassStep(p)
      PROVE  /\ row' = view[p] /\ Edit(row, view[p])
             /\ Checkpoint(p) /\ leaseOwner = p
  <2>1. Checkpoint(p) /\ SaveIncident(p, view[p])
    BY <1>1, SavesAtCheckpoint
  <2>2. leaseOwner = p /\ pc[p] = "checkpoint" /\ row' = view[p]
    BY <2>1 DEF Checkpoint, SaveIncident, CanSave, HoldsLease
  <2>3. Edit(row, view[p])
    BY <2>2 DEF OrderInv, Placed
  <2>4. QED
    BY <2>1, <2>2, <2>3
<1>2. ASSUME NEW p \in Passes, ExecutorStep(p)
      PROVE  /\ ClaimActionExecution(p, exec[p].act, exec[p].approval,
                                     exec[p].waiter)
             /\ ClaimAction(p)
             /\ claims' = [claims EXCEPT ![exec[p].act] = @ \cup {p}]
  BY <1>2 DEF ExecutorStep, RecordIntent, ValidateProposal, ClaimAction,
              RecheckPolicy, SendTermination, VerifyRelationship, storeVars
<1>3. \A p \in Passes : ~Prompt(p) /\ ~Crash(p) /\ ~Interrupt(p)
  BY DEF Prompt, Crash, Interrupt, PassCrash, PassInterrupt, storeVars
<1>4. ~Environment
  BY EnvironmentFrame
<1>5. QED
  BY <1>1, <1>2, <1>3, <1>4 DEF Next, vars, storeVars

\* A finished incident is never changed again.
THEOREM FinishedIsFinal == Spec => TerminalIsFinal
<1>1. TypeOK /\ LoopIndexOK /\ OrderInv /\ [Next]_vars =>
        [row.state \in TerminalStates => row' = row]_vars
  <2> SUFFICES ASSUME TypeOK, LoopIndexOK, OrderInv, [Next]_vars, row' # row
               PROVE  row.state \notin TerminalStates
    OBVIOUS
  <2>1. ASSUME NEW p \in Passes, Edit(row, view[p])
        PROVE  row.state \in ActiveIncidentStates
    BY <2>1, EditIsLegal DEF TypeOK, StoreTypeOK, OrderInv
  <2>2. ASSUME NEW p \in Passes,
               ClaimActionExecution(p, exec[p].act, exec[p].approval,
                                    exec[p].waiter)
        PROVE  row.state = "RUNNING"
    BY <2>2 DEF ClaimActionExecution, CanClaim
  <2>3. QED
    BY <2>1, <2>2, RowChanges DEF TerminalStates, ActiveIncidentStates
<1>2. QED
  BY <1>1, OrderHolds, TypeCorrect, PTL DEF Spec, TerminalIsFinal

-----------------------------------------------------------------------------
(* Success is of terminated targets *)

\* A terminated target stays terminated.
LEMMA TerminatedStays ==
  ASSUME TypeOK, LoopIndexOK, [Next]_vars, NEW a \in Actions, Terminated(a)
  PROVE  Terminated(a)'
<1>a. /\ blocker \in [Actions -> {"held", "gone", "reused"}]
      /\ signals \in [Actions -> SUBSET Signal] /\ exec \in [Passes -> Execution]
  BY DEF TypeOK, GraphTypeOK, ExecTypeOK
<1>b. UNCHANGED <<signals, blocker>> => Terminated(a)'
  BY DEF Terminated
<1>1. ASSUME NEW p \in Passes, PassStep(p)
      PROVE  Terminated(a)'
  BY <1>1, <1>b, PassStepFrame
<1>2. ASSUME NEW p \in Passes, Prompt(p) \/ Crash(p) \/ Interrupt(p)
      PROVE  Terminated(a)'
  BY <1>2, <1>b DEF Prompt, Crash, Interrupt, PassCrash, PassInterrupt, execVars,
                    histVars
<1>3. ASSUME NEW p \in Passes, ExecutorStep(p)
      PROVE  Terminated(a)'
  <2>1. CASE SendTermination(p)
    <3>1. /\ signals[a] \subseteq signals'[a]
          /\ blocker'[a] = blocker[a] \/ blocker'[a] = "gone"
      BY <1>a, <2>1 DEF SendTermination
    <3>2. QED
      BY <3>1 DEF Terminated
  <2>2. CASE ~SendTermination(p)
    BY <1>3, <1>b, <2>2 DEF ExecutorStep, RecordIntent, ValidateProposal,
       ClaimAction, RecheckPolicy, VerifyRelationship, histVars
  <2>3. QED
    BY <2>1, <2>2
<1>4. CASE Environment
  <2>1. UNCHANGED signals /\ (blocker'[a] = blocker[a] \/ blocker'[a] # "held")
    BY <1>4, <1>a DEF Environment, Sessions, BlockerEnds, BlockerPidReused,
                      execVars, histVars
  <2>2. QED
    BY <2>1 DEF Terminated
<1>5. CASE UNCHANGED vars
  BY <1>5, <1>b DEF vars, execVars, histVars
<1>6. QED
  BY <1>1, <1>2, <1>3, <1>4, <1>5 DEF Next

\* The result of an executor, and where it stands, speak of its target.
ExecutorKnows(p) ==
    exec[p].at = "verify" \/ exec[p].result = "CONFIRMED" =>
        Terminated(exec[p].act)

\* An executor that confirms has signalled a target that is gone.
LEMMA ExecutorTruth ==
  ASSUME TypeOK, NEW p \in Passes, ExecutorStep(p), ExecutorKnows(p),
         \A a \in Actions : Terminated(a) => Terminated(a)'
  PROVE  /\ ExecutorKnows(p)'
         /\ exec'[p].act = exec[p].act
         /\ \A q \in Passes \ {p} : exec'[q] = exec[q]
         /\ exec[p].at # "returned"
<1>a. /\ exec \in [Passes -> Execution] /\ exec[p].act \in Actions
      /\ blocker \in [Actions -> {"held", "gone", "reused"}]
      /\ signals \in [Actions -> SUBSET Signal]
  BY DEF TypeOK, GraphTypeOK, ExecTypeOK, Execution
<1>b. ASSUME NEW at, Advance(p, at)
      PROVE  /\ exec'[p].at = at /\ exec'[p].act = exec[p].act
             /\ exec'[p].result = exec[p].result
             /\ \A q \in Passes \ {p} : exec'[q] = exec[q]
  BY <1>a, <1>b DEF Advance, Execution
<1>c. ASSUME NEW result, Return(p, result)
      PROVE  /\ exec'[p].at = "returned" /\ exec'[p].act = exec[p].act
             /\ exec'[p].result = result
             /\ \A q \in Passes \ {p} : exec'[q] = exec[q]
  BY <1>a, <1>c DEF Return, Execution
<1>1. CASE RecordIntent(p)
  <2>1. Advance(p, "validate") \/ Return(p, "UNCONFIRMED") \/ Return(p, "REFUSED")
    BY <1>1 DEF RecordIntent
  <2>2. QED
    BY <1>1, <1>a, <1>b, <1>c, <2>1 DEF RecordIntent, ExecutorKnows
<1>2. CASE ValidateProposal(p)
  <2>0. exec[p].at = "validate"
    BY <1>2 DEF ValidateProposal
  <2>1. CASE Return(p, "UNCONFIRMED")
    BY <1>c, <2>0, <2>1 DEF ExecutorKnows
  <2>2. CASE \E waiter \in WaiterKinds :
                exec' = [exec EXCEPT ![p] = [@ EXCEPT !.at = "claim",
                                                      !.waiter = waiter]]
    <3>1. /\ exec'[p].at = "claim" /\ exec'[p].act = exec[p].act
          /\ exec'[p].result = exec[p].result
          /\ \A q \in Passes \ {p} : exec'[q] = exec[q]
      BY <1>a, <2>2 DEF Execution
    <3>2. QED
      BY <1>2, <1>a, <3>1 DEF ValidateProposal, ExecutorKnows
  <2>3. QED
    BY <1>2, <2>1, <2>2 DEF ValidateProposal
<1>3. CASE ClaimAction(p)
  <2>1. Advance(p, "policy") \/ Return(p, "REFUSED")
    BY <1>3 DEF ClaimAction
  <2>2. QED
    BY <1>3, <1>a, <1>b, <1>c, <2>1 DEF ClaimAction, ExecutorKnows
<1>4. CASE RecheckPolicy(p)
  <2>1. Advance(p, "send") \/ Return(p, "UNCONFIRMED")
    BY <1>4 DEF RecheckPolicy
  <2>2. QED
    BY <1>4, <1>a, <1>b, <1>c, <2>1 DEF RecheckPolicy, ExecutorKnows
<1>5. CASE SendTermination(p)
  <2>1. CASE Return(p, "UNCONFIRMED")
    BY <1>5, <1>c, <2>1 DEF SendTermination, ExecutorKnows
  <2>2. CASE /\ Advance(p, "verify")
             /\ blocker' = [blocker EXCEPT ![exec[p].act] = "gone"]
             /\ signals' = [signals EXCEPT ![exec[p].act] =
                                @ \cup {SignalOf(p, exec[p].act)}]
    <3>1. Terminated(exec[p].act)'
      <4>1. exec'[p].act = exec[p].act
        BY <1>b, <2>2
      <4>2. blocker'[exec[p].act] = "gone" /\ signals'[exec[p].act] # {}
        BY <1>a, <2>2
      <4>3. QED
        BY <4>1, <4>2 DEF Terminated
    <3>2. QED
      BY <1>5, <1>b, <2>2, <3>1 DEF SendTermination, ExecutorKnows
  <2>3. QED
    BY <1>5, <2>1, <2>2 DEF SendTermination
<1>6. CASE VerifyRelationship(p)
  <2>1. \E result \in {"CONFIRMED", "UNCONFIRMED"} : Return(p, result)
    BY <1>6 DEF VerifyRelationship
  <2>2. Terminated(exec[p].act)
    BY <1>6 DEF VerifyRelationship, ExecutorKnows
  <2>3. /\ exec'[p].at = "returned" /\ exec'[p].act = exec[p].act
        /\ \A q \in Passes \ {p} : exec'[q] = exec[q]
    BY <1>c, <2>1
  <2>4. UNCHANGED <<blocker, signals>>
    BY <1>6 DEF VerifyRelationship, histVars
  <2>5. Terminated(exec[p].act)'
    BY <2>2, <2>3, <2>4 DEF Terminated
  <2>6. exec[p].at # "returned"
    BY <1>6 DEF VerifyRelationship
  <2>7. QED
    BY <2>3, <2>5, <2>6 DEF ExecutorKnows
<1>7. QED
  BY <1>1, <1>2, <1>3, <1>4, <1>5, <1>6 DEF ExecutorStep

\* A pass comes past its call by the return of its executor, and then stays at
\* the same action; it verifies what was confirmed.
LEMMA CallPlaced ==
  ASSUME TypeOK, LoopIndexOK, NEW p \in Passes, PassStep(p)
  PROVE  /\ pc'[p] = "executing" => Execute(p)
         /\ PastCall(p)' =>
                \/ PastCall(p) /\ UNCHANGED <<exec, index>>
                \/ ExecutorReturns(p)
         /\ pc'[p] = "verify" => Recorded(p) /\ exec[p].result = "CONFIRMED"
<1> USE DEF StopIncident, StopAction, FinishAction, CheckpointThen, LoadThen,
            Goto, End, PastCall
<1>a. /\ pc \in [Passes -> Labels] /\ next \in [Passes -> Continuations]
      /\ decision[p] \in {"none", "approve", "reject"}
  BY DEF TypeOK
<1>1. CASE Start(p)
  BY <1>1, <1>a DEF Start
<1>2. CASE Acquire(p) \/ Release(p)
  BY <1>2, <1>a DEF Acquire, Release
<1>3. CASE Admit(p)
  BY <1>3, <1>a DEF Admit
<1>4. CASE Enter(p) \/ RenewBeforeObservation(p) \/ RenewBeforeIntent(p)
  BY <1>4, <1>a
     DEF Enter, RenewBeforeObservation, RenewBeforeIntent, RenewThen
<1>5. CASE Reconcile(p)
  BY <1>5, <1>a DEF Reconcile, ReconcileInflight
<1>6. CASE Step(p)
  BY <1>6, <1>a DEF Step
<1>7. CASE Observe(p)
  <2>1. Sights(index[p]) \subseteq
            {"absent", "reused", "outside_policy", "new_waiters", "actionable"}
    BY <1>7, SightsType DEF Observe
  <2>2. QED
    BY <1>7, <1>a, <2>1 DEF Observe
<1>8. CASE GateBeforeRenewal(p) \/ GateBeforeIntent(p)
  BY <1>8, <1>a DEF GateBeforeRenewal, GateBeforeIntent, Closed
<1>9. CASE Execute(p) \/ ExecutorReturns(p)
  BY <1>9, <1>a DEF Execute, ExecutorReturns
<1>10. CASE Interpret(p)
  BY <1>10, <1>a DEF Interpret, execVars
<1>11. CASE Recorded(p) \/ Verify(p)
  BY <1>11, <1>a DEF Recorded, Verify, execVars
<1>12. CASE Final(p)
  BY <1>12, <1>a DEF Final
<1>13. CASE Checkpoint(p) \/ Load(p)
  BY <1>13, <1>a DEF Checkpoint, Load, Continuations, execVars
<1>14. QED
  BY <1>1, <1>2, <1>3, <1>4, <1>5, <1>6, <1>7, <1>8, <1>9, <1>10, <1>11, <1>12,
     <1>13 DEF PassStep, WorkflowStep

\* What the owner is about to save claims success of terminated targets.
LEMMA CopyIsTruthful ==
  ASSUME TypeOK, LoopIndexOK, SuccessInv, NEW p \in Passes, PassStep(p),
         pc[p] \in DecidingLabels => view[p] = row,
         pc'[p] = "checkpoint"
  PROVE  \A a \in Actions :
            view'[p].act[a] = "SUCCEEDED"
            \/ (view'[p].act[a] = "RESULT_RECORDED"
                    /\ view'[p].result[a] = "CONFIRMED")
                => Terminated(a)
<1> DEFINE Told(value) ==
        \A b \in Actions :
            value.act[b] = "SUCCEEDED"
            \/ (value.act[b] = "RESULT_RECORDED" /\ value.result[b] = "CONFIRMED")
                => Terminated(b)
           a == index[p]
<1>a. /\ pc \in [Passes -> Labels] /\ next \in [Passes -> Continuations]
      /\ view \in [Passes -> Incident] /\ row \in Incident
      /\ row.act \in [Actions -> ActionStates]
      /\ row.result \in [Actions -> Results \cup {"NONE"}]
      /\ decision[p] \in {"none", "approve", "reject"}
  BY DEF TypeOK, StoreTypeOK, Incident
<1>b. Told(row)
  BY DEF SuccessInv, Truthful
<1>c. \A value, label : CheckpointThen(p, value, label) => view'[p] = value
  BY <1>a DEF CheckpointThen
<1>d. ASSUME view[p] = row, NEW state, StopIncident(p, state)
      PROVE  Told(view'[p])
  <2>1. view'[p].act = row.act /\ view'[p].result = row.result
    BY <1>a, <1>c, <1>d DEF StopIncident, Incident
  <2>2. QED
    BY <1>b, <2>1
<1>e. ASSUME view[p] = row, NEW c, NEW act,
             \/ StopAction(p, c, act)
             \/ FinishAction(p, c, act),
             act \in {"SUCCEEDED", "RESULT_RECORDED"} =>
                act = "SUCCEEDED" /\ Terminated(c)
      PROVE  Told(view'[p])
  <2>1. /\ view'[p].act = [row.act EXCEPT ![c] = act]
        /\ view'[p].result = row.result
    BY <1>a, <1>c, <1>e DEF StopAction, FinishAction, Incident
  <2>2. ASSUME NEW b \in Actions
        PROVE  view'[p].act[b] = IF b = c THEN act ELSE row.act[b]
    BY <1>a, <2>1, <2>2
  <2>3. QED
    BY <1>b, <1>e, <2>1, <2>2
<1>1. CASE Admit(p)
  <2>1. view[p] = row
    BY <1>1 DEF Admit, DecidingLabels
  <2>2. CASE CheckpointThen(p, [view[p] EXCEPT !.state = "RUNNING",
                                               !.approval = p], "enter")
    <3>1. view'[p].act = row.act /\ view'[p].result = row.result
      BY <1>a, <1>c, <2>1, <2>2 DEF Incident
    <3>2. QED
      BY <1>b, <3>1
  <2>3. CASE StopIncident(p, "CANCELLED")
    BY <1>d, <2>1, <2>3
  <2>4. \A label : Goto(p, label) => pc'[p] = label
    BY <1>a DEF Goto
  <2>5. QED
    BY <1>1, <1>a, <2>2, <2>3, <2>4 DEF Admit
<1>2. CASE Reconcile(p)
  <2>1. view[p] = row
    BY <1>2 DEF Reconcile, DecidingLabels
  <2>2. ASSUME NEW c \in Actions, NEW sight, ReconcileInflight(p, c, sight)
        PROVE  Told(view'[p])
    <3>1. \/ \E act \in {"FAILED", "INCONCLUSIVE", "STALE_IDENTITY", "IN_DOUBT"} :
                StopAction(p, c, act)
          \/ FinishAction(p, c, "RECONCILED_RESOLVED")
          \/ /\ FinishAction(p, c, "SUCCEEDED")
             /\ row.act[c] = "RESULT_RECORDED" /\ row.result[c] = "CONFIRMED"
      BY <2>1, <2>2 DEF ReconcileInflight
    <3>2. QED
      BY <1>b, <1>e, <2>1, <3>1
  <2>3. CASE StopIncident(p, "REVIEW_REQUIRED")
    BY <1>d, <2>1, <2>3
  <2>4. ~Goto(p, "step")
    BY <1>a DEF Goto
  <2>5. QED
    BY <1>2, <2>2, <2>3, <2>4 DEF Reconcile
<1>3. CASE Step(p)
  <2>1. view[p] = row
    BY <1>3 DEF Step, DecidingLabels
  <2>2. ~Goto(p, "final") /\ ~Goto(p, "renew1")
    BY <1>a DEF Goto
  <2>3. StopIncident(p, "REVIEW_REQUIRED")
    BY <1>3, <2>2 DEF Step
  <2>4. QED
    BY <1>d, <2>1, <2>3
<1>4. CASE Observe(p)
  <2>1. view[p] = row
    BY <1>4 DEF Observe, DecidingLabels
  <2>2. Sights(a) \subseteq
            {"absent", "reused", "outside_policy", "new_waiters", "actionable"}
    BY <1>4, SightsType DEF Observe
  <2>3. ~Goto(p, "gate1")
    BY <1>a DEF Goto
  <2>4. \/ StopIncident(p, "REVIEW_REQUIRED")
        \/ StopAction(p, a, "STALE_IDENTITY")
        \/ StopAction(p, a, "REAPPROVAL_REQUIRED")
        \/ FinishAction(p, a, "SKIPPED_RESOLVED")
    BY <1>4, <2>2, <2>3 DEF Observe
  <2>5. QED
    BY <1>d, <1>e, <2>1, <2>4
<1>5. CASE GateBeforeRenewal(p) \/ GateBeforeIntent(p)
  <2>1. view[p] = row
    BY <1>5 DEF GateBeforeRenewal, GateBeforeIntent, DecidingLabels
  <2>2. ~Goto(p, "renew2")
    BY <1>a DEF Goto
  <2>3. CASE CheckpointThen(p, [view[p] EXCEPT !.act[a] = "EXECUTING"], "execute")
    <3>1. /\ view'[p].act = [row.act EXCEPT ![a] = "EXECUTING"]
          /\ view'[p].result = row.result
      BY <1>a, <1>c, <2>1, <2>3 DEF Incident
    <3>2. ASSUME NEW b \in Actions
          PROVE  view'[p].act[b] = IF b = a THEN "EXECUTING" ELSE row.act[b]
      BY <1>a, <3>1, <3>2
    <3>3. QED
      BY <1>b, <3>1, <3>2
  <2>4. CASE \E state : StopIncident(p, state)
    BY <1>d, <2>1, <2>4
  <2>5. QED
    BY <1>5, <2>2, <2>3, <2>4 DEF GateBeforeRenewal, GateBeforeIntent, Closed
<1>6. CASE Interpret(p)
  <2>1. /\ view[p] = row /\ a \in Actions
        /\ exec[p].result = "CONFIRMED" => Terminated(a)
    BY <1>6 DEF Interpret, DecidingLabels, LoopIndexOK, InLoop, LoopLabels,
                LoopContinuations, SuccessInv, PastCall
  <2>2. CASE CheckpointThen(p, [view[p] EXCEPT !.act[a] = "PLANNED",
                                       !.state = "AWAITING_REAPPROVAL"],
                            "release")
    <3>1. /\ view'[p].act = [row.act EXCEPT ![a] = "PLANNED"]
          /\ view'[p].result = row.result
      BY <1>a, <1>c, <2>1, <2>2 DEF Incident
    <3>2. ASSUME NEW b \in Actions
          PROVE  view'[p].act[b] = IF b = a THEN "PLANNED" ELSE row.act[b]
      BY <1>a, <3>1, <3>2
    <3>3. QED
      BY <1>b, <3>1, <3>2
  <2>3. CASE StopAction(p, a, "IN_DOUBT")
    BY <1>e, <2>1, <2>3
  <2>4. CASE CheckpointThen(p, [view[p] EXCEPT !.act[a] = "RESULT_RECORDED",
                                               !.result[a] = exec[p].result],
                            "recorded")
    <3>1. /\ view'[p].act = [row.act EXCEPT ![a] = "RESULT_RECORDED"]
          /\ view'[p].result = [row.result EXCEPT ![a] = exec[p].result]
      BY <1>a, <1>c, <2>1, <2>4 DEF Incident
    <3>2. ASSUME NEW b \in Actions
          PROVE  /\ view'[p].act[b] =
                        IF b = a THEN "RESULT_RECORDED" ELSE row.act[b]
                 /\ view'[p].result[b] =
                        IF b = a THEN exec[p].result ELSE row.result[b]
      BY <1>a, <3>1, <3>2
    <3>3. QED
      BY <1>b, <2>1, <3>2
  <2>5. ~Goto(p, "release")
    BY <1>a DEF Goto
  <2>6. QED
    BY <1>6, <2>2, <2>3, <2>4, <2>5 DEF Interpret
<1>7. CASE Recorded(p) \/ Verify(p)
  <2>1. view[p] = row
    BY <1>7 DEF Recorded, Verify, DecidingLabels
  <2>2. ~Goto(p, "verify")
    BY <1>a DEF Goto
  <2>3. \/ StopAction(p, a, "FAILED")
        \/ StopAction(p, a, "INCONCLUSIVE")
        \/ Verify(p) /\ FinishAction(p, a, "SUCCEEDED")
    <3>1. CASE Recorded(p)
      BY <2>2, <3>1 DEF Recorded
    <3>2. CASE Verify(p)
      BY <3>2 DEF Verify
    <3>3. QED
      BY <1>7, <3>1, <3>2
  <2>4. Verify(p) => Terminated(a)
    BY DEF Verify, SuccessInv, PastCall
  <2>5. QED
    BY <1>e, <2>1, <2>3, <2>4
<1>8. CASE Final(p)
  <2>1. view[p] = row
    BY <1>8 DEF Final, DecidingLabels
  <2>2. \E state : StopIncident(p, state)
    BY <1>8 DEF Final
  <2>3. QED
    BY <1>d, <2>1, <2>2
<1>9. CASE Start(p) \/ Acquire(p) \/ Load(p) \/ Release(p) \/ Checkpoint(p)
  BY <1>9, <1>a DEF Start, Acquire, Load, Release, Checkpoint, End, Goto,
                    LoadThen, Continuations
<1>10. CASE Enter(p) \/ RenewBeforeObservation(p) \/ RenewBeforeIntent(p)
  BY <1>10, <1>a DEF Enter, RenewBeforeObservation, RenewBeforeIntent, RenewThen,
                     Goto, LoadThen
<1>11. CASE Execute(p) \/ ExecutorReturns(p)
  BY <1>11, <1>a DEF Execute, ExecutorReturns, Goto, LoadThen
<1>12. QED
  BY <1>1, <1>2, <1>3, <1>4, <1>5, <1>6, <1>7, <1>8, <1>9, <1>10, <1>11
     DEF PassStep, WorkflowStep

\* Every step keeps success to terminated targets.
LEMMA SuccessStep ==
  ASSUME TypeOK, LoopIndexOK, CurrentInv, OrderInv, SuccessInv, [Next]_vars
  PROVE  SuccessInv'
<1> DEFINE Called(q) ==
        /\ ExecutorKnows(q)
        /\ pc[q] = "executing" => exec[q].act = index[q]
        /\ PastCall(q) => exec[q].at = "returned" /\ exec[q].act = index[q]
        /\ pc[q] = "verify" => exec[q].result = "CONFIRMED"
           Saves(q) ==
        leaseOwner = q /\ pc[q] = "checkpoint" => Truthful(view[q])
<1>a. /\ pc \in [Passes -> Labels] /\ next \in [Passes -> Continuations]
      /\ view \in [Passes -> Incident] /\ index \in [Passes -> 0..N]
      /\ exec \in [Passes -> Execution]
      /\ row \in Incident /\ row.act \in [Actions -> ActionStates]
      /\ \A q \in Passes : exec[q].act \in Actions
  BY DEF TypeOK, StoreTypeOK, ExecTypeOK, Incident, Execution
<1>b. Truthful(row) /\ \A q \in Passes : Called(q) /\ Saves(q)
  BY DEF SuccessInv, ExecutorKnows
<1>c. \A a \in Actions : Terminated(a) => Terminated(a)'
  BY TerminatedStays
<1>d. SUFFICES Truthful(row)' /\ \A q \in Passes : Called(q)' /\ Saves(q)'
  BY DEF SuccessInv, ExecutorKnows
<1>e. ASSUME NEW q \in Passes, exec'[q] = exec[q], ExecutorKnows(q)
      PROVE  ExecutorKnows(q)'
  BY <1>a, <1>c, <1>e DEF ExecutorKnows
<1>f. ASSUME NEW q \in Passes, exec'[q] = exec[q], pc'[q] = pc[q],
             next'[q] = next[q], index'[q] = index[q]
      PROVE  Called(q)'
  BY <1>b, <1>e, <1>f DEF PastCall
<1>g. ASSUME NEW q \in Passes, leaseOwner' = q => leaseOwner = q,
             pc'[q] = pc[q], view'[q] = view[q]
      PROVE  Saves(q)'
  BY <1>b, <1>c, <1>g DEF Truthful
<1>h. UNCHANGED row => Truthful(row)'
  BY <1>b, <1>c DEF Truthful
<1>i. NoExecution.at = "idle" /\ NoExecution.result = "NONE"
  BY DEF NoExecution
<1>1. ASSUME NEW p \in Passes, PassStep(p)
      PROVE  Truthful(row)' /\ \A q \in Passes : Called(q)' /\ Saves(q)'
  <2>1. OthersStill(p)
    BY <1>1, PassStepLocal
  <2>2. Truthful(row)'
    <3>1. CASE Checkpoint(p) /\ SaveIncident(p, view[p])
      <4>1. leaseOwner = p /\ pc[p] = "checkpoint" /\ row' = view[p]
        BY <3>1 DEF Checkpoint, SaveIncident, CanSave, HoldsLease
      <4>2. QED
        BY <1>b, <1>c, <4>1 DEF Truthful
    <3>2. QED
      BY <1>1, <1>h, <3>1, SavesAtCheckpoint
  <2>3. ASSUME NEW q \in Passes \ {p}
        PROVE  Called(q)' /\ Saves(q)'
    <3>1. exec'[q] = exec[q]
      <4>1. CASE Execute(p)
        BY <4>1, <1>a, <2>3 DEF Execute, BeginExecution
      <4>2. QED
        BY <1>1, <4>1, PassStepFrame
    <3>2. leaseOwner' = q => leaseOwner = q
      BY <1>1, <2>3, OwnerUndisturbed
    <3>3. QED
      BY <1>f, <1>g, <2>1, <3>1, <3>2 DEF OthersStill
  <2>4. Called(p)'
    <3>1. CASE Execute(p)
      <4>1. /\ exec'[p].at = "intent" /\ exec'[p].act = index[p]
            /\ exec'[p].result = "NONE" /\ index' = index
            /\ pc'[p] = "executing"
        BY <1>a, <3>1 DEF Execute, BeginExecution, NoExecution, Goto
      <4>2. QED
        BY <4>1 DEF ExecutorKnows, PastCall
    <3>2. CASE ~Execute(p)
      <4>1. UNCHANGED exec
        BY <1>1, <3>2, PassStepFrame
      <4>2. ExecutorKnows(p)'
        BY <1>b, <1>e, <4>1
      <4>3. pc'[p] # "executing"
        BY <1>1, <3>2, CallPlaced
      <4>4. pc'[p] = "verify" => exec'[p].result = "CONFIRMED"
        BY <1>1, <4>1, CallPlaced
      <4>5. ASSUME PastCall(p)'
            PROVE  exec'[p].at = "returned" /\ exec'[p].act = index'[p]
        <5>1. CASE PastCall(p) /\ UNCHANGED <<exec, index>>
          BY <1>b, <5>1
        <5>2. CASE ExecutorReturns(p)
          <6>1. /\ pc[p] = "executing" /\ exec[p].at = "returned"
                /\ UNCHANGED <<exec, index>>
            BY <4>1, <5>2 DEF ExecutorReturns
          <6>2. QED
            BY <1>b, <6>1
        <5>3. QED
          BY <1>1, <4>5, <5>1, <5>2, CallPlaced
      <4>6. QED
        BY <4>2, <4>3, <4>4, <4>5
    <3>3. QED
      BY <3>1, <3>2
  <2>5. Saves(p)'
    <3>1. SUFFICES ASSUME leaseOwner' = p, pc'[p] = "checkpoint"
                   PROVE  Truthful(view[p])'
      OBVIOUS
    <3>2. pc[p] \in DecidingLabels => view[p] = row
      <4>1. leaseOwner = p \/ Acquire(p)
        BY <1>1, <3>1 DEF PassStep, WorkflowStep, Start, Admit, Enter, Reconcile,
           Step, RenewBeforeObservation, Observe, GateBeforeRenewal,
           RenewBeforeIntent, GateBeforeIntent, Execute, ExecutorReturns,
           Interpret, Recorded, Verify, Final, Checkpoint, Load, Release,
           LoadIncident, RenewThen, RenewLease, SaveIncident, ReleaseLease,
           storeVars
      <4>2. Acquire(p) => pc[p] \notin DecidingLabels
        BY DEF Acquire, DecidingLabels
      <4>3. QED
        BY <4>1, <4>2 DEF CurrentInv, OwnerIsCurrent
    <3>3. \A a \in Actions :
            view'[p].act[a] = "SUCCEEDED"
            \/ (view'[p].act[a] = "RESULT_RECORDED"
                    /\ view'[p].result[a] = "CONFIRMED")
                => Terminated(a)
      BY <1>1, <3>1, <3>2, CopyIsTruthful
    <3>4. QED
      BY <1>c, <3>3 DEF Truthful
  <2>6. QED
    BY <2>2, <2>3, <2>4, <2>5
<1>2. ASSUME NEW p \in Passes, Prompt(p)
      PROVE  Truthful(row)' /\ \A q \in Passes : Called(q)' /\ Saves(q)'
  <2>1. /\ UNCHANGED <<row, leaseOwner, exec, next, view, index>>
        /\ pc'[p] = "acquire" /\ \A q \in Passes \ {p} : pc'[q] = pc[q]
    BY <1>2, <1>a DEF Prompt, Goto, storeVars, execVars
  <2>2. Called(p)' /\ Saves(p)'
    BY <1>b, <1>e, <2>1 DEF PastCall
  <2>3. QED
    BY <1>f, <1>g, <1>h, <2>1, <2>2
<1>3. ASSUME NEW p \in Passes, ExecutorStep(p), UNCHANGED passVars
      PROVE  Truthful(row)' /\ \A q \in Passes : Called(q)' /\ Saves(q)'
  <2>1. /\ ExecutorKnows(p)' /\ exec'[p].act = exec[p].act
        /\ \A q \in Passes \ {p} : exec'[q] = exec[q]
        /\ exec[p].at # "returned"
    BY <1>3, <1>b, <1>c, ExecutorTruth
  <2>2. leaseOwner' = leaseOwner
    BY <1>3 DEF ExecutorStep, RecordIntent, ValidateProposal, ClaimAction,
       RecheckPolicy, SendTermination, VerifyRelationship, ClaimActionExecution,
       storeVars
  <2>3. \A q \in Passes \ {p} : Called(q)' /\ Saves(q)'
    BY <1>3, <1>f, <1>g, <2>1, <2>2 DEF passVars
  <2>4. Called(p)' /\ Saves(p)'
    <3>1. ~PastCall(p) /\ pc[p] # "verify"
      BY <1>b, <2>1 DEF PastCall
    <3>2. Called(p)'
      BY <1>3, <1>b, <2>1, <3>1 DEF passVars, PastCall
    <3>3. QED
      BY <1>3, <1>g, <2>2, <3>2 DEF passVars
  <2>5. Truthful(row)'
    <3>1. CASE ClaimActionExecution(p, exec[p].act, exec[p].approval,
                                    exec[p].waiter)
      <4>1. /\ row'.act = [row.act EXCEPT ![exec[p].act] = "APPLYING"]
            /\ row'.result = row.result
        BY <1>a, <3>1 DEF ClaimActionExecution, Incident
      <4>2. ASSUME NEW b \in Actions
            PROVE  row'.act[b] \in {row.act[b], "APPLYING"}
        BY <1>a, <4>1, <4>2
      <4>3. QED
        BY <1>b, <1>c, <4>1, <4>2 DEF Truthful
    <3>2. CASE UNCHANGED row
      BY <1>h, <3>2
    <3>3. QED
      BY <1>3, <3>1, <3>2 DEF ExecutorStep, RecordIntent, ValidateProposal,
         ClaimAction, RecheckPolicy, SendTermination, VerifyRelationship,
         storeVars
  <2>6. QED
    BY <2>3, <2>4, <2>5
<1>4. ASSUME NEW p \in Passes, Crash(p) \/ Interrupt(p)
      PROVE  Truthful(row)' /\ \A q \in Passes : Called(q)' /\ Saves(q)'
  <2>1. /\ UNCHANGED <<row, leaseOwner>>
        /\ \A q \in Passes \ {p} : exec'[q] = exec[q]
        /\ exec'[p] = exec[p] \/ exec'[p] = NoExecution
    BY <1>4, DisturbedFrame
  <2>2. /\ pc'[p] \in {"done", "crashed", "release"}
        /\ \A q \in Passes \ {p} :
                /\ pc'[q] = pc[q] /\ next'[q] = next[q]
                /\ view'[q] = view[q] /\ index'[q] = index[q]
    BY <1>4, <1>a DEF Crash, Interrupt, PassCrash, PassInterrupt, End, Goto
  <2>3. ExecutorKnows(p)'
    BY <1>b, <1>e, <1>i, <2>1 DEF ExecutorKnows
  <2>4. Called(p)' /\ Saves(p)'
    BY <2>2, <2>3 DEF PastCall
  <2>5. QED
    BY <1>f, <1>g, <1>h, <2>1, <2>2, <2>4
<1>5. ASSUME UNCHANGED <<row, leaseOwner, exec, pc, next, view, index>>
      PROVE  Truthful(row)' /\ \A q \in Passes : Called(q)' /\ Saves(q)'
  BY <1>5, <1>f, <1>g, <1>h
<1>6. CASE Environment
  BY <1>5, <1>6 DEF Environment, Clock, LeaseExpires, ApprovalExpires,
                    DeadlinePasses, storeVars, execVars, passVars
<1>7. CASE UNCHANGED vars
  BY <1>5, <1>7 DEF vars, storeVars, execVars, passVars
<1>8. QED
  BY <1>1, <1>2, <1>3, <1>4, <1>6, <1>7 DEF Next

\* SUCCEEDED is claimed of a signalled target that is not there any more.
THEOREM SuccessIsTermination == Spec => []SucceededMeansTerminated
<1>1. Init => SuccessInv
  BY DEF Init, StoreInit, ExecInit, PlannedIncident, NoExecution, SuccessInv,
         Truthful, PastCall
<1>2. TypeOK /\ LoopIndexOK /\ CurrentInv /\ OrderInv /\ SuccessInv /\ [Next]_vars
        => SuccessInv'
  BY SuccessStep
<1>3. SuccessInv => SucceededMeansTerminated
  BY DEF SuccessInv, Truthful, Terminated, SucceededMeansTerminated
<1>4. QED
  BY <1>1, <1>2, <1>3, TypeCorrect, OwnersAreCurrent, OrderHolds, PTL DEF Spec

-----------------------------------------------------------------------------
(* The promise *)

\* The promise as the workflow's state shows it.
phaseOf == PhaseOf(row.state)
outcomeOf == [a \in Actions |-> OutcomeOf(row.act[a])]
authorityOf == {a \in Actions : claims[a] # {}}
signalledOf == {a \in Actions : signals[a] # {}}

Kept == UNCHANGED <<phaseOf, outcomeOf, authorityOf, signalledOf>>

StepOfPromise == Promise!PromiseNext \/ Kept

-----------------------------------------------------------------------------
(* Edits of the incident *)

\* What a state of an action means to the operator.
LEMMA Outcomes ==
  ASSUME NEW act \in ActionStates
  PROVE  /\ OutcomeOf(act) = "open" <=> act \in {"PLANNED", "EXECUTING"}
         /\ OutcomeOf(act) = "claimed" <=> act \in {"APPLYING", "RESULT_RECORDED"}
         /\ OutcomeOf(act) = "resolved" <=> act \in FinishedActionStates
         /\ OutcomeOf(act) \in {"open", "claimed", "resolved", "failed"}
  BY DEF OutcomeOf, FinishedActionStates

\* An edit of the incident as a whole is a step of the batch.
LEMMA StateEditKeepsPromise ==
  ASSUME TypeOK, StateEdit(row, row'), UNCHANGED <<claims, signals>>
  PROVE  StepOfPromise
<1>a. /\ row.act \in [Actions -> ActionStates]
      /\ UNCHANGED <<outcomeOf, authorityOf, signalledOf>>
  BY DEF TypeOK, StoreTypeOK, Incident, StateEdit, outcomeOf, authorityOf,
         signalledOf
<1> USE DEF StepOfPromise, phaseOf, outcomeOf, authorityOf, signalledOf, PhaseOf,
            AwaitingStates
<1>1. CASE row.state \in AwaitingStates /\ row'.state = "RUNNING"
  <2>1. Promise!Approve
    BY <1>a, <1>1 DEF Promise!Approve
  <2>2. QED
    BY <2>1 DEF Promise!PromiseNext
<1>2. CASE \/ row.state \in AwaitingStates /\ row'.state = "CANCELLED"
           \/ row.state = "RUNNING" /\ row'.state = "REVIEW_REQUIRED"
  <2>1. Promise!Stop
    BY <1>a, <1>2 DEF Promise!Stop
  <2>2. QED
    BY <2>1 DEF Promise!PromiseNext
<1>3. CASE /\ row.state = "RUNNING" /\ row'.state = "AWAITING_REAPPROVAL"
           /\ NoneClaimed(row)
  <2>1. \A a \in Actions : OutcomeOf(row.act[a]) # "claimed"
    BY <1>a, <1>3, Outcomes DEF NoneClaimed
  <2>2. Promise!AskAgain
    BY <1>a, <1>3, <2>1 DEF Promise!AskAgain
  <2>3. QED
    BY <2>2 DEF Promise!PromiseNext
<1>4. CASE /\ row.state = "RUNNING" /\ row'.state \in CompletedStates
           /\ AllFinished(row.act)
  <2>1. \A a \in Actions : OutcomeOf(row.act[a]) = "resolved"
    BY <1>a, <1>4, Outcomes DEF AllFinished
  <2>2. Promise!Complete
    BY <1>a, <1>4, <2>1 DEF Promise!Complete, CompletedStates
  <2>3. QED
    BY <2>2 DEF Promise!PromiseNext
<1>5. QED
  BY <1>1, <1>2, <1>3, <1>4 DEF StateEdit

\* An edit of the action whose turn it is resolves it, fails it, withdraws its
\* intent, or is no news.
LEMMA ActionEditKeepsPromise ==
  ASSUME TypeOK, Orderly(row), NEW a \in Actions, ActionEdit(row, row', a),
         UNCHANGED <<claims, signals>>
  PROVE  StepOfPromise
<1>a. /\ row.act \in [Actions -> ActionStates]
      /\ UNCHANGED <<authorityOf, signalledOf>>
      /\ row.state = "RUNNING" /\ Due(row, a)
  BY DEF TypeOK, StoreTypeOK, Incident, ActionEdit, authorityOf, signalledOf
<1>b. PICK act \in ActionTransitions(row.act[a]) \ {row.act[a]} :
        /\ row'.act = [row.act EXCEPT ![a] = act]
        /\ \/ /\ act \in FinishedActionStates \cup {"EXECUTING", "RESULT_RECORDED"}
              /\ row'.state = "RUNNING"
           \/ /\ act \in {"STALE_IDENTITY", "REAPPROVAL_REQUIRED", "FAILED",
                          "INCONCLUSIVE", "IN_DOUBT"}
              /\ row'.state = "REVIEW_REQUIRED"
           \/ /\ act = "PLANNED"
              /\ row'.state = "AWAITING_REAPPROVAL"
  BY DEF ActionEdit
<1>c. outcomeOf' = [outcomeOf EXCEPT ![a] = OutcomeOf(act)]
  <2>1. \A b \in Actions : row'.act[b] = IF b = a THEN act ELSE row.act[b]
    BY <1>a, <1>b
  <2>2. QED
    BY <2>1 DEF outcomeOf
<1>d. /\ phaseOf = "running" /\ outcomeOf[a] \in {"open", "claimed"}
      /\ \A b \in Actions : b < a => outcomeOf[b] = "resolved"
  <2>1. phaseOf = "running"
    BY <1>a DEF phaseOf, PhaseOf, AwaitingStates
  <2>2. \A b \in Actions :
            row.act[b] \in ActionStates /\ outcomeOf[b] = OutcomeOf(row.act[b])
    BY <1>a DEF outcomeOf
  <2>3. QED
    BY <1>a, <2>1, <2>2, Outcomes DEF Due
<1>e. Promise!Due(a)
  BY <1>d DEF Promise!Due, phaseOf, outcomeOf
<1>1. CASE act \in FinishedActionStates
  <2>1. OutcomeOf(act) = "resolved" /\ phaseOf' = phaseOf
    BY <1>a, <1>b, <1>1, Outcomes
       DEF phaseOf, FinishedActionStates, ActionStates
  <2>2. Promise!Resolve(a)
    BY <1>a, <1>c, <1>e, <2>1
       DEF Promise!Resolve, phaseOf, outcomeOf, authorityOf, signalledOf
  <2>3. QED
    BY <2>2 DEF StepOfPromise, Promise!PromiseNext
<1>2. CASE act \in {"EXECUTING", "RESULT_RECORDED"}
  <2>1. \/ row.act[a] = "PLANNED" /\ act = "EXECUTING"
        \/ row.act[a] = "APPLYING" /\ act = "RESULT_RECORDED"
    BY <1>2, <1>a, <1>b DEF ActionTransitions, Due
  <2>2. OutcomeOf(act) = outcomeOf[a]
    BY <1>a, <2>1 DEF outcomeOf, OutcomeOf, FinishedActionStates
  <2>3. outcomeOf' = outcomeOf /\ phaseOf' = phaseOf
    BY <1>a, <1>b, <1>c, <1>2, <2>2 DEF outcomeOf, phaseOf, FinishedActionStates
  <2>4. QED
    BY <1>a, <2>3 DEF StepOfPromise, Kept
<1>3. CASE act \in {"STALE_IDENTITY", "REAPPROVAL_REQUIRED", "FAILED",
                    "INCONCLUSIVE", "IN_DOUBT"}
  <2>1. OutcomeOf(act) = "failed" /\ phaseOf' = "ended"
    BY <1>b, <1>3 DEF OutcomeOf, FinishedActionStates, phaseOf, PhaseOf,
                      AwaitingStates
  <2>2. Promise!Fail(a)
    BY <1>a, <1>c, <1>e, <2>1
       DEF Promise!Fail, phaseOf, outcomeOf, authorityOf, signalledOf
  <2>3. QED
    BY <2>2 DEF StepOfPromise, Promise!PromiseNext
<1>4. CASE act = "PLANNED"
  <2>1. row.act[a] = "EXECUTING" /\ phaseOf' = "asking"
    BY <1>a, <1>b, <1>4 DEF ActionTransitions, Due, FinishedActionStates, phaseOf,
                            PhaseOf, AwaitingStates
  <2>2. ASSUME NEW b \in Actions
        PROVE  outcomeOf[b] # "claimed"
    <3>1. CASE b = a
      BY <2>1, <3>1 DEF outcomeOf, OutcomeOf
    <3>2. CASE b < a
      BY <1>d, <3>2
    <3>3. CASE a < b
      <4>1. row.act[a] \notin FinishedActionStates
        BY <2>1 DEF FinishedActionStates
      <4>2. row.act[b] = "PLANNED"
        BY <3>3, <4>1 DEF Orderly
      <4>3. QED
        BY <4>2 DEF outcomeOf, OutcomeOf
    <3>4. QED
      BY <3>1, <3>2, <3>3, NAssumption DEF Actions
  <2>3. outcomeOf' = outcomeOf
    <3>1. OutcomeOf(act) = outcomeOf[a]
      BY <1>4, <2>1 DEF outcomeOf, OutcomeOf, FinishedActionStates
    <3>2. QED
      BY <1>c, <3>1 DEF outcomeOf
  <2>4. Promise!AskAgain
    BY <1>a, <1>d, <2>1, <2>2, <2>3
       DEF Promise!AskAgain, phaseOf, outcomeOf, authorityOf, signalledOf
  <2>5. QED
    BY <2>4 DEF StepOfPromise, Promise!PromiseNext
<1>5. QED
  BY <1>b, <1>1, <1>2, <1>3, <1>4

-----------------------------------------------------------------------------
(* Steps *)

\* A claim is authority for the action whose turn it is, given once.
LEMMA ClaimKeepsPromise ==
  ASSUME TypeOK, Orderly(row), AuthorityInv, NEW p \in Passes, ClaimAction(p),
         ClaimActionExecution(p, exec[p].act, exec[p].approval, exec[p].waiter),
         claims' = [claims EXCEPT ![exec[p].act] = @ \cup {p}]
  PROVE  StepOfPromise
<1>0. PICK a \in Actions : a = exec[p].act
  BY DEF TypeOK, ExecTypeOK, Execution
<1>a. /\ row.act \in [Actions -> ActionStates]
      /\ claims \in [Actions -> SUBSET Passes]
  BY DEF TypeOK, ExecTypeOK, Execution, StoreTypeOK, Incident
<1>1. /\ row.state = "RUNNING" /\ row'.state = "RUNNING"
      /\ row.act[a] = "EXECUTING"
      /\ row'.act = [row.act EXCEPT ![a] = "APPLYING"]
  BY <1>0, <1>a DEF ClaimActionExecution, CanClaim, TypeOK, StoreTypeOK, Incident
<1>2. claims[a] = {} /\ UNCHANGED signals
  BY <1>0, <1>a, <1>1 DEF AuthorityInv, DescendedStates, ClaimAction
<1>3. /\ OutcomeOf("APPLYING") = "claimed" /\ OutcomeOf("EXECUTING") = "open"
  BY DEF OutcomeOf, FinishedActionStates
<1>4. /\ outcomeOf' = [outcomeOf EXCEPT ![a] = "claimed"] /\ outcomeOf[a] = "open"
      /\ phaseOf' = phaseOf /\ phaseOf = "running" /\ UNCHANGED signalledOf
  BY <1>a, <1>1, <1>2, <1>3
     DEF outcomeOf, phaseOf, PhaseOf, AwaitingStates, signalledOf
<1>5. a \notin authorityOf /\ authorityOf' = authorityOf \cup {a}
  BY <1>0, <1>a, <1>2 DEF authorityOf
<1>6. \A b \in Actions : b < a => outcomeOf[b] = "resolved"
  BY <1>a, <1>1, Outcomes DEF Orderly, outcomeOf
<1>7. Promise!Authorise(a)
  BY <1>a, <1>4, <1>5, <1>6
     DEF Promise!Authorise, Promise!Due, phaseOf, outcomeOf, authorityOf,
         signalledOf
<1>8. QED
  BY <1>a, <1>7 DEF StepOfPromise, Promise!PromiseNext

\* A signal is sent under authority, once.
LEMMA SignalKeepsPromise ==
  ASSUME TypeOK, AuthorityInv, NEW p \in Passes, SendTermination(p)
  PROVE  StepOfPromise
<1>0. PICK a \in Actions : a = exec[p].act
  BY DEF TypeOK, ExecTypeOK, Execution
<1>a. signals \in [Actions -> SUBSET Signal]
  BY DEF TypeOK, ExecTypeOK
<1>1. /\ p \in claims[a] /\ signals[a] = {}
      /\ UNCHANGED <<phaseOf, outcomeOf, authorityOf>>
  BY <1>0 DEF SendTermination, AuthorityInv, storeVars, phaseOf, outcomeOf, authorityOf
<1>2. CASE UNCHANGED signals
  BY <1>1, <1>2 DEF StepOfPromise, Kept, signalledOf
<1>3. CASE signals' = [signals EXCEPT ![a] = @ \cup {SignalOf(p, a)}]
  <2>1. /\ a \in authorityOf \ signalledOf
        /\ signalledOf' = signalledOf \cup {a}
    BY <1>a, <1>1, <1>3 DEF authorityOf, signalledOf
  <2>2. Promise!Signal(a)
    BY <1>1, <2>1
       DEF Promise!Signal, phaseOf, outcomeOf, authorityOf, signalledOf
  <2>3. QED
    BY <1>a, <2>2 DEF StepOfPromise, Promise!PromiseNext
<1>4. QED
  BY <1>0, <1>2, <1>3 DEF SendTermination

\* An executor that neither claims nor signals makes no history.
LEMMA ExecutorWithoutEffect ==
  ASSUME TypeOK, NEW p \in Passes, ExecutorStep(p), UNCHANGED row,
         ~SendTermination(p)
  PROVE  UNCHANGED <<claims, signals>>
<1>1. ~ClaimActionExecution(p, exec[p].act, exec[p].approval, exec[p].waiter)
  <2>1. exec[p].act \in Actions /\ row \in Incident
    BY DEF TypeOK, ExecTypeOK, Execution, StoreTypeOK
  <2>2. QED
    BY <2>1 DEF ClaimActionExecution, CanClaim, Incident
<1>2. QED
  BY <1>1 DEF ExecutorStep, RecordIntent, ValidateProposal, ClaimAction,
     RecheckPolicy, VerifyRelationship, histVars

\* Without a new incident and a signal, nothing the operator was promised moves.
LEMMA OtherwiseKept ==
  ASSUME TypeOK, LoopIndexOK, [Next]_vars, UNCHANGED row,
         \A p \in Passes : ~SendTermination(p)
  PROVE  StepOfPromise
<1>1. ASSUME NEW p \in Passes, ExecutorStep(p)
      PROVE  UNCHANGED <<claims, signals>>
  BY <1>1, ExecutorWithoutEffect
<1>2. ASSUME NEW p \in Passes, PassStep(p)
      PROVE  UNCHANGED <<claims, signals>>
  BY <1>2, PassStepFrame
<1>3. ASSUME NEW p \in Passes, Prompt(p) \/ Crash(p) \/ Interrupt(p)
      PROVE  UNCHANGED <<claims, signals>>
  BY <1>3 DEF Prompt, Crash, Interrupt, PassCrash, PassInterrupt, execVars,
              histVars
<1>4. UNCHANGED <<claims, signals>>
  BY <1>1, <1>2, <1>3, EnvironmentFrame DEF Next, vars, execVars, histVars
<1>5. QED
  BY <1>4 DEF StepOfPromise, Kept, phaseOf, outcomeOf, authorityOf, signalledOf

\* Every step is a step of the promise, or leaves it alone.
LEMMA PromiseStep ==
  ASSUME TypeOK, LoopIndexOK, OrderInv, AuthorityInv, [Next]_vars
  PROVE  StepOfPromise
<1>a. Orderly(row)
  BY DEF OrderInv
<1>1. ASSUME NEW p \in Passes, row' = view[p], Edit(row, view[p]), PassStep(p)
      PROVE  StepOfPromise
  <2>1. UNCHANGED <<claims, signals>>
    BY <1>1, PassStepFrame
  <2>2. StateEdit(row, row') \/ \E a \in Actions : ActionEdit(row, row', a)
    BY <1>1 DEF Edit
  <2>3. QED
    BY <1>a, <2>1, <2>2, StateEditKeepsPromise, ActionEditKeepsPromise
<1>2. CASE row' # row
  BY <1>a, <1>1, <1>2, RowChanges, ClaimKeepsPromise
<1>3. CASE \E p \in Passes : SendTermination(p)
  BY <1>3, SignalKeepsPromise
<1>4. QED
  BY <1>2, <1>3, OtherwiseKept

\* Both begin with everything asked of the operator and nothing done.
LEMMA StartsPromise == Init => Promise!PromiseInit
<1> SUFFICES ASSUME Init
             PROVE  Promise!PromiseInit
  OBVIOUS
<1>1. /\ row = PlannedIncident /\ claims = [a \in Actions |-> {}]
      /\ signals = [a \in Actions |-> {}]
  BY DEF Init, StoreInit, ExecInit
<1>2. /\ PhaseOf(row.state) = "asking"
      /\ \A a \in Actions : OutcomeOf(row.act[a]) = "open"
  BY <1>1 DEF PlannedIncident, PhaseOf, OutcomeOf, AwaitingStates,
              FinishedActionStates
<1>3. QED
  BY <1>1, <1>2 DEF Promise!PromiseInit

\* The passes, their store and their executors together keep the promise made to
\* the operator.
THEOREM WorkflowKeepsPromise == Spec => KeepsPromise
<1>1. Init => Promise!PromiseInit
  BY StartsPromise
<1>2. TypeOK /\ LoopIndexOK /\ OrderInv /\ AuthorityInv /\ [Next]_vars =>
        [Promise!PromiseNext]_(Promise!promiseVars)
  BY PromiseStep DEF StepOfPromise, Kept, phaseOf, outcomeOf, authorityOf,
                     signalledOf, Promise!promiseVars
<1>3. QED
  BY <1>1, <1>2, TypeCorrect, OrderHolds, AuthorityHolds, PTL
     DEF Spec, KeepsPromise, Promise!PromiseSpec

-----------------------------------------------------------------------------
(* Undisturbed, the passes settle what they begin *)

\* No pass crashes or is interrupted, and no lease lapses.
Undisturbed == Faults \cap {"crash", "interrupt", "lease"} = {}

Settled(value) == InFlight(value) = {} /\ value.state # "RUNNING"

\* Where an undisturbed pass holds the lease.
Working(label) == label \notin Ended \cup {"start", "prompt", "acquire"}

\* A pass gives the lease back, and takes it, over a settled incident; it chooses
\* what to do next while nothing is in flight.
Owed(label, value) ==
    /\ label \in {"admit", "release"} => Settled(value)
    /\ label \in {"enter", "reconcile", "step"} => InFlight(value) = {}

InHand(p) ==
    /\ Owed(pc[p], row)
    /\ pc[p] = "load" => Owed(next[p], row)
    /\ pc[p] = "checkpoint" => p \in fresh /\ Owed(next[p], view[p])

\* A pass works under the lease, alone, and whoever does not work has left
\* nothing behind.
SettledInv ==
    /\ leaseOwner = NoPass => Settled(row)
    /\ leaseOwner # NoPass => leaseLive /\ Working(pc[leaseOwner])
    /\ \A p \in Passes : Working(pc[p]) => leaseOwner = p /\ InHand(p)

\* The only action that can be in flight is the one its owner is at, between the
\* intent and the result.
LEMMA OnlyItsOwnInFlight ==
  ASSUME TypeOK, LoopIndexOK, OrderInv, NEW p \in Passes, leaseOwner = p
  PROVE  /\ Choosing(p) \/ pc[p] = "final" => InFlight(row) = {}
         /\ pc[p] \in {"execute", "executing", "interpret", "recorded", "verify"}
                => /\ index[p] \in Actions
                   /\ row.state = "RUNNING"
                   /\ \A b \in Actions \ {index[p]} :
                            row.act[b] \notin InFlightStates
<1>a. Placed(p) /\ Orderly(row)
  BY DEF OrderInv
<1>1. ASSUME Choosing(p)
      PROVE  InFlight(row) = {}
  <2>1. Due(row, index[p]) /\ row.act[index[p]] = "PLANNED"
    BY <1>a, <1>1 DEF Choosing, Placed, Fits, DecidingLabels
  <2>2. index[p] \in Actions
    BY <1>1 DEF Choosing, LoopIndexOK, InLoop, LoopLabels, LoopContinuations
  <2>3. ASSUME NEW b \in Actions
        PROVE  row.act[b] \notin InFlightStates
    BY <1>a, <2>1, <2>2, <2>3
       DEF Orderly, Due, Actions, FinishedActionStates, InFlightStates
  <2>4. QED
    BY <2>3 DEF InFlight
<1>2. ASSUME pc[p] = "final"
      PROVE  InFlight(row) = {}
  <2>1. AllFinished(row.act)
    BY <1>a, <1>2 DEF Placed, Fits, DecidingLabels
  <2>2. QED
    BY <2>1 DEF AllFinished, InFlight, FinishedActionStates, InFlightStates
<1>3. ASSUME pc[p] \in {"execute", "executing", "interpret", "recorded", "verify"}
      PROVE  /\ index[p] \in Actions
             /\ row.state = "RUNNING"
             /\ \A b \in Actions \ {index[p]} : row.act[b] \notin InFlightStates
  <2>1. row.act[index[p]] \in InFlightStates /\ row.state = "RUNNING"
    BY <1>a, <1>3 DEF Placed, Fits, DecidingLabels, InFlightStates
  <2>2. index[p] \in Actions
    BY <1>3 DEF LoopIndexOK, InLoop, LoopLabels, LoopContinuations
  <2>3. ASSUME NEW b \in Actions \ {index[p]}
        PROVE  row.act[b] \notin InFlightStates
    BY <1>a, <2>1, <2>2, <2>3, NAssumption
       DEF Orderly, Actions, FinishedActionStates, InFlightStates
  <2>4. QED
    BY <2>1, <2>2, <2>3
<1>4. QED
  BY <1>1, <1>2, <1>3

\* A working pass that moves on keeps its work in hand if what it owes there is so.
LEMMA InHandByMove ==
  ASSUME TypeOK, NEW p \in Passes,
         \/ \E label \in Labels \ {"load", "checkpoint"} :
                Goto(p, label) /\ Working(label) /\ Owed(label, row')
         \/ \E label \in Continuations :
                LoadThen(p, label) /\ Owed(label, row')
         \/ \E value, label :
                CheckpointThen(p, value, label) /\ p \in fresh' /\ Owed(label, value)
  PROVE  Working(pc'[p]) /\ InHand(p)'
<1>a. /\ pc \in [Passes -> Labels] /\ next \in [Passes -> Continuations]
      /\ view \in [Passes -> Incident]
  BY DEF TypeOK
<1>b. Working("load") /\ Working("checkpoint")
  BY DEF Working, Ended
<1>1. ASSUME NEW label \in Labels \ {"load", "checkpoint"}, Goto(p, label),
             Working(label), Owed(label, row')
      PROVE  Working(pc'[p]) /\ InHand(p)'
  <2>1. pc'[p] = label
    BY <1>1, <1>a DEF Goto
  <2>2. QED
    BY <1>1, <2>1 DEF InHand, Owed, Settled, InFlight
<1>2. ASSUME NEW label \in Continuations, LoadThen(p, label), Owed(label, row')
      PROVE  Working(pc'[p]) /\ InHand(p)'
  <2>1. pc'[p] = "load" /\ next'[p] = label
    BY <1>2, <1>a DEF LoadThen
  <2>2. QED
    BY <1>2, <1>b, <2>1 DEF InHand, Owed, Settled, InFlight
<1>3. ASSUME NEW value, NEW label, CheckpointThen(p, value, label),
             p \in fresh', Owed(label, value)
      PROVE  Working(pc'[p]) /\ InHand(p)'
  <2>1. pc'[p] = "checkpoint" /\ next'[p] = label /\ view'[p] = value
    BY <1>3, <1>a DEF CheckpointThen
  <2>2. QED
    BY <1>3, <1>b, <2>1 DEF InHand, Owed, Settled, InFlight
<1>4. QED
  BY <1>1, <1>2, <1>3

\* Stopping the incident with nothing in flight settles it.
LEMMA StopIncidentSettles ==
  ASSUME TypeOK, NEW p \in Passes, view[p] = row, InFlight(row) = {},
         p \in fresh', NEW state, state # "RUNNING", StopIncident(p, state)
  PROVE  Working(pc'[p]) /\ InHand(p)'
<1> DEFINE value == [row EXCEPT !.state = state]
<1>1. value.act = row.act /\ value.state = state
  BY DEF TypeOK, StoreTypeOK, Incident
<1>2. Owed("release", value)
  BY <1>1 DEF Owed, Settled, InFlight
<1>3. CheckpointThen(p, value, "release")
  BY DEF StopIncident
<1>4. QED
  BY <1>2, <1>3, InHandByMove

\* So does stopping it at the one action that was.
LEMMA StopActionSettles ==
  ASSUME TypeOK, NEW p \in Passes, view[p] = row, NEW a \in Actions,
         \A b \in Actions \ {a} : row.act[b] \notin InFlightStates,
         p \in fresh', NEW act, act \notin InFlightStates, StopAction(p, a, act)
  PROVE  Working(pc'[p]) /\ InHand(p)'
<1> DEFINE value == [row EXCEPT !.act[a] = act, !.state = "REVIEW_REQUIRED"]
<1>1. value.act = [row.act EXCEPT ![a] = act] /\ value.state = "REVIEW_REQUIRED"
      /\ row.act \in [Actions -> ActionStates]
  BY DEF TypeOK, StoreTypeOK, Incident
<1>2. Owed("release", value)
  BY <1>1 DEF Owed, Settled, InFlight
<1>3. CheckpointThen(p, value, "release")
  BY DEF StopAction
<1>4. QED
  BY <1>2, <1>3, InHandByMove

\* Finishing that action leaves nothing in flight for the loop.
LEMMA FinishActionClears ==
  ASSUME TypeOK, NEW p \in Passes, view[p] = row, NEW a \in Actions,
         \A b \in Actions \ {a} : row.act[b] \notin InFlightStates,
         p \in fresh', NEW act, act \notin InFlightStates, FinishAction(p, a, act)
  PROVE  Working(pc'[p]) /\ InHand(p)'
<1> DEFINE value == [row EXCEPT !.act[a] = act]
<1>1. value.act = [row.act EXCEPT ![a] = act]
      /\ row.act \in [Actions -> ActionStates]
  BY DEF TypeOK, StoreTypeOK, Incident
<1>2. Owed("step", value)
  BY <1>1 DEF Owed, Settled, InFlight
<1>3. CheckpointThen(p, value, "step")
  BY DEF FinishAction
<1>4. QED
  BY <1>2, <1>3, InHandByMove

\* A renewal never fails for a pass that holds a live lease of a running incident.
LEMMA RenewalKept ==
  ASSUME TypeOK, NEW p \in Passes, HoldsLease(p), row.state = "RUNNING",
         NEW label \in Continuations, RenewThen(p, label), Owed(label, row)
  PROVE  HoldsLease(p)' /\ Working(pc'[p]) /\ InHand(p)'
<1>1. RenewLease(p) /\ LoadThen(p, label)
  BY DEF RenewThen, CanRenew, ActiveIncidentStates
<1>2. UNCHANGED <<row, leaseOwner, leaseLive>>
  BY <1>1 DEF RenewLease
<1>3. Owed(label, row')
  BY <1>2
<1>4. QED
  BY <1>1, <1>2, <1>3, InHandByMove DEF HoldsLease

\* A deciding pass, in its code up to the intent, keeps its work in hand.
LEMMA ChoiceInHand ==
  ASSUME TypeOK, LoopIndexOK, OrderInv, NEW p \in Passes, HoldsLease(p), InHand(p),
         pc[p] \in DecidingLabels => view[p] = row /\ p \in fresh,
         \/ Admit(p) \/ Enter(p) \/ Reconcile(p) \/ Step(p)
         \/ RenewBeforeObservation(p) \/ Observe(p) \/ GateBeforeRenewal(p)
         \/ RenewBeforeIntent(p) \/ GateBeforeIntent(p)
  PROVE  HoldsLease(p)' /\ Working(pc'[p]) /\ InHand(p)'
<1> USE DEF storeVars
<1>a. /\ decision[p] \in {"none", "approve", "reject"}
      /\ leaseOwner = p /\ Placed(p)
  BY DEF TypeOK, HoldsLease, OrderInv
<1>b. \A label \in {"enter", "release", "step", "final", "renew1", "gate1", "renew2"} :
        label \in Labels \ {"load", "checkpoint"} /\ Working(label)
  BY DEF Labels, Continuations, Working, Ended
<1>c. \A label \in Labels \ {"admit", "release", "enter", "reconcile", "step"} :
        \A value : Owed(label, value)
  BY DEF Owed
<1>1. CASE Admit(p)
  <2>1. /\ view[p] = row /\ p \in fresh /\ UNCHANGED <<row, fresh, leaseOwner, leaseLive>>
        /\ Settled(row)
    BY <1>1 DEF Admit, DecidingLabels, InHand, Owed
  <2>2. HoldsLease(p)' /\ InFlight(row) = {} /\ p \in fresh'
    BY <2>1 DEF HoldsLease, Settled
  <2>3. CASE Goto(p, "enter") \/ Goto(p, "release")
    <3>1. Owed("enter", row') /\ Owed("release", row')
      BY <2>1 DEF Owed, Settled
    <3>2. QED
      BY <1>b, <2>2, <2>3, <3>1, InHandByMove
  <2>4. CASE StopIncident(p, "CANCELLED")
    BY <2>1, <2>2, <2>4, StopIncidentSettles
  <2>5. CASE CheckpointThen(p, [view[p] EXCEPT !.state = "RUNNING",
                                               !.approval = p], "enter")
    <3> DEFINE value == [row EXCEPT !.state = "RUNNING", !.approval = p]
    <3>1. value.act = row.act
      BY DEF TypeOK, StoreTypeOK, Incident
    <3>2. Owed("enter", value)
      BY <2>2, <3>1 DEF Owed, InFlight
    <3>3. CheckpointThen(p, value, "enter")
      BY <2>1, <2>5
    <3>4. QED
      BY <2>2, <3>2, <3>3, InHandByMove
  <2>6. QED
    BY <1>1, <1>a, <2>3, <2>4, <2>5 DEF Admit
<1>2. CASE Enter(p)
  <2>1. view[p] = row /\ InFlight(row) = {}
    BY <1>2 DEF Enter, DecidingLabels, InHand, Owed
  <2>2. CASE row.state = "RUNNING" /\ RenewThen(p, "reconcile")
    <3>1. Owed("reconcile", row) /\ "reconcile" \in Continuations
      BY <2>1 DEF Owed, Continuations
    <3>2. QED
      BY <2>2, <3>1, RenewalKept
  <2>3. CASE row.state # "RUNNING" /\ Goto(p, "release") /\ UNCHANGED storeVars
    <3>1. Owed("release", row') /\ HoldsLease(p)'
      BY <2>1, <2>3 DEF Owed, Settled, HoldsLease
    <3>2. QED
      BY <1>b, <2>3, <3>1, InHandByMove
  <2>4. QED
    BY <1>2, <2>1, <2>2, <2>3 DEF Enter
<1>3. CASE Reconcile(p)
  <2>1. /\ view[p] = row /\ p \in fresh /\ UNCHANGED <<row, fresh, leaseOwner, leaseLive>>
        /\ InFlight(row) = {}
    BY <1>3 DEF Reconcile, DecidingLabels, InHand, Owed
  <2>2. HoldsLease(p)' /\ p \in fresh'
    BY <2>1 DEF HoldsLease
  <2>3. CASE StopIncident(p, "REVIEW_REQUIRED")
    BY <2>1, <2>2, <2>3, StopIncidentSettles
  <2>4. CASE Goto(p, "step")
    <3>1. Owed("step", row')
      BY <2>1 DEF Owed
    <3>2. QED
      BY <1>b, <2>2, <2>4, <3>1, InHandByMove
  <2>5. QED
    BY <1>3, <2>1, <2>3, <2>4 DEF Reconcile
<1>4. CASE Step(p)
  <2>1. /\ view[p] = row /\ p \in fresh /\ UNCHANGED <<row, fresh, leaseOwner, leaseLive>>
        /\ InFlight(row) = {}
    BY <1>4 DEF Step, DecidingLabels, InHand, Owed
  <2>2. HoldsLease(p)' /\ p \in fresh'
    BY <2>1 DEF HoldsLease
  <2>3. CASE StopIncident(p, "REVIEW_REQUIRED")
    BY <2>1, <2>2, <2>3, StopIncidentSettles
  <2>4. CASE Goto(p, "final") \/ Goto(p, "renew1")
    BY <1>b, <1>c, <2>2, <2>4, InHandByMove
  <2>5. QED
    BY <1>4, <2>3, <2>4 DEF Step
<1>5. CASE RenewBeforeObservation(p) \/ RenewBeforeIntent(p)
  <2>1. row.state = "RUNNING"
    BY <1>5, <1>a DEF RenewBeforeObservation, RenewBeforeIntent, Placed, Fits,
                      DecidingLabels
  <2>2. PICK label \in {"observe", "gate2"} : RenewThen(p, label)
    BY <1>5 DEF RenewBeforeObservation, RenewBeforeIntent
  <2>3. Owed(label, row) /\ label \in Continuations
    BY DEF Owed, Continuations
  <2>4. QED
    BY <2>1, <2>2, <2>3, RenewalKept
<1>6. CASE Observe(p)
  <2>1. /\ view[p] = row /\ p \in fresh /\ UNCHANGED <<row, fresh, leaseOwner, leaseLive>>
        /\ InFlight(row) = {}
    BY <1>6, <1>a, OnlyItsOwnInFlight DEF Observe, DecidingLabels, Choosing
  <2>2. HoldsLease(p)' /\ p \in fresh'
    BY <2>1 DEF HoldsLease
  <2> DEFINE a == index[p]
  <2>3. a \in Actions /\ \A b \in Actions \ {a} : row.act[b] \notin InFlightStates
    BY <1>6, <2>1
       DEF Observe, InFlight, LoopIndexOK, InLoop, LoopLabels, LoopContinuations
  <2>4. CASE StopIncident(p, "REVIEW_REQUIRED")
    BY <2>1, <2>2, <2>4, StopIncidentSettles
  <2>5. ASSUME NEW act \in {"STALE_IDENTITY", "REAPPROVAL_REQUIRED"},
               StopAction(p, a, act)
        PROVE  Working(pc'[p]) /\ InHand(p)'
    <3>1. act \notin InFlightStates
      BY DEF InFlightStates
    <3> HIDE DEF a
    <3>2. QED
      BY <2>1, <2>2, <2>3, <2>5, <3>1, StopActionSettles
  <2>6. CASE FinishAction(p, a, "SKIPPED_RESOLVED")
    <3>1. "SKIPPED_RESOLVED" \notin InFlightStates
      BY DEF InFlightStates
    <3> HIDE DEF a
    <3>2. QED
      BY <2>1, <2>2, <2>3, <2>6, <3>1, FinishActionClears
  <2>7. CASE Goto(p, "gate1")
    BY <1>b, <1>c, <2>2, <2>7, InHandByMove
  <2>8. Sights(a) \subseteq
            {"absent", "reused", "outside_policy", "new_waiters", "actionable"}
    BY <1>6, SightsType DEF Observe
  <2>9. QED
    BY <1>6, <2>2, <2>4, <2>5, <2>6, <2>7, <2>8 DEF Observe
<1>7. CASE GateBeforeRenewal(p) \/ GateBeforeIntent(p)
  <2>1. /\ view[p] = row /\ p \in fresh /\ UNCHANGED <<row, fresh, leaseOwner, leaseLive>>
        /\ InFlight(row) = {}
    BY <1>7, <1>a, OnlyItsOwnInFlight
       DEF GateBeforeRenewal, GateBeforeIntent, DecidingLabels, Choosing
  <2>2. HoldsLease(p)' /\ p \in fresh'
    BY <2>1 DEF HoldsLease
  <2>3. CASE Closed(p)
    BY <2>1, <2>2, <2>3, StopIncidentSettles DEF Closed
  <2>4. CASE Goto(p, "renew2")
    BY <1>b, <1>c, <2>2, <2>4, InHandByMove
  <2>5. CASE CheckpointThen(p, [view[p] EXCEPT !.act[index[p]] = "EXECUTING"],
                            "execute")
    <3> DEFINE value == [view[p] EXCEPT !.act[index[p]] = "EXECUTING"]
    <3>1. Owed("execute", value)
      BY DEF Owed
    <3> HIDE DEF value
    <3>2. QED
      BY <2>2, <2>5, <3>1, InHandByMove DEF value
  <2>6. QED
    BY <1>7, <2>2, <2>3, <2>4, <2>5 DEF GateBeforeRenewal, GateBeforeIntent
<1>8. QED
  BY <1>1, <1>2, <1>3, <1>4, <1>5, <1>6, <1>7

\* So does a pass between its call of the executor and the end.
LEMMA ResultInHand ==
  ASSUME TypeOK, LoopIndexOK, OrderInv, NEW p \in Passes, HoldsLease(p), InHand(p),
         pc[p] \in DecidingLabels => view[p] = row /\ p \in fresh,
         \/ Execute(p) \/ ExecutorReturns(p) \/ Interpret(p) \/ Recorded(p)
         \/ Verify(p) \/ Final(p)
  PROVE  HoldsLease(p)' /\ Working(pc'[p]) /\ InHand(p)'
<1> DEFINE a == index[p]
<1>a. HoldsLease(p)' /\ leaseOwner = p /\ UNCHANGED <<row, fresh>>
  BY DEF HoldsLease, Execute, ExecutorReturns, Interpret, Recorded, Verify,
         Final, storeVars
<1>b. Placed(p)
  BY <1>a DEF OrderInv
<1>c. /\ \A label \in {"executing", "verify"} :
            label \in Labels \ {"load", "checkpoint"} /\ Working(label)
      /\ \A label \in {"executing", "interpret", "recorded", "verify"} :
            \A value : Owed(label, value)
  BY DEF Labels, Continuations, Working, Ended, Owed
<1>1. CASE Execute(p)
  BY <1>1, <1>a, <1>c, InHandByMove DEF Execute
<1>2. CASE ExecutorReturns(p)
  <2>1. "interpret" \in Continuations /\ LoadThen(p, "interpret")
    BY <1>2 DEF ExecutorReturns, Continuations
  <2>2. QED
    BY <1>a, <1>c, <2>1, InHandByMove
<1>3. CASE Interpret(p) \/ Recorded(p) \/ Verify(p)
  <2>1. /\ view[p] = row /\ p \in fresh'
        /\ a \in Actions
        /\ \A b \in Actions \ {a} : row.act[b] \notin InFlightStates
    BY <1>3, <1>a, OnlyItsOwnInFlight
       DEF Interpret, Recorded, Verify, DecidingLabels
  <2>2. ASSUME NEW act \in {"IN_DOUBT", "FAILED", "INCONCLUSIVE"},
               StopAction(p, a, act)
        PROVE  Working(pc'[p]) /\ InHand(p)'
    <3>1. act \notin InFlightStates
      BY DEF InFlightStates
    <3> HIDE DEF a
    <3>2. QED
      BY <2>1, <2>2, <3>1, StopActionSettles
  <2>3. CASE Interpret(p)
    <3>1. row.act[a] \in {"EXECUTING", "APPLYING"}
      BY <1>b, <2>3 DEF Interpret, Placed, Fits, DecidingLabels
    <3>2. CASE CheckpointThen(p, [view[p] EXCEPT !.act[a] = "PLANNED",
                                       !.state = "AWAITING_REAPPROVAL"],
                              "release")
      <4> DEFINE value == [row EXCEPT !.act[a] = "PLANNED",
                                      !.state = "AWAITING_REAPPROVAL"]
      <4>1. /\ value.act = [row.act EXCEPT ![a] = "PLANNED"]
            /\ value.state = "AWAITING_REAPPROVAL"
            /\ row.act \in [Actions -> ActionStates]
        BY DEF TypeOK, StoreTypeOK, Incident
      <4>2. Owed("release", value)
        BY <2>1, <4>1 DEF Owed, Settled, InFlight, InFlightStates
      <4>3. CheckpointThen(p, value, "release")
        BY <2>1, <3>2
      <4> HIDE DEF value
      <4>4. QED
        BY <1>a, <2>1, <4>2, <4>3, InHandByMove
    <3>3. CASE CheckpointThen(p, [view[p] EXCEPT !.act[a] = "RESULT_RECORDED",
                                                 !.result[a] = exec[p].result],
                              "recorded")
      <4> DEFINE value == [view[p] EXCEPT !.act[a] = "RESULT_RECORDED",
                                          !.result[a] = exec[p].result]
      <4>1. Owed("recorded", value)
        BY <1>c
      <4> HIDE DEF value
      <4>2. QED
        BY <1>a, <2>1, <3>3, <4>1, InHandByMove DEF value
    <3>4. QED
      BY <1>a, <2>1, <2>2, <2>3, <3>1, <3>2, <3>3 DEF Interpret
  <2>4. CASE Goto(p, "verify")
    BY <1>a, <1>c, <2>4, InHandByMove
  <2>5. CASE FinishAction(p, a, "SUCCEEDED")
    <3>1. "SUCCEEDED" \notin InFlightStates
      BY DEF InFlightStates
    <3> HIDE DEF a
    <3>2. QED
      BY <1>a, <2>1, <2>5, <3>1, FinishActionClears
  <2>6. QED
    BY <1>3, <1>a, <2>2, <2>3, <2>4, <2>5 DEF Recorded, Verify
<1>4. CASE Final(p)
  <2>1. view[p] = row /\ p \in fresh' /\ InFlight(row) = {}
    BY <1>4, <1>a, OnlyItsOwnInFlight DEF Final, DecidingLabels
  <2>2. PICK state \in TerminalStates : StopIncident(p, state)
    BY <1>4 DEF Final, TerminalStates
  <2>3. state # "RUNNING"
    BY DEF TerminalStates
  <2>4. QED
    BY <1>a, <2>1, <2>2, <2>3, StopIncidentSettles
<1>5. QED
  BY <1>1, <1>2, <1>3, <1>4, <1>a

\* The owner of a live lease saves what it edited: nobody changed the incident
\* since, and the tables refuse none of its edits.
LEMMA CheckpointInHand ==
  ASSUME TypeOK, OrderInv, NEW p \in Passes, HoldsLease(p), InHand(p),
         Checkpoint(p)
  PROVE  HoldsLease(p)' /\ Working(pc'[p]) /\ InHand(p)'
<1>1. CanSave(p, view[p])
  <2>1. Orderly(row) /\ Edit(row, view[p])
    BY DEF Checkpoint, HoldsLease, OrderInv, Placed
  <2>2. row \in Incident /\ view[p] \in Incident /\ p \in fresh
    BY DEF Checkpoint, InHand, TypeOK, StoreTypeOK
  <2>3. QED
    BY <2>1, <2>2, EditIsLegal DEF CanSave
<1>2. SaveIncident(p, view[p])
  BY <1>1 DEF Checkpoint
<1>3. HoldsLease(p)' /\ row' = view[p]
  BY <1>2 DEF SaveIncident, HoldsLease
<1>4. Owed(next[p], row')
  BY <1>3 DEF Checkpoint, InHand
<1>5. next[p] \in Continuations
  BY DEF TypeOK
<1>6. "release" \in Labels \ {"load", "checkpoint"} /\ Working("release")
  BY DEF Labels, Continuations, Working, Ended
<1>7. CASE next[p] = "release" /\ Goto(p, "release")
  BY <1>3, <1>4, <1>6, <1>7, InHandByMove
<1>8. CASE LoadThen(p, next[p])
  BY <1>3, <1>4, <1>5, <1>8, InHandByMove
<1>9. QED
  BY <1>1, <1>7, <1>8 DEF Checkpoint

\* Whatever a working pass does, it goes on working with its work in hand, or gives
\* the lease back over a settled incident.
LEMMA WorkGoesOn ==
  ASSUME TypeOK, LoopIndexOK, CurrentInv, OrderInv, NEW p \in Passes,
         HoldsLease(p), InHand(p), Working(pc[p]), PassStep(p)
  PROVE  \/ HoldsLease(p)' /\ Working(pc'[p]) /\ InHand(p)'
         \/ leaseOwner' = NoPass /\ Settled(row)' /\ ~Working(pc'[p])
<1>a. /\ leaseOwner = p
      /\ pc[p] \in DecidingLabels => view[p] = row /\ p \in fresh
      /\ pc[p] \notin {"start", "acquire"}
      /\ pc \in [Passes -> Labels] /\ next \in [Passes -> Continuations]
  BY DEF HoldsLease, CurrentInv, OwnerIsCurrent, Working, TypeOK
<1>1. CASE \/ Admit(p) \/ Enter(p) \/ Reconcile(p) \/ Step(p)
           \/ RenewBeforeObservation(p) \/ Observe(p) \/ GateBeforeRenewal(p)
           \/ RenewBeforeIntent(p) \/ GateBeforeIntent(p)
  BY <1>1, <1>a, ChoiceInHand
<1>2. CASE \/ Execute(p) \/ ExecutorReturns(p) \/ Interpret(p) \/ Recorded(p)
           \/ Verify(p) \/ Final(p)
  BY <1>2, <1>a, ResultInHand
<1>3. CASE Checkpoint(p)
  BY <1>3, CheckpointInHand
<1>4. CASE Load(p)
  <2>1. HoldsLease(p)' /\ row' = row
    BY <1>4 DEF Load, LoadIncident, HoldsLease
  <2>2. Owed(next[p], row')
    BY <1>4, <2>1 DEF Load, InHand
  <2>3. next[p] \in Labels \ {"load", "checkpoint"} /\ Working(next[p])
    BY <1>a DEF Labels, Continuations, Working, Ended
  <2>4. Goto(p, next[p])
    BY <1>4 DEF Load
  <2>5. QED
    BY <2>1, <2>2, <2>3, <2>4, InHandByMove
<1>5. CASE Release(p)
  <2>1. pc'[p] = "done" /\ leaseOwner' = NoPass /\ row' = row
    BY <1>5, <1>a DEF Release, ReleaseLease, End
  <2>2. Settled(row)
    BY <1>5 DEF Release, InHand, Owed
  <2>3. QED
    BY <2>1, <2>2 DEF Settled, InFlight, Working, Ended
<1>6. QED
  BY <1>1, <1>2, <1>3, <1>4, <1>5, <1>a DEF PassStep, WorkflowStep, Start, Acquire

\* A step that concerns no pass at work keeps all of that.
LEMMA SettledKept ==
  ASSUME TypeOK, SettledInv, UNCHANGED <<row, leaseOwner, leaseLive>>,
         fresh \subseteq fresh',
         \A q \in Passes :
            \/ pc'[q] = pc[q] /\ next'[q] = next[q] /\ view'[q] = view[q]
            \/ ~Working(pc[q]) /\ ~Working(pc'[q])
  PROVE  SettledInv'
<1>1. leaseOwner' = NoPass => Settled(row)'
  BY DEF SettledInv, Settled, InFlight
<1>2. leaseOwner' # NoPass => leaseLive' /\ Working(pc[leaseOwner])'
  BY DEF SettledInv, TypeOK, StoreTypeOK
<1>3. ASSUME NEW q \in Passes, Working(pc'[q])
      PROVE  leaseOwner' = q /\ InHand(q)'
  <2>1. /\ pc'[q] = pc[q] /\ next'[q] = next[q] /\ view'[q] = view[q]
        /\ leaseOwner = q /\ InHand(q)
    BY <1>3 DEF SettledInv
  <2>2. Owed(pc'[q], row') /\ (pc'[q] = "load" => Owed(next'[q], row'))
    BY <2>1 DEF InHand
  <2>3. pc'[q] = "checkpoint" => q \in fresh' /\ Owed(next'[q], view'[q])
    BY <2>1 DEF InHand
  <2>4. QED
    BY <2>1, <2>2, <2>3 DEF InHand, Owed, Settled, InFlight
<1>4. QED
  BY <1>1, <1>2, <1>3 DEF SettledInv, Working

\* Undisturbed, every step keeps it.
LEMMA SettledStep ==
  ASSUME Undisturbed, TypeOK, LoopIndexOK, CurrentInv, OrderInv, SettledInv,
         [Next]_vars
  PROVE  SettledInv'
<1> USE PassAssumption
<1>a. /\ pc \in [Passes -> Labels] /\ next \in [Passes -> Continuations]
      /\ leaseOwner \in Passes \cup {NoPass}
  BY DEF TypeOK, StoreTypeOK
<1>b. \A q \in Passes : Working(pc[q]) => HoldsLease(q) /\ InHand(q)
  BY DEF SettledInv, HoldsLease
<1>1. ASSUME NEW p \in Passes, PassStep(p), Working(pc[p])
      PROVE  SettledInv'
  <2>1. OthersStill(p)
    BY <1>1, PassStepLocal
  <2>2. ASSUME NEW q \in Passes \ {p}
        PROVE  ~Working(pc'[q])
    BY <1>1, <1>b, <2>1, <2>2 DEF OthersStill, HoldsLease
  <2>3. \/ HoldsLease(p)' /\ Working(pc'[p]) /\ InHand(p)'
        \/ leaseOwner' = NoPass /\ Settled(row)' /\ ~Working(pc'[p])
    BY <1>1, <1>b, WorkGoesOn
  <2>4. CASE HoldsLease(p)' /\ Working(pc'[p]) /\ InHand(p)'
    <3>1. leaseOwner' = p /\ leaseLive'
      BY <2>4 DEF HoldsLease
    <3>2. QED
      BY <2>2, <2>4, <3>1 DEF SettledInv, Working
  <2>5. CASE leaseOwner' = NoPass /\ Settled(row)' /\ ~Working(pc'[p])
    BY <2>2, <2>5 DEF SettledInv, Working
  <2>6. QED
    BY <2>3, <2>4, <2>5
<1>2. ASSUME NEW p \in Passes, PassStep(p), ~Working(pc[p])
      PROVE  SettledInv'
  <2>1. OthersStill(p)
    BY <1>2, PassStepLocal
  <2>2. CASE Start(p)
    <3>1. /\ UNCHANGED <<row, leaseOwner, leaseLive>> /\ fresh \subseteq fresh'
      BY <2>2 DEF Start, LoadIncident
    <3>2. ~Working(pc'[p])
      BY <2>2, <1>a DEF Start, End, Goto, Working, Ended
    <3>3. QED
      BY <1>2, <2>1, <3>1, <3>2, SettledKept DEF OthersStill
  <2>3. CASE AcquireLease(p) /\ LoadThen(p, "admit")
    <3>1. leaseOwner = NoPass
      BY <1>2, <1>a, <2>3 DEF SettledInv, AcquireLease, CanAcquire
    <3>2. leaseOwner' = p /\ leaseLive' /\ row' = row
      BY <2>3 DEF AcquireLease
    <3>3. Owed("admit", row') /\ "admit" \in Continuations
      BY <3>1, <3>2 DEF SettledInv, Owed, Continuations
    <3>4. Working(pc'[p]) /\ InHand(p)'
      BY <2>3, <3>3, InHandByMove
    <3>5. ASSUME NEW q \in Passes \ {p}
          PROVE  ~Working(pc'[q])
      BY <1>b, <2>1, <3>1, <3>5 DEF OthersStill, HoldsLease
    <3>6. QED
      BY <3>2, <3>4, <3>5 DEF SettledInv, Working
  <2>4. CASE End(p, "done") /\ UNCHANGED storeVars
    <3>1. ~Working(pc'[p]) /\ UNCHANGED <<row, leaseOwner, leaseLive, fresh>>
      BY <2>4, <1>a DEF End, Working, Ended, storeVars
    <3>2. QED
      BY <1>2, <2>1, <3>1, SettledKept DEF OthersStill
  <2>5. pc[p] \in {"start", "acquire"}
    BY <1>2 DEF Working, Ended, PassStep, WorkflowStep, Start, Acquire, Admit,
       Enter, Reconcile, Step, RenewBeforeObservation, Observe,
       GateBeforeRenewal, RenewBeforeIntent, GateBeforeIntent, Execute,
       ExecutorReturns, Interpret, Recorded, Verify, Final, Checkpoint, Load,
       Release
  <2>6. Start(p) \/ Acquire(p)
    BY <1>2, <2>5 DEF PassStep, WorkflowStep, Admit,
       Enter, Reconcile, Step, RenewBeforeObservation, Observe,
       GateBeforeRenewal, RenewBeforeIntent, GateBeforeIntent, Execute,
       ExecutorReturns, Interpret, Recorded, Verify, Final, Checkpoint, Load,
       Release
  <2>7. QED
    BY <2>2, <2>3, <2>4, <2>6 DEF Acquire
<1>3. ASSUME NEW p \in Passes, Prompt(p)
      PROVE  SettledInv'
  <2>1. /\ ~Working(pc[p]) /\ ~Working(pc'[p])
        /\ UNCHANGED <<row, leaseOwner, leaseLive, fresh, next, view>>
        /\ \A q \in Passes \ {p} : pc'[q] = pc[q]
    BY <1>3, <1>a DEF Prompt, Goto, Working, Ended, storeVars
  <2>2. QED
    BY <2>1, SettledKept
<1>4. ASSUME NEW p \in Passes, ExecutorStep(p), UNCHANGED passVars
      PROVE  SettledInv'
  <2>1. CASE UNCHANGED storeVars
    BY <1>4, <2>1, SettledKept DEF storeVars, passVars
  <2>2. CASE ClaimActionExecution(p, exec[p].act, exec[p].approval,
                                  exec[p].waiter)
             /\ exec[p].at = "claim"
    <3>1. leaseOwner' = p /\ leaseLive' /\ leaseOwner = p
      BY <2>2 DEF ClaimActionExecution, CanClaim, HoldsLease
    <3>2. pc'[p] = "executing"
      BY <1>4, <2>2 DEF CurrentInv, passVars
    <3>3. InHand(p)' /\ Working(pc'[p])
      BY <3>2 DEF InHand, Owed, Working, Ended
    <3>4. ASSUME NEW q \in Passes \ {p}
          PROVE  ~Working(pc'[q])
      BY <1>4, <1>b, <3>1, <3>4 DEF HoldsLease, passVars
    <3>5. QED
      BY <3>1, <3>3, <3>4 DEF SettledInv, Working
  <2>3. QED
    BY <1>4, <2>1, <2>2 DEF ExecutorStep, RecordIntent, ValidateProposal,
       ClaimAction, RecheckPolicy, SendTermination, VerifyRelationship
<1>5. \A p \in Passes : ~Crash(p) /\ ~Interrupt(p)
  BY DEF Undisturbed, Crash, Interrupt, PassCrash, PassInterrupt
<1>6. CASE Environment
  <2>1. UNCHANGED <<row, leaseOwner, leaseLive, fresh, pc, next, view>>
    BY <1>6 DEF Undisturbed, Environment, Clock, ApprovalExpires,
                DeadlinePasses, storeVars, passVars
  <2>2. QED
    BY <2>1, SettledKept
<1>7. CASE UNCHANGED vars
  BY <1>7, SettledKept DEF vars, storeVars, passVars
<1>8. QED
  BY <1>1, <1>2, <1>3, <1>4, <1>5, <1>6, <1>7 DEF Next

\* Undisturbed, whenever no pass is under way nothing is in flight, the incident
\* is not left RUNNING, and nobody holds its lease.
THEOREM QuietIsSettled == Undisturbed => (Spec => []QuietMeansSettled)
<1> SUFFICES ASSUME Undisturbed
             PROVE  Spec => []QuietMeansSettled
  OBVIOUS
<1>1. Init => SettledInv
  BY PassAssumption DEF Init, StoreInit, PlannedIncident, SettledInv, Settled,
     InFlight, InFlightStates, Working
<1>2. TypeOK /\ LoopIndexOK /\ CurrentInv /\ OrderInv /\ SettledInv /\ [Next]_vars
        => SettledInv'
  BY SettledStep
<1>3. TypeOK /\ SettledInv => QuietMeansSettled
  BY DEF TypeOK, StoreTypeOK, SettledInv, Settled, QuietMeansSettled, Quiet,
         Working
<1>4. QED
  BY <1>1, <1>2, <1>3, TypeCorrect, OwnersAreCurrent, OrderHolds, PTL DEF Spec

================================================================================
