---------------------------- MODULE IncidentStore ----------------------------
(***************************************************************************)
(* The durable incident of src/src/workflow_store.py: one incident row, its *)
(* actions, its approvals and its execution lease, all in one SQLite file.  *)
(* Every operator below that primes a variable is one BEGIN IMMEDIATE       *)
(* transaction; loading the row afterwards is a transaction of its own.     *)
(*                                                                         *)
(* Three abstractions, each exact for what is asked of the model:           *)
(*  - the version column: every transaction increments it and save_incident *)
(*    compares it with the caller's copy, so only "is the caller's copy of   *)
(*    the current version" matters; fresh is the set of passes for which    *)
(*    it is;                                                                *)
(*  - the clock: a lease, an approval or the deadline is compared with now,  *)
(*    so the clock is the three monotone facts those comparisons yield;      *)
(*  - identifiers: a worker id is the pass that drew it (uuid4), and a pass  *)
(*    builds at most one approval, so the approval id is that pass as well.  *)
(***************************************************************************)
EXTENDS Naturals

CONSTANTS
    N,        \* the number of actions of the plan
    Passes,   \* the workflow passes (workers) that ever run
    NoPass    \* SQL NULL in the columns that hold a pass

ASSUME NAssumption == N \in Nat \ {0}
ASSUME PassAssumption == NoPass \notin Passes

VARIABLES
    row,            \* the incident as load_incident would return it
    leaseOwner,     \* incidents.lease_owner
    leaseLive,      \* lease_expires_at is later than the clock
    fresh,          \* the passes whose copy carries the current version
    approvals,      \* the approvals table, with each approval's expiry
    deadlinePassed  \* policy.deadline_at is not later than the clock

storeVars == <<row, leaseOwner, leaseLive, fresh, approvals, deadlinePassed>>

Actions == 1..N

IncidentStates ==
    {"AWAITING_APPROVAL", "AWAITING_REAPPROVAL", "RUNNING", "COMPLETED",
     "COMPLETED_WITH_UNAPPROVED_REMAINDER", "CANCELLED", "REVIEW_REQUIRED"}

ActiveIncidentStates == {"AWAITING_APPROVAL", "AWAITING_REAPPROVAL", "RUNNING"}

ActionStates ==
    {"PLANNED", "EXECUTING", "APPLYING", "RESULT_RECORDED", "SUCCEEDED",
     "SKIPPED_RESOLVED", "RECONCILED_RESOLVED", "STALE_IDENTITY",
     "REAPPROVAL_REQUIRED", "FAILED", "INCONCLUSIVE", "IN_DOUBT"}

\* What an executor hands back: refused before the claim, some other status,
\* or the audited BACKEND_TERMINATION_CONFIRMED.
Results == {"REFUSED", "UNCONFIRMED", "CONFIRMED"}

Incident == [state    : IncidentStates,
             act      : [Actions -> ActionStates],
             approval : Passes \cup {NoPass},
             result   : [Actions -> Results \cup {"NONE"}]]

\* Mutant: the table forgets that a running incident may ask again.
IncidentTransitionsNoReapproval(s) ==
    {s} \cup
    CASE s \in {"AWAITING_APPROVAL", "AWAITING_REAPPROVAL"} ->
            {"RUNNING", "CANCELLED"}
      [] s = "RUNNING" ->
            {"COMPLETED", "COMPLETED_WITH_UNAPPROVED_REMAINDER",
             "REVIEW_REQUIRED"}
      [] OTHER -> {}

\* The states an incident in state s may be saved in.
IncidentTransitions(s) ==
    {s} \cup
    CASE s \in {"AWAITING_APPROVAL", "AWAITING_REAPPROVAL"} ->
            {"RUNNING", "CANCELLED"}
      [] s = "RUNNING" ->
            {"AWAITING_REAPPROVAL", "COMPLETED",
             "COMPLETED_WITH_UNAPPROVED_REMAINDER", "REVIEW_REQUIRED"}
      [] OTHER -> {}

\* The states an action in state s may be saved in.
ActionTransitions(s) ==
    {s} \cup
    CASE s = "PLANNED" ->
            {"EXECUTING", "SKIPPED_RESOLVED", "STALE_IDENTITY",
             "REAPPROVAL_REQUIRED"}
      [] s = "EXECUTING" ->
            {"PLANNED", "APPLYING", "IN_DOUBT", "RECONCILED_RESOLVED",
             "STALE_IDENTITY"}
      [] s = "APPLYING" ->
            {"RESULT_RECORDED", "IN_DOUBT", "RECONCILED_RESOLVED",
             "STALE_IDENTITY"}
      [] s = "RESULT_RECORDED" -> {"SUCCEEDED", "FAILED", "INCONCLUSIVE"}
      [] OTHER -> {}

StoreTypeOK ==
    /\ row \in Incident
    /\ leaseOwner \in Passes \cup {NoPass}
    /\ leaseLive \in BOOLEAN
    /\ fresh \subseteq Passes
    /\ approvals \in [Passes -> {"absent", "live", "expired"}]
    /\ deadlinePassed \in BOOLEAN

\* The incident create_lock_incident has just persisted.
PlannedIncident ==
    [state    |-> "AWAITING_APPROVAL",
     act      |-> [a \in Actions |-> "PLANNED"],
     approval |-> NoPass,
     result   |-> [a \in Actions |-> "NONE"]]

StoreInit ==
    /\ row = PlannedIncident
    /\ leaseOwner = NoPass
    /\ leaseLive = FALSE
    /\ fresh = {}
    /\ approvals = [p \in Passes |-> "absent"]
    /\ deadlinePassed = FALSE

HoldsLease(p) == leaseOwner = p /\ leaseLive

-----------------------------------------------------------------------------
(* Checkpoints *)

\* Mutant: the last writer wins.
CanSaveAlways(p, value) == TRUE

\* The checks of save_incident, on the copy value of pass p.
CanSave(p, value) ==
    /\ p \in fresh
    /\ HoldsLease(p)
    /\ value.state \in IncidentTransitions(row.state)
    /\ \A a \in Actions : value.act[a] \in ActionTransitions(row.act[a])

\* save_incident: the whole copy replaces the row and its version moves on.
\* An approval the copy carries is inserted when the table has none of its id.
SaveIncident(p, value) ==
    /\ CanSave(p, value)
    /\ row' = value
    /\ fresh' = {}
    /\ approvals' = [q \in Passes |->
                        IF q = value.approval /\ approvals[q] = "absent"
                        THEN "live" ELSE approvals[q]]
    /\ UNCHANGED <<leaseOwner, leaseLive, deadlinePassed>>

\* load_incident by pass p; what it returns is row.
LoadIncident(p) ==
    /\ fresh' = fresh \cup {p}
    /\ UNCHANGED <<row, leaseOwner, leaseLive, approvals, deadlinePassed>>

\* The approval id refers to a persisted approval that has not expired.
ApprovalIsLive(id) == id # NoPass /\ approvals[id] = "live"

\* Mutant: the claim takes the waiter's identity from the call.
CanClaimForAnyWaiter(p, a, approval, waiter) ==
    /\ row.state = "RUNNING"
    /\ ~deadlinePassed
    /\ row.act[a] = "EXECUTING"
    /\ approval = row.approval
    /\ HoldsLease(p)
    /\ ApprovalIsLive(approval)

\* The checks of claim_action_execution for action a, on the approval and the
\* waiter identity the executor of pass p presents.
CanClaim(p, a, approval, waiter) ==
    /\ row.state = "RUNNING"
    /\ ~deadlinePassed
    /\ row.act[a] = "EXECUTING"
    /\ approval = row.approval
    /\ HoldsLease(p)
    /\ waiter = "approved"
    /\ ApprovalIsLive(approval)

\* Mutant: the claim is checked and not recorded.
ClaimWithoutRecord(p, a, approval, waiter) ==
    /\ CanClaim(p, a, approval, waiter)
    /\ fresh' = {}
    /\ UNCHANGED <<row, leaseOwner, leaseLive, approvals, deadlinePassed>>

\* claim_action_execution: EXECUTING -> APPLYING under a new version.
ClaimActionExecution(p, a, approval, waiter) ==
    /\ CanClaim(p, a, approval, waiter)
    /\ row' = [row EXCEPT !.act[a] = "APPLYING"]
    /\ fresh' = {}
    /\ UNCHANGED <<leaseOwner, leaseLive, approvals, deadlinePassed>>

-----------------------------------------------------------------------------
(* The execution lease *)

CanAcquire(p) ==
    /\ row.state \in ActiveIncidentStates
    /\ leaseOwner = NoPass \/ ~leaseLive \/ leaseOwner = p

AcquireLease(p) ==
    /\ CanAcquire(p)
    /\ leaseOwner' = p
    /\ leaseLive' = TRUE
    /\ fresh' = {}
    /\ UNCHANGED <<row, approvals, deadlinePassed>>

CanRenew(p) == HoldsLease(p) /\ row.state \in ActiveIncidentStates

RenewLease(p) ==
    /\ CanRenew(p)
    /\ fresh' = {}
    /\ UNCHANGED <<row, leaseOwner, leaseLive, approvals, deadlinePassed>>

\* release_lease by its owner, live or not; IncidentLeaseUnavailable, which
\* every caller swallows, when the lease is another's.
ReleaseLease(p) ==
    /\ IF leaseOwner = p
       THEN leaseOwner' = NoPass /\ leaseLive' = FALSE /\ fresh' = {}
       ELSE UNCHANGED <<leaseOwner, leaseLive, fresh>>
    /\ UNCHANGED <<row, approvals, deadlinePassed>>

-----------------------------------------------------------------------------
(* The clock *)

LeaseExpires ==
    /\ leaseLive
    /\ leaseLive' = FALSE
    /\ UNCHANGED <<row, leaseOwner, fresh, approvals, deadlinePassed>>

ApprovalExpires(id) ==
    /\ approvals[id] = "live"
    /\ approvals' = [approvals EXCEPT ![id] = "expired"]
    /\ UNCHANGED <<row, leaseOwner, leaseLive, fresh, deadlinePassed>>

DeadlinePasses ==
    /\ ~deadlinePassed
    /\ deadlinePassed' = TRUE
    /\ UNCHANGED <<row, leaseOwner, leaseLive, fresh, approvals>>

=============================================================================
