---------------------------- MODULE TerminationPlan ----------------------------
(***************************************************************************)
(* build_termination_plan of src/src/incident_workflow.py: what an incident   *)
(* is to terminate, from the agent's proposals and a lock snapshot of now.   *)
(*                                                                         *)
(* A backend is its PID and the start of its transaction, with which its     *)
(* backend start and its database go. A row of the snapshot is a waiter, the *)
(* backend it waits for, and whether relationship_policy_errors finds nothing *)
(* else against the row: a lock wait, a client backend, idle in transaction, *)
(* of the database of the snapshot. A proposal names the PID of a waiter and *)
(* a blocker.                                                               *)
(***************************************************************************)
EXTENDS Integers, FiniteSets

CONSTANT MaxActions  \* INCIDENT_MAX_ACTIONS

ASSUME MaxActionsAssumption == MaxActions \in Nat \ {0}

\* Mutant: any blocker of the snapshot is eligible.
AnyRelationship(rows) == {r \in rows : r.waiter.pid # r.blocker.pid}

\* actionable_relationships.
ActionableRelationships(rows) ==
    {r \in rows : r.safe /\ r.waiter.pid # r.blocker.pid}

\* _proposal_matches_row.
Matches(proposal, r) ==
    proposal.waiter = r.waiter.pid /\ proposal.blocker = r.blocker

IsMatched(rows, proposal) ==
    \E r \in ActionableRelationships(rows) : Matches(proposal, r)

\* Two identities of one PID among the eligible blockers.
Conflicting(rows) ==
    \E q, r \in ActionableRelationships(rows) :
        q.blocker.pid = r.blocker.pid /\ q.blocker # r.blocker

Targets(rows, proposed, expand) ==
    {r.blocker : r \in {q \in ActionableRelationships(rows) :
                            expand \/ \E p \in proposed : Matches(p, q)}}

\* A truncated snapshot, a proposal that is stale or outside the policy, and a
\* batch that is too large have no plan at all.
PlanIsRefused(snapshot, proposed, expand) ==
    \/ snapshot.truncated
    \/ \E p \in proposed : ~IsMatched(snapshot.rows, p)
    \/ Conflicting(snapshot.rows)
    \/ Targets(snapshot.rows, proposed, expand) = {}
    \/ Cardinality(Targets(snapshot.rows, proposed, expand)) > MaxActions

Waits(rows, backend) ==
    \E r \in ActionableRelationships(rows) : r.waiter.pid = backend.pid

\* The order of the plan: backends that wait themselves come last, and then the
\* older transaction first.
Before(rows, t, u) ==
    IF Waits(rows, t) # Waits(rows, u) THEN Waits(rows, u)
    ELSE t.xact < u.xact \/ (t.xact = u.xact /\ t.pid < u.pid)

Least(pids) == CHOOSE p \in pids : \A q \in pids : p <= q

\* The waiter by which the action is known: of those proposed for it, if any.
Representative(waiters, proposed) ==
    LET pids == {w.pid : w \in waiters} IN
    IF pids \cap proposed # {} THEN Least(pids \cap proposed) ELSE Least(pids)

PlannedAction(rows, targets, proposed, t) ==
    LET waiters == {r.waiter : r \in {q \in ActionableRelationships(rows) :
                                        q.blocker = t}} IN
    [target |-> t,
     ordinal |-> 1 + Cardinality({u \in targets : Before(rows, u, t)}),
     waiters |-> waiters,
     pid |-> Representative(waiters, {p.waiter : p \in {q \in proposed :
                                                        q.blocker = t}})]

BuildTerminationPlan(snapshot, proposed, expand) ==
    LET targets == Targets(snapshot.rows, proposed, expand) IN
    IF PlanIsRefused(snapshot, proposed, expand) THEN {}
    ELSE {PlannedAction(snapshot.rows, targets, proposed, t) : t \in targets}

=============================================================================
