-------------------------- MODULE TerminateExecutor --------------------------
(***************************************************************************)
(* The controlled TERMINATE_BACKEND action: execute_action_proposal and      *)
(* execute_terminate_backend_proposal of src/src/executor.py, down to the    *)
(* one statement of db_tools.terminate_blocking_backend. One execution runs *)
(* for each pass that starts one; it is a sequence of reads and writes with  *)
(* other passes, sessions and the clock between any two of them.             *)
(***************************************************************************)
EXTENDS IncidentStore

VARIABLES
    blocker,  \* the sessions behind the targets (LockGraph)
    exec,     \* exec[p]: the execution started by pass p
    claims,   \* history: claims[a], the passes whose executor claimed a
    signals   \* history: signals[a], the pg_terminate_backend calls for a

histVars == <<claims, signals>>

execVars == <<exec, histVars>>

INSTANCE LockGraph

\* What a waiter found at the representative's PID is.
WaiterKinds == {"approved", "stranger"}

Execution ==
    [at       : {"idle", "intent", "validate", "claim", "policy", "send",
                 "verify", "returned"},
     act      : Actions,
     approval : Passes \cup {NoPass},
     waiter   : WaiterKinds \cup {"unknown"},
     result   : Results \cup {"NONE"}]

\* What an execution went by when it signalled, and whether the target had
\* been signalled already.
Signal == [by : Passes, approval : Passes \cup {NoPass},
           waiter : WaiterKinds \cup {"unknown"}, again : BOOLEAN]

ExecTypeOK ==
    /\ exec \in [Passes -> Execution]
    /\ claims \in [Actions -> SUBSET Passes]
    /\ signals \in [Actions -> SUBSET Signal]

NoExecution == [at |-> "idle", act |-> 1, approval |-> NoPass,
                waiter |-> "unknown", result |-> "NONE"]

ExecInit ==
    /\ exec = [p \in Passes |-> NoExecution]
    /\ claims = [a \in Actions |-> {}]
    /\ signals = [a \in Actions |-> {}]

\* The call of pass p for action a under the approval of its own copy.
BeginExecution(p, a, approval) ==
    exec' = [exec EXCEPT ![p] = [NoExecution EXCEPT !.at = "intent",
                                     !.act = a, !.approval = approval]]

Advance(p, at) == exec' = [exec EXCEPT ![p] = [@ EXCEPT !.at = at]]

Return(p, result) ==
    exec' = [exec EXCEPT ![p] = [@ EXCEPT !.at = "returned",
                                          !.result = result]]

-----------------------------------------------------------------------------

\* execute_action_proposal: the audit intent must be durable
\* (BLOCKED_AUDIT_UNAVAILABLE otherwise, which is not a refusal the workflow
\* knows), then the runtime policy must allow the action.
RecordIntent(p) ==
    /\ exec[p].at = "intent"
    /\ \/ Advance(p, "validate")
       \/ Return(p, "UNCONFIRMED")
       \/ Return(p, "REFUSED")
    /\ UNCHANGED <<storeVars, blocker, histVars>>

\* validate_action_proposal reads the lock waits afresh: the relationship of
\* the representative PID with the exact target must be there and safe. The
\* waiter's identity is whatever is at that PID now.
ValidateProposal(p) ==
    /\ exec[p].at = "validate"
    /\ \/ /\ blocker[exec[p].act] = "held"
          /\ \E waiter \in WaiterKinds :
                exec' = [exec EXCEPT ![p] = [@ EXCEPT !.at = "claim",
                                                      !.waiter = waiter]]
       \/ Return(p, "UNCONFIRMED")
    /\ UNCHANGED <<storeVars, blocker, histVars>>

\* Mutant: a refused claim is logged and the execution goes on.
ClaimActionUnheeded(p) ==
    /\ exec[p].at = "claim"
    /\ \/ /\ ClaimActionExecution(p, exec[p].act, exec[p].approval,
                                  exec[p].waiter)
          /\ claims' = [claims EXCEPT ![exec[p].act] = @ \cup {p}]
       \/ UNCHANGED <<storeVars, claims>>
    /\ Advance(p, "policy")
    /\ UNCHANGED <<blocker, signals>>

\* The claim in the incident store; every exception of it is a refusal.
ClaimAction(p) ==
    /\ exec[p].at = "claim"
    /\ \/ /\ ClaimActionExecution(p, exec[p].act, exec[p].approval,
                                  exec[p].waiter)
          /\ claims' = [claims EXCEPT ![exec[p].act] = @ \cup {p}]
          /\ Advance(p, "policy")
       \/ /\ Return(p, "REFUSED")
          /\ UNCHANGED <<storeVars, claims>>
    /\ UNCHANGED <<blocker, signals>>

\* terminate_blocking_backend checks the policy again, before and after it
\* connects; a denial and a failed connection raise, which is FAILED.
RecheckPolicy(p) ==
    /\ exec[p].at = "policy"
    /\ Advance(p, "send") \/ Return(p, "UNCONFIRMED")
    /\ UNCHANGED <<storeVars, blocker, histVars>>

\* The signal of pass p for action a.
SignalOf(p, a) ==
    [by |-> p, approval |-> exec[p].approval, waiter |-> exec[p].waiter,
     again |-> signals[a] # {}]

\* Mutant: a target that has not exited within the timeout is signalled again.
SendTerminationRetrying(p) ==
    LET a == exec[p].act IN
    /\ exec[p].at = "send"
    /\ \/ Return(p, "UNCONFIRMED") /\ UNCHANGED <<blocker, signals>>
       \/ /\ blocker[a] = "held"
          /\ signals' = [signals EXCEPT ![a] = @ \cup {SignalOf(p, a)}]
          /\ \/ blocker' = [blocker EXCEPT ![a] = "gone"] /\ Advance(p, "verify")
             \/ UNCHANGED <<blocker, exec>>
    /\ UNCHANGED <<storeVars, claims>>

\* The one statement that revalidates and signals. Either its evidence is not
\* what was validated (or it fails) and nothing is signalled, or the target is
\* signalled: it exits within the timeout, or it is still there when the call
\* gives up, and the answer may be lost with the connection in both cases.
SendTermination(p) ==
    LET a == exec[p].act IN
    /\ exec[p].at = "send"
    /\ \/ Return(p, "UNCONFIRMED") /\ UNCHANGED <<blocker, signals>>
       \/ /\ blocker[a] = "held"
          /\ signals' = [signals EXCEPT ![a] = @ \cup {SignalOf(p, a)}]
          /\ \/ /\ blocker' = [blocker EXCEPT ![a] = "gone"]
                /\ Advance(p, "verify") \/ Return(p, "UNCONFIRMED")
             \/ Return(p, "UNCONFIRMED") /\ UNCHANGED blocker
    /\ UNCHANGED <<storeVars, claims>>

\* Post-action verification reads the lock waits, which may be cut short and
\* hide a remaining relationship, and writes the outcome audit record.
VerifyRelationship(p) ==
    /\ exec[p].at = "verify"
    /\ \E result \in {"CONFIRMED", "UNCONFIRMED"} : Return(p, result)
    /\ UNCHANGED <<storeVars, blocker, histVars>>

ExecutorStep(p) ==
    \/ RecordIntent(p)
    \/ ValidateProposal(p)
    \/ ClaimAction(p)
    \/ RecheckPolicy(p)
    \/ SendTermination(p)
    \/ VerifyRelationship(p)

=============================================================================
