--------------------------- MODULE IsolatedExecution ---------------------------
(***************************************************************************)
(* The isolated profile: the same passes, whose executor is another process  *)
(* reached over HTTP (src/src/execution_client.py, executor_worker.py) and   *)
(* which executes nothing without a grant of the operator, kept in a second  *)
(* database that only the worker's side can write (execution_grants.py).     *)
(*                                                                         *)
(* There is one request per pass: the client never retries. exec[p] is the  *)
(* execution of that request in the worker, serving[p] the request itself.   *)
(***************************************************************************)
EXTENDS IncidentWorkflow

VARIABLES
    grant,      \* grant[a]: the state of the newest grant of action a
    grantLive,  \* grantLive[a]: it has not expired
    review,     \* the pending actions the operator is about to grant
    serving     \* serving[p]: where the request of pass p is

grantVars == <<grant, grantLive, review>>

isolatedVars == <<vars, grantVars, serving>>

Consumed == {"claimed", "recorded"}

\* The worker's HTTPServer serves one request at a time.
BeingServed == {"gate", "grant", "executing"}

IsolatedTypeOK ==
    /\ TypeOK
    /\ grant \in [Actions -> {"none", "issued"} \cup Consumed]
    /\ grantLive \in [Actions -> BOOLEAN]
    /\ review \subseteq Actions
    /\ serving \in [Passes -> {"none", "queued", "answered", "lost"}
                                    \cup BeingServed]

IsolatedInit ==
    /\ Init
    /\ grant = [a \in Actions |-> "none"]
    /\ grantLive = [a \in Actions |-> FALSE]
    /\ review = {}
    /\ serving = [p \in Passes |-> "none"]

-----------------------------------------------------------------------------
(* The operator's grants *)

\* The approve command loads the incident for its preview.
ReviewScope ==
    /\ review = {}
    /\ review' = {a \in Actions :
                    row.act[a] \in {"PLANNED", "REAPPROVAL_REQUIRED", "EXECUTING"}}
    /\ UNCHANGED <<vars, grant, grantLive, serving>>

\* Mutants: the pending grants are deleted and not replaced; a consumed grant
\* is replaced like the others.
IssueGrantsRevoking ==
    /\ review # {}
    /\ review' = {}
    /\ grant' = [a \in Actions |-> IF a \in review THEN "revoked" ELSE grant[a]]
    /\ UNCHANGED <<vars, grantLive, serving>>

IssueGrantsAgain ==
    /\ review # {}
    /\ review' = {}
    /\ grant' = [a \in Actions |-> IF a \in review THEN "issued" ELSE grant[a]]
    /\ grantLive' = [a \in Actions |-> a \in review \/ grantLive[a]]
    /\ UNCHANGED <<vars, serving>>

\* issue replaces the pending grants of the whole batch, or of none of it when
\* one of them was consumed.
IssueGrants ==
    /\ review # {}
    /\ review' = {}
    /\ IF \E a \in review : grant[a] \in Consumed
       THEN UNCHANGED <<grant, grantLive>>
       ELSE /\ grant' = [a \in Actions |->
                            IF a \in review THEN "issued" ELSE grant[a]]
            /\ grantLive' = [a \in Actions |-> a \in review \/ grantLive[a]]
    /\ UNCHANGED <<vars, serving>>

\* A grant's expiry is compared until its action is claimed in the incident.
GrantExpires(a) ==
    /\ grantLive[a]
    /\ claims[a] = {}
    /\ grantLive' = [grantLive EXCEPT ![a] = FALSE]
    /\ UNCHANGED <<vars, grant, review, serving>>

-----------------------------------------------------------------------------
(* The client *)

\* execute_remote asks the runtime policy, which raises, and sends one request.
CallExecutor(p) ==
    /\ pc[p] = "execute"
    /\ \/ /\ serving' = [serving EXCEPT ![p] = "queued"]
          /\ exec' = [exec EXCEPT ![p] = [NoExecution EXCEPT !.act = index[p]]]
          /\ Goto(p, "executing")
       \/ /\ LoadThen(p, "raised")
          /\ UNCHANGED <<serving, exec>>
    /\ UNCHANGED <<storeVars, blocker, histVars, view, index, decision,
                   grantVars>>

ReceiveAnswer(p) ==
    /\ pc[p] = "executing"
    /\ serving[p] = "answered"
    /\ LoadThen(p, "interpret")
    /\ UNCHANGED <<storeVars, blocker, execVars, view, index, decision,
                   grantVars, serving>>

\* No answer, or none the client accepts: the connection, the worker or the 30
\* seconds gave out, and the request stays wherever it is.
GiveUp(p) ==
    /\ pc[p] = "executing"
    /\ LoadThen(p, "raised")
    /\ UNCHANGED <<storeVars, blocker, execVars, view, index, decision,
                   grantVars, serving>>

-----------------------------------------------------------------------------
(* The worker *)

Serve(p) ==
    /\ serving[p] = "queued"
    /\ \A q \in Passes : serving[q] \notin BeingServed
    /\ serving' = [serving EXCEPT ![p] = "gate"]
    /\ UNCHANGED <<vars, grantVars>>

\* A gate that denies answers BLOCKED_INCIDENT_APPROVAL, or HTTP 500 when that
\* cannot even be audited.
Deny(p) ==
    /\ Return(p, "REFUSED")
    /\ \E outcome \in {"answered", "lost"} :
            serving' = [serving EXCEPT ![p] = outcome]

\* The worker loads the incident: the request must match a pending intent of
\* the pass that owns the lease, live or not, under some approval. The policy,
\* the roles of the database and the audit may deny anything.
CheckIntent(p) ==
    /\ serving[p] = "gate"
    /\ \/ /\ row.act[exec[p].act] = "EXECUTING"
          /\ row.approval # NoPass
          /\ leaseOwner = p
          /\ exec' = [exec EXCEPT ![p] = [@ EXCEPT !.approval = row.approval]]
          /\ serving' = [serving EXCEPT ![p] = "grant"]
       \/ Deny(p)
    /\ UNCHANGED <<storeVars, blocker, histVars, passVars, grantVars>>

\* Mutant: the grant is checked and stays issued.
ClaimGrantUnconsumed(p) ==
    LET a == exec[p].act IN
    /\ serving[p] = "grant"
    /\ \/ /\ grant[a] = "issued" /\ grantLive[a]
          /\ serving' = [serving EXCEPT ![p] = "executing"]
          /\ Advance(p, "intent")
       \/ Deny(p)
    /\ UNCHANGED <<storeVars, blocker, histVars, passVars, grantVars>>

\* claim, in the database of the grants: the grant of the action is consumed
\* before the executor starts. Its scope may not be that of the intent any more.
ClaimGrant(p) ==
    LET a == exec[p].act IN
    /\ serving[p] = "grant"
    /\ \/ /\ grant[a] = "issued" /\ grantLive[a]
          /\ grant' = [grant EXCEPT ![a] = "claimed"]
          /\ serving' = [serving EXCEPT ![p] = "executing"]
          /\ Advance(p, "intent")
       \/ Deny(p) /\ UNCHANGED grant
    /\ UNCHANGED <<storeVars, blocker, histVars, passVars, grantLive, review>>

\* The executor of the worker; its claim in the incident store compares the
\* expiry of the grant with the clock once more.
GrantedExecutorStep(p) ==
    /\ ExecutorStep(p)
    /\ claims' # claims => grantLive[exec[p].act]
    /\ UNCHANGED <<passVars, grantVars, serving>>

\* Mutant: the answer leaves before the result is recorded.
RecordResultLate(p) ==
    /\ serving[p] = "executing"
    /\ exec[p].at = "returned"
    /\ serving' = [serving EXCEPT ![p] = "answered"]
    /\ UNCHANGED <<vars, grantVars>>

\* record_result, then the answer; either may fail, which is HTTP 500.
RecordResult(p) ==
    LET a == exec[p].act IN
    /\ serving[p] = "executing"
    /\ exec[p].at = "returned"
    /\ \/ /\ grant' = [grant EXCEPT ![a] = "recorded"]
          /\ \E outcome \in {"answered", "lost"} :
                serving' = [serving EXCEPT ![p] = outcome]
       \/ serving' = [serving EXCEPT ![p] = "lost"] /\ UNCHANGED grant
    /\ UNCHANGED <<vars, grantLive, review>>

-----------------------------------------------------------------------------
(* Disturbances *)

\* The worker dies with the requests it has; grants survive its restart.
WorkerCrash ==
    /\ "crash" \in Faults
    /\ \E p \in Passes : serving[p] \in BeingServed
    /\ serving' = [p \in Passes |-> IF serving[p] \in BeingServed \cup {"queued"}
                                    THEN "lost" ELSE serving[p]]
    /\ exec' = [p \in Passes |->
                    IF serving[p] \in BeingServed /\ exec[p].at # "send"
                    THEN NoExecution ELSE exec[p]]
    /\ UNCHANGED <<storeVars, blocker, histVars, passVars, grantVars>>

\* The request of a pass outlives it.
DisturbPass(p) ==
    /\ PassCrash(p) \/ PassInterrupt(p)
    /\ UNCHANGED <<exec, grantVars, serving>>

IsolatedNext ==
    \/ \E p \in Passes :
        \/ (WorkflowStep(p) \/ Prompt(p) \/ Raised(p))
                /\ UNCHANGED <<grantVars, serving>>
        \/ CallExecutor(p)
        \/ ReceiveAnswer(p)
        \/ GiveUp(p)
        \/ Serve(p)
        \/ CheckIntent(p)
        \/ ClaimGrant(p)
        \/ GrantedExecutorStep(p)
        \/ RecordResult(p)
        \/ DisturbPass(p)
    \/ ReviewScope
    \/ IssueGrants
    \/ WorkerCrash
    \/ Environment /\ UNCHANGED <<grantVars, serving>>
    \/ \E a \in Actions : GrantExpires(a)

IsolatedSpec == IsolatedInit /\ [][IsolatedNext]_isolatedVars

-----------------------------------------------------------------------------
(* Safety *)

\* No claim, hence no signal, without a grant that is then gone: the two
\* databases agree in this direction whatever crashes between their commits.
ClaimsAreGranted ==
    \A a \in Actions : claims[a] # {} => grant[a] \in Consumed

\* A consumed grant is never issued again, also when the operator read the
\* incident before it was consumed: it is claimed and then recorded.
GrantsAreSingleUse ==
    [][\A a \in Actions : grant[a] \in Consumed => grant'[a] \in Consumed]_isolatedVars

\* What the incident records as the result of an action is in the operator's own
\* database before: no answer reaches a pass that was not recorded there.
OutcomesAgree ==
    \A a \in Actions :
        row.result[a] # "NONE" => grant[a] = "recorded"

\* "If the policy blocks an incident step before its execution claim, the
\* pending steps return to fresh approval" (docs/OPERATIONS.md:234-235): a pass
\* that was not allowed to send its request puts no step in doubt.
BlockedStepAsksAgain ==
    \A p \in Passes :
        pc[p] = "checkpoint" /\ index[p] # 0 /\ serving[p] = "none" =>
            view[p].act[index[p]] # "IN_DOUBT"

\* "The workflow retains IN_DOUBT / REVIEW_REQUIRED; do not mark it successful
\* just because the lock is gone" (docs/ISOLATED_EXECUTOR.md:128-130), of a
\* request whose pass has come to its end without its answer.
UnansweredStaysInDoubt ==
    \A p \in Passes :
        pc[p] = "done" /\ serving[p] \in BeingServed \cup {"queued", "lost"} =>
            row.act[exec[p].act] # "RECONCILED_RESOLVED"

=============================================================================
