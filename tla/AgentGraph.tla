------------------------------ MODULE AgentGraph ------------------------------
(***************************************************************************)
(* The bounded graph of one diagnostic run: its nodes and routes              *)
(* (src/src/agent_graph.py), its model and answer steps (agent_runtime.py)    *)
(* and its turns of tool calls with their budgets (agent_tool_execution.py).  *)
(* What a node does besides - a call of the provider, a record of evidence, a *)
(* checkpoint - is conjoined by the modules that extend this one. The model   *)
(* may answer anything, so that its answers are choices.                     *)
(***************************************************************************)
EXTENDS Integers

CONSTANTS MaxIterations, MaxTotal, MaxPerTurn  \* the budgets of the run

ASSUME BudgetsAssumption ==
    /\ MaxIterations \in Nat \ {0}
    /\ MaxTotal \in Nat \ {0}
    /\ MaxPerTurn \in 1..MaxTotal

VARIABLE run

\* pending: the tool calls of the turn that are still to be made.
RunStates ==
    [at : {"start", "verify", "model", "calling", "turn", "tools", "answer",
           "finish", "user", "assistant", "episode", "finished", "over",
           "interrupted"},
     iteration : 0..MaxIterations,
     attempted : 0..MaxTotal,
     pending   : 0..(MaxPerTurn + 1),
     status    : {"none", "completed", "failed", "stopped"}]

GraphInit ==
    run = [at |-> "start", iteration |-> 0, attempted |-> 0, pending |-> 0,
           status |-> "none"]

Goto(at) == run' = [run EXCEPT !.at = at]

Finish(status) ==
    run' = [run EXCEPT !.at = "finish", !.status = status, !.pending = 0]

\* The next node is the model's, in the next iteration.
NextIteration == run' = [run EXCEPT !.at = "model", !.iteration = @ + 1]

\* DiagnosticAgent.run: the runtime policy or the security of the database
\* connections may end it; `prefetch` is whether a knowledge lookup is made ahead
\* of the model.
Verify(prefetch) ==
    /\ run.at = "verify"
    /\ \/ ~prefetch /\ \E status \in {"stopped", "failed"} : Finish(status)
       \/ run' = [run EXCEPT !.at = "model", !.attempted = IF prefetch THEN 1 ELSE 0]

\* The iterations are used up, the policy has changed, or the deadline is over.
StopAtModel ==
    /\ run.at = "model"
    /\ Finish("stopped")

AskModel ==
    /\ run.at = "model"
    /\ run.iteration < MaxIterations
    /\ Goto("calling")

ModelFails ==
    /\ run.at = "calling"
    /\ Finish("failed")

\* A response that is malformed, a part of one, an answer, or tool calls.
ModelResponds ==
    /\ run.at = "calling"
    /\ \/ \E status \in {"failed", "stopped"} : Finish(status)
       \/ Goto("answer")
       \/ \E n \in 1..(MaxPerTurn + 1) :
            run' = [run EXCEPT !.at = "turn", !.pending = n]

\* Mutant: the budget of the run is not looked at.
OverTurnBudget == run.pending > MaxPerTurn

OverBudget == run.pending > MaxPerTurn \/ run.attempted + run.pending > MaxTotal

\* run_turn: a turn over a budget has none of its calls made.
BeginTurn ==
    /\ run.at = "turn"
    /\ IF OverBudget
       THEN Finish("stopped")
       ELSE run' = [run EXCEPT !.at = "tools", !.attempted = @ + run.pending]

\* invoke_one: the deadline, and a call without an id or a name, end the run.
EndInTools ==
    /\ run.at = "tools" /\ run.pending > 0
    /\ \E status \in {"stopped", "failed"} : Finish(status)

\* A call is made, refused or failed: the run goes on to the next in any case.
CallMade ==
    /\ run.at = "tools" /\ run.pending > 0
    /\ run' = [run EXCEPT !.pending = @ - 1]

EndTurn ==
    /\ run.at = "tools" /\ run.pending = 0
    /\ NextIteration

\* answer_step: an answer that is empty or a part of one ends the run, as does one
\* that the policies refuse in the last iteration.
AnswerEnds ==
    /\ run.at = "answer"
    /\ \E status \in {"failed", "stopped"} : Finish(status)

\* Mutant: a refused draft costs no iteration.
AnswerRefusedFree ==
    /\ run.at = "answer"
    /\ Goto("model")

\* A refused draft is to be revised.
AnswerRefused ==
    /\ run.at = "answer"
    /\ run.iteration + 1 < MaxIterations
    /\ NextIteration

AnswerAccepted ==
    /\ run.at = "answer"
    /\ Finish("completed")

Ended == run.at \in {"over", "interrupted"}

\* Ctrl-C: the command line goes on with its next request.
Interrupted ==
    /\ run.at \notin {"start", "over", "interrupted"}
    /\ Goto("interrupted")

=============================================================================
