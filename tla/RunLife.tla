-------------------------------- MODULE RunLife --------------------------------
(***************************************************************************)
(* The life of one run of the agent (run_agent): its graph (AgentGraph), the *)
(* model's routes, shared with the other threads of the process             *)
(* (ProviderCircuit), and what it keeps of itself from AgentRunContext to    *)
(* finish in the store of agent memory, which other processes use too        *)
(* (AgentMemory). What its tools find is in EvidenceRouting.                *)
(***************************************************************************)
EXTENDS AgentGraph, ProviderCircuit, AgentMemory

CONSTANT Agent  \* the caller of complete that is the run

ASSUME AgentAssumption == Agent \in Callers

VARIABLE persisted  \* whether the result says that the run is in memory

vars == <<run, persisted, providerVars, memoryVars>>

Init ==
    /\ GraphInit
    /\ persisted = FALSE
    /\ ProviderInit
    /\ MemoryInit

NoMemory == UNCHANGED <<persisted, memoryVars>>

\* AgentRunContext. Memory may be off, or its store not open.
StartRun ==
    /\ run.at = "start"
    /\ Goto("verify")
    /\ StartMemoryRun
    /\ UNCHANGED <<persisted, providerVars>>

\* A knowledge lookup ahead of the model has a checkpoint after it.
VerifyRun ==
    /\ \/ Verify(FALSE) /\ UNCHANGED memoryVars
       \/ Verify(TRUE) /\ CheckpointRun
    /\ UNCHANGED <<persisted, providerVars>>

Stop ==
    /\ StopAtModel \/ BeginTurn \/ EndInTools \/ CallMade
    /\ UNCHANGED providerVars /\ NoMemory

Ask == AskModel /\ StartCall(Agent) /\ NoMemory

NoAnswer ==
    /\ call[Agent].at = "failed"
    /\ ModelFails /\ TakeAnswer(Agent) /\ NoMemory

Response ==
    /\ call[Agent].at = "answered"
    /\ ModelResponds /\ TakeAnswer(Agent) /\ NoMemory

\* checkpoint_memory_run.
CheckpointTurn == EndTurn /\ CheckpointRun /\ UNCHANGED <<persisted, providerVars>>

Answer ==
    /\ AnswerEnds \/ AnswerRefused \/ AnswerAccepted
    /\ UNCHANGED providerVars /\ NoMemory

-----------------------------------------------------------------------------
(* finish *)

TerminalStatus ==
    CASE run.status = "completed" -> "COMPLETED"
      [] run.status = "failed" -> "FAILED"
      [] run.status = "stopped" -> "CANCELLED"

\* Mutant: the memories are kept of a run whose row could not be completed.
PersistRowUnheeded ==
    /\ run.at = "finish"
    /\ held # 0
    /\ \E completed \in BOOLEAN : CompleteRun(TerminalStatus, completed)
    /\ Goto("user")
    /\ UNCHANGED <<persisted, providerVars>>

\* _persist_memory, a transaction at a time. The first that fails ends it.
PersistRow ==
    /\ run.at = "finish"
    /\ IF held = 0
       THEN Goto("over") /\ UNCHANGED memoryVars
       ELSE \E completed \in BOOLEAN :
                /\ CompleteRun(TerminalStatus, completed)
                /\ Goto(IF completed THEN "user" ELSE "over")
    /\ UNCHANGED <<persisted, providerVars>>

AfterMemory(kind) ==
    CASE kind = "user" -> "assistant"
      [] kind = "assistant" /\ run.status = "completed" -> "episode"
      [] OTHER -> "over"

PersistMemory(kind) ==
    /\ run.at = kind
    /\ \E saved \in BOOLEAN :
        /\ SaveMemory(kind, saved)
        /\ Goto(IF saved THEN AfterMemory(kind) ELSE "over")
        /\ persisted' = (saved /\ AfterMemory(kind) = "over")
    /\ UNCHANGED providerVars

-----------------------------------------------------------------------------

Interrupt == Interrupted /\ InterruptCall(Agent) /\ NoMemory

\* The other threads of the process, and the clock of the circuits.
OtherThreads ==
    /\ \/ \E c \in Callers \ {Agent} : StartCall(c) \/ TakeAnswer(c) \/ CallStep(c)
       \/ \E r \in Routes : CoolDown(r)
    /\ UNCHANGED <<run, persisted, memoryVars>>

\* The other sessions of the memory's thread.
OtherSessions ==
    /\ DeleteSession \/ DropOldestMemory
    /\ UNCHANGED <<run, persisted, providerVars>>

RouteOfRun == CallStep(Agent) /\ UNCHANGED <<run, persisted, memoryVars>>

RunStep ==
    \/ StartRun
    \/ VerifyRun
    \/ Stop
    \/ Ask
    \/ NoAnswer
    \/ Response
    \/ CheckpointTurn
    \/ Answer
    \/ PersistRow
    \/ \E kind \in MemoryKinds : PersistMemory(kind)
    \/ RouteOfRun

Next ==
    \/ RunStep
    \/ Interrupt
    \/ OtherThreads
    \/ OtherSessions

\* The run's own thread goes on, and every call of a route ends: its client has
\* a timeout and a number of retries (timeout_seconds, max_retries).
Fairness == WF_vars(RunStep)

Spec == Init /\ [][Next]_vars /\ Fairness

-----------------------------------------------------------------------------

RunLifeTypeOK ==
    /\ run \in RunStates
    /\ persisted \in BOOLEAN
    /\ ProviderTypeOK
    /\ row \in [status : {"ABSENT", "RUNNING"} \cup TerminalRunStates, version : Nat]
    /\ held \in Nat
    /\ memories \subseteq MemoryKinds

\* The memory agrees with the run, whatever fails, is interrupted or erased in
\* between: what it holds of a run is of one whose own row is terminal, an episode
\* of a completed one, after its answer, after its request; what the result calls
\* persisted is there; a run of an id used before changes nothing of it; and no
\* advance of the row is lost.
MemoryAgrees ==
    /\ memories # {} => leftover = Absent /\ row.status \in TerminalRunStates
    /\ "episode" \in memories => row.status = "COMPLETED"
    /\ \/ erased
       \/ /\ "episode" \in memories => "assistant" \in memories
          /\ "assistant" \in memories => "user" \in memories
    /\ persisted =>
        /\ row.status = TerminalStatus
        /\ \/ erased
           \/ run.status = "completed" /\ memories = MemoryKinds
           \/ run.status # "completed" /\ memories = {"user", "assistant"}
    /\ leftover # Absent => row = leftover
    /\ held # 0 /\ row.status = "RUNNING" => row.version = held

\* Every run ends: its iterations, refused drafts and tool calls are bounded, and
\* no circuit, failover or failure of its memory leaves it waiting.
RunEnds == <>Ended

=============================================================================
