------------------------------ MODULE AgentMemory ------------------------------
(***************************************************************************)
(* SQLiteAgentMemory (src/src/agent_memory.py) as one run of the agent uses  *)
(* it: the row of agent_runs with the run's id, advanced by comparing the    *)
(* version the run holds, and the memories the run leaves in its session.   *)
(* Every method is one BEGIN IMMEDIATE transaction. It may fail before its   *)
(* commit, and after it: the row is then read again (get_run), which may     *)
(* fail too, so that the caller sees a failure of what has been done.       *)
(***************************************************************************)
EXTENDS Integers

VARIABLES
    row,       \* the row of the run's id
    held,      \* the version the run holds; 0: the run goes on without memory
    memories,  \* the memories this run left in the session
    leftover,  \* history: the row an earlier run left under the id
    erased     \* history: memories of this run were forgotten or expired

memoryVars == <<row, held, memories, leftover, erased>>

TerminalRunStates == {"COMPLETED", "FAILED", "CANCELLED"}

Absent == [status |-> "ABSENT", version |-> 0]

MemoryKinds == {"user", "assistant", "episode"}

\* run_id is the caller's to choose, so that an id may have been used before.
MemoryInit ==
    /\ leftover \in {Absent, [status |-> "RUNNING", version |-> 2],
                     [status |-> "COMPLETED", version |-> 3]}
    /\ row = leftover
    /\ held = 0
    /\ memories = {}
    /\ erased = FALSE

\* The INSERT of start_run, which an id that exists refuses.
InsertRun ==
    /\ row = Absent
    /\ row' = [status |-> "RUNNING", version |-> 1]

\* _advance_run: no terminal row changes, nor one of another version.
AdvanceRun(status) ==
    /\ row.status \notin {"ABSENT"} \cup TerminalRunStates
    /\ row.version = held
    /\ row' = [status |-> status, version |-> held + 1]

\* Whatever fails, in the store or on the way back from it, ends the use of it.
WithoutMemory == held' = 0

\* start_run of the store.
StartMemoryRun ==
    /\ \/ InsertRun /\ held' = 1
       \/ InsertRun /\ WithoutMemory
       \/ WithoutMemory /\ UNCHANGED row
    /\ UNCHANGED <<memories, leftover, erased>>

\* checkpoint_run, of a run that has memory.
CheckpointRun ==
    /\ \/ held = 0 /\ UNCHANGED <<row, held>>
       \/ /\ held # 0
          /\ \/ AdvanceRun("RUNNING") /\ held' = held + 1
             \/ AdvanceRun("RUNNING") /\ WithoutMemory
             \/ WithoutMemory /\ UNCHANGED row
    /\ UNCHANGED <<memories, leftover, erased>>

\* complete_run: `completed` is whether it returned.
CompleteRun(status, completed) ==
    /\ \/ AdvanceRun(status)
       \/ ~completed /\ UNCHANGED row
    /\ UNCHANGED <<held, memories, leftover, erased>>

\* _save_memory: `saved` is whether it returned.
SaveMemory(kind, saved) ==
    /\ \/ memories' = memories \cup {kind}
       \/ ~saved /\ UNCHANGED memories
    /\ UNCHANGED <<row, held, leftover, erased>>

\* delete_session by another process of the session.
DeleteSession ==
    /\ memories # {}
    /\ memories' = {}
    /\ erased' = TRUE
    /\ UNCHANGED <<row, held, leftover>>

\* The oldest memory goes as the thread gets a later one (_save_memory): it has
\* expired, or it is beyond max_entries_per_thread.
DropOldestMemory ==
    LET oldest == CHOOSE kind \in memories :
            \/ kind = "user"
            \/ kind = "assistant" /\ "user" \notin memories
            \/ memories = {"episode"} IN
    /\ memories # {}
    /\ memories' = memories \ {oldest}
    /\ erased' = TRUE
    /\ UNCHANGED <<row, held, leftover>>

=============================================================================
