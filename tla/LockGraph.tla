------------------------------ MODULE LockGraph ------------------------------
(***************************************************************************)
(* The PostgreSQL sessions the plan is about, and what one reading of the   *)
(* lock graph may show of them. Each action's target is one transaction:    *)
(* (blocker_pid, backend_start, xact_start). PostgreSQL is external; that    *)
(* transaction is there until it ends, and its PID may then be another's.    *)
(*                                                                         *)
(* Who waits for it, and whether it is idle in transaction, changes freely  *)
(* at any time and is not persistent, so it is chosen at each reading: the  *)
(* readings are the same as with variables that change between them.        *)
(***************************************************************************)
CONSTANT Actions  \* the actions of the plan, one target each

VARIABLE blocker  \* blocker[a]: who is behind the blocker PID of action a

graphVars == <<blocker>>

GraphTypeOK == blocker \in [Actions -> {"held", "gone", "reused"}]

GraphInit == blocker = [a \in Actions |-> "held"]

\* The target's transaction ends by itself; its PID may come to be that of
\* another transaction or backend.
BlockerEnds(a) ==
    /\ blocker[a] = "held"
    /\ blocker' = [blocker EXCEPT ![a] = "gone"]

BlockerPidReused(a) ==
    /\ blocker[a] = "gone"
    /\ blocker' = [blocker EXCEPT ![a] = "reused"]

\* What the rows of a complete snapshot say of the target of action a:
\*   absent          no row has the blocker PID
\*   reused          a row has the PID with another identity
\*   outside_policy  rows of the exact target, none within the policy
\*   new_waiters     rows within the policy, none of an approved waiter
\*   actionable      a row of an approved waiter within the policy
Sights(a) ==
    CASE blocker[a] = "held" ->
            {"absent", "outside_policy", "new_waiters", "actionable"}
      [] blocker[a] = "gone" -> {"absent"}
      [] blocker[a] = "reused" -> {"absent", "reused"}

\* _target_rows is not empty.
ExactSights == {"outside_policy", "new_waiters", "actionable"}

\* One snapshot shows every target at once.
Snapshots == {s \in [Actions -> {"absent", "reused"} \cup ExactSights] :
                \A a \in Actions : s[a] \in Sights(a)}

=============================================================================
