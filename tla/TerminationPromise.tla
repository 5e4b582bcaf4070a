-------------------------- MODULE TerminationPromise --------------------------
(***************************************************************************)
(* What the workflow promises the operator of a batch of terminations, with  *)
(* no word of passes, leases, versions or executors: actions are taken in    *)
(* order, each only while an approved batch runs and after the ones before   *)
(* it are resolved; authority to signal a target is given once; a target is  *)
(* signalled only under that authority and only once; the first failure and   *)
(* the end of the incident are final. A signal already authorised may come   *)
(* late: the end of the incident does not recall it.                         *)
(***************************************************************************)
EXTENDS Naturals

CONSTANT Actions

VARIABLES
    phase,      \* "asking", "running", "completed" or "ended"
    outcome,    \* outcome[a]: "open", "claimed", "resolved" or "failed"
    authority,  \* the actions whose termination was ever authorised
    signalled   \* the actions whose target was ever signalled

promiseVars == <<phase, outcome, authority, signalled>>

PromiseInit ==
    /\ phase = "asking"
    /\ outcome = [a \in Actions |-> "open"]
    /\ authority = {}
    /\ signalled = {}

\* Action a is the one whose turn it is.
Due(a) ==
    /\ phase = "running"
    /\ outcome[a] \in {"open", "claimed"}
    /\ \A b \in Actions : b < a => outcome[b] = "resolved"

Approve ==
    /\ phase = "asking"
    /\ phase' = "running"
    /\ UNCHANGED <<outcome, authority, signalled>>

Authorise(a) ==
    /\ Due(a)
    /\ outcome[a] = "open"
    /\ a \notin authority
    /\ outcome' = [outcome EXCEPT ![a] = "claimed"]
    /\ authority' = authority \cup {a}
    /\ UNCHANGED <<phase, signalled>>

Signal(a) ==
    /\ a \in authority \ signalled
    /\ signalled' = signalled \cup {a}
    /\ UNCHANGED <<phase, outcome, authority>>

Resolve(a) ==
    /\ Due(a)
    /\ outcome' = [outcome EXCEPT ![a] = "resolved"]
    /\ UNCHANGED <<phase, authority, signalled>>

Fail(a) ==
    /\ Due(a)
    /\ outcome' = [outcome EXCEPT ![a] = "failed"]
    /\ phase' = "ended"
    /\ UNCHANGED <<authority, signalled>>

\* Back to the operator, with no action claimed.
AskAgain ==
    /\ phase = "running"
    /\ \A a \in Actions : outcome[a] # "claimed"
    /\ phase' = "asking"
    /\ UNCHANGED <<outcome, authority, signalled>>

Complete ==
    /\ phase = "running"
    /\ \A a \in Actions : outcome[a] = "resolved"
    /\ phase' = "completed"
    /\ UNCHANGED <<outcome, authority, signalled>>

\* Rejected by the operator, or left for review as it is.
Stop ==
    /\ phase \in {"asking", "running"}
    /\ phase' = "ended"
    /\ UNCHANGED <<outcome, authority, signalled>>

PromiseNext ==
    \/ Approve \/ AskAgain \/ Complete \/ Stop
    \/ \E a \in Actions : Authorise(a) \/ Signal(a) \/ Resolve(a) \/ Fail(a)

PromiseSpec == PromiseInit /\ [][PromiseNext]_promiseVars

=============================================================================
