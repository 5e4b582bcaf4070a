---------------------------- MODULE ProviderCircuit ----------------------------
(***************************************************************************)
(* ResilientProvider of src/src/llm_provider.py: calls of complete by the    *)
(* threads of one process, over a primary route and a fallback, each behind *)
(* a _ProviderCircuit. try_acquire and the record_ methods hold the lock of *)
(* the circuit, so each one is a step, and other calls come between the     *)
(* admission of a call and the record of what became of it.                 *)
(***************************************************************************)
EXTENDS Integers

CONSTANTS
    Callers,     \* the threads that call complete, one call each at a time
    HasFallback, \* whether a fallback is configured
    Threshold    \* failure_threshold

ASSUME CallersAssumption == HasFallback \in BOOLEAN /\ Threshold \in Nat \ {0}

VARIABLES
    circuit,   \* circuit[r]: the _ProviderCircuit of route r
    call,      \* call[c]: the call of caller c
    abandoned  \* history: the routes with a probe interrupted since their last record

providerVars == <<circuit, call, abandoned>>

Routes == {"primary", "fallback"}

\* The consecutive failures are counted up to the threshold, with which alone
\* they are compared. The clock is whether the cooldown of an opened circuit is
\* over.
Circuit ==
    [failures : 0..Threshold, opened : BOOLEAN, cooled : BOOLEAN,
     probing : BOOLEAN]

Closed == [failures |-> 0, opened |-> FALSE, cooled |-> FALSE, probing |-> FALSE]

\* at: no call, waiting for the answer of a route, between the routes, or over.
\* probe: it was admitted as the one trial of a circuit past its cooldown.
Call == [at : Routes \cup {"idle", "failover", "answered", "failed"},
         probe : BOOLEAN]

NoCall == [at |-> "idle", probe |-> FALSE]

ProviderTypeOK ==
    /\ circuit \in [Routes -> Circuit]
    /\ call \in [Callers -> Call]
    /\ abandoned \subseteq Routes

ProviderInit ==
    /\ circuit = [r \in Routes |-> Closed]
    /\ call = [c \in Callers |-> NoCall]
    /\ abandoned = {}

SetCall(c, at, probe) == call' = [call EXCEPT ![c] = [at |-> at, probe |-> probe]]

-----------------------------------------------------------------------------
(* _ProviderCircuit *)

\* try_acquire returns True.
CanAcquire(r) ==
    ~circuit[r].opened \/ (circuit[r].cooled /\ ~circuit[r].probing)

\* An admission past the cooldown is the circuit's one trial.
Trying(circ) == IF circ.opened THEN [circ EXCEPT !.probing = TRUE] ELSE circ

Acquire(c, r) ==
    /\ CanAcquire(r)
    /\ circuit' = [circuit EXCEPT ![r] = Trying(circuit[r])]
    /\ SetCall(c, r, circuit[r].opened)

\* Mutant: a success closes the circuit and leaves its count.
AfterSuccessCounted(circ) == [Closed EXCEPT !.failures = circ.failures]

\* record_success.
AfterSuccess(circ) == Closed

\* Mutant: a response that is no outage changes nothing.
AfterResponseIgnored(circ) == circ

\* record_non_transient_response.
AfterResponse(circ) == AfterSuccess(circ)

\* record_transient_failure. A failed probe opens the circuit again at any count.
AfterFailure(circ) ==
    LET failures == IF circ.failures = Threshold THEN Threshold
                                                 ELSE circ.failures + 1
        opens == circ.probing \/ failures = Threshold IN
    [failures |-> failures, opened |-> circ.opened \/ opens,
     cooled |-> circ.cooled /\ ~opens, probing |-> FALSE]

Record(r, after) ==
    /\ circuit' = [circuit EXCEPT ![r] = after]
    /\ abandoned' = abandoned \ {r}

-----------------------------------------------------------------------------
(* complete and _call_fallback *)

\* The route to go on with when the primary is not asked or has failed.
FailoverOrFail(c) ==
    IF HasFallback THEN SetCall(c, "failover", FALSE)
                   ELSE SetCall(c, "failed", FALSE)

StartCall(c) ==
    /\ call[c].at = "idle"
    /\ \/ Acquire(c, "primary")
       \/ /\ ~CanAcquire("primary")
          /\ FailoverOrFail(c)
          /\ UNCHANGED circuit
    /\ UNCHANGED abandoned

StartFallback(c) ==
    /\ call[c].at = "failover"
    /\ \/ Acquire(c, "fallback")
       \/ /\ ~CanAcquire("fallback")
          /\ SetCall(c, "failed", FALSE)
          /\ UNCHANGED circuit
    /\ UNCHANGED abandoned

RouteAnswers(c) ==
    /\ call[c].at \in Routes
    /\ Record(call[c].at, AfterSuccess(circuit[call[c].at]))
    /\ SetCall(c, "answered", FALSE)

\* An error that is no outage ends the call, on either route.
RouteRejects(c) ==
    /\ call[c].at \in Routes
    /\ Record(call[c].at, AfterResponse(circuit[call[c].at]))
    /\ SetCall(c, "failed", FALSE)

\* A timeout, a lost connection, a rate limit or a server error.
PrimaryFails(c) ==
    /\ call[c].at = "primary"
    /\ Record("primary", AfterFailure(circuit["primary"]))
    /\ FailoverOrFail(c)

FallbackFails(c) ==
    /\ call[c].at = "fallback"
    /\ Record("fallback", AfterFailure(circuit["fallback"]))
    /\ SetCall(c, "failed", FALSE)

\* Ctrl-C is no Exception: nothing is recorded of the call.
InterruptCall(c) ==
    /\ SetCall(c, "idle", FALSE)
    /\ abandoned' = IF call[c].probe THEN abandoned \cup {call[c].at} ELSE abandoned
    /\ UNCHANGED circuit

\* The caller has its answer or its exception.
TakeAnswer(c) ==
    /\ call[c].at \in {"answered", "failed"}
    /\ SetCall(c, "idle", FALSE)
    /\ UNCHANGED <<circuit, abandoned>>

CallStep(c) ==
    \/ StartFallback(c)
    \/ RouteAnswers(c)
    \/ RouteRejects(c)
    \/ PrimaryFails(c)
    \/ FallbackFails(c)

CoolDown(r) ==
    /\ circuit[r].opened /\ ~circuit[r].cooled
    /\ circuit' = [circuit EXCEPT ![r] = [@ EXCEPT !.cooled = TRUE]]
    /\ UNCHANGED <<call, abandoned>>

-----------------------------------------------------------------------------

\* A circuit is open when, and only when, its failures since the last success
\* reached the threshold, whatever calls were under way while it opened, failed
\* late, or were interrupted; and it is probed only while it is open.
CircuitCountsFailures ==
    \A r \in Routes :
        /\ circuit[r].opened <=> circuit[r].failures = Threshold
        /\ circuit[r].probing \/ circuit[r].cooled => circuit[r].opened

\* A circuit that refuses calls for the sake of a probe has one: some call is on
\* that route as its probe, so that its record will end the refusal. The one
\* exception is a probe that was interrupted, with no record on the route since.
ProbeIsOwned ==
    \A r \in Routes : circuit[r].probing =>
        \/ \E c \in Callers : call[c] = [at |-> r, probe |-> TRUE]
        \/ r \in abandoned

=============================================================================
