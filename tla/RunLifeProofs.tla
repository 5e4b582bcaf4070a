----------------------------- MODULE RunLifeProofs -----------------------------
(***************************************************************************)
(* What holds of the runs of the agent and of the circuits of its model for  *)
(* any number of threads, any threshold and any budgets.                    *)
(***************************************************************************)
EXTENDS RunLife, TLAPS

-----------------------------------------------------------------------------
(* The circuits *)

\* What one step may do to the calls and the circuits.
ProviderStep ==
    \/ \E c \in Callers :
        StartCall(c) \/ TakeAnswer(c) \/ InterruptCall(c) \/ StartFallback(c)
            \/ RouteAnswers(c) \/ RouteRejects(c) \/ PrimaryFails(c) \/ FallbackFails(c)
    \/ \E r \in Routes : CoolDown(r)

\* Every step of a run, of the other threads and of the other sessions is one of
\* those for the provider, or leaves it alone.
LEMMA StepsOfTheProvider == [Next]_vars => ProviderStep \/ UNCHANGED providerVars
<1> SUFFICES ASSUME [Next]_vars
             PROVE  ProviderStep \/ UNCHANGED providerVars
  OBVIOUS
<1> USE AgentAssumption
<1>1. CASE RunStep
  <2>1. CASE StartRun
    BY <2>1 DEF StartRun
  <2>2. CASE VerifyRun
    BY <2>2 DEF VerifyRun
  <2>3. CASE Stop
    BY <2>3 DEF Stop
  <2>4. CASE Ask
    BY <2>4 DEF Ask, ProviderStep
  <2>5. CASE NoAnswer
    BY <2>5 DEF NoAnswer, ProviderStep
  <2>6. CASE Response
    BY <2>6 DEF Response, ProviderStep
  <2>7. CASE CheckpointTurn
    BY <2>7 DEF CheckpointTurn
  <2>8. CASE Answer
    BY <2>8 DEF Answer
  <2>9. CASE PersistRow
    BY <2>9 DEF PersistRow
  <2>10. CASE \E kind \in MemoryKinds : PersistMemory(kind)
    BY <2>10 DEF PersistMemory
  <2>11. CASE RouteOfRun
    BY <2>11 DEF RouteOfRun, CallStep, ProviderStep
  <2> QED
    BY <1>1, <2>1, <2>2, <2>3, <2>4, <2>5, <2>6, <2>7, <2>8, <2>9, <2>10, <2>11
       DEF RunStep
<1>2. CASE Interrupt
  BY <1>2 DEF Interrupt, ProviderStep
<1>3. CASE OtherThreads
  BY <1>3 DEF OtherThreads, CallStep, ProviderStep
<1>4. CASE OtherSessions
  BY <1>4 DEF OtherSessions
<1>5. CASE UNCHANGED vars
  BY <1>5 DEF vars
<1> QED
  BY <1>1, <1>2, <1>3, <1>4, <1>5 DEF Next

\* A call that is a probe is on its route.
ProbesAreOnRoutes == \A c \in Callers : call[c].probe => call[c].at \in Routes

CircuitsInv ==
    ProviderTypeOK /\ CircuitCountsFailures /\ ProbeIsOwned /\ ProbesAreOnRoutes

\* A circuit after a record of either kind is one, closed or open by the count of
\* its failures, and is not probed.
LEMMA AfterRecords ==
    ASSUME NEW circ \in Circuit,
           circ.opened <=> circ.failures = Threshold,
           circ.probing \/ circ.cooled => circ.opened,
           NEW after \in {AfterSuccess(circ), AfterResponse(circ), AfterFailure(circ)}
    PROVE  /\ after \in Circuit
           /\ after.opened <=> after.failures = Threshold
           /\ after.cooled => after.opened
           /\ ~after.probing
<1> USE CallersAssumption
<1>1. CASE after = Closed
  BY <1>1 DEF Circuit, Closed
<1>2. CASE after = AfterFailure(circ)
  <2> DEFINE failures == IF circ.failures = Threshold THEN Threshold
                                                      ELSE circ.failures + 1
             opens == circ.probing \/ failures = Threshold
  <2>1. /\ after.failures = failures
        /\ after.opened = (circ.opened \/ opens)
        /\ after.cooled = (circ.cooled /\ ~opens)
        /\ after.probing = FALSE
        /\ after = [failures |-> failures, opened |-> circ.opened \/ opens,
                    cooled |-> circ.cooled /\ ~opens, probing |-> FALSE]
    BY <1>2, Zenon DEF AfterFailure
  <2>2. /\ circ.failures \in 0..Threshold
        /\ circ.opened \in BOOLEAN /\ circ.cooled \in BOOLEAN
        /\ circ.probing \in BOOLEAN
    BY DEF Circuit
  <2>3. failures \in 0..Threshold
    BY <2>2
  <2>4. (circ.opened \/ opens) <=> failures = Threshold
    BY <2>2
  <2>5. after \in Circuit
    <3>1. (circ.opened \/ opens) \in BOOLEAN /\ (circ.cooled /\ ~opens) \in BOOLEAN
      BY <2>2
    <3> HIDE DEF failures, opens
    <3> QED
      BY <2>1, <2>3, <3>1 DEF Circuit
  <2> HIDE DEF failures, opens
  <2> QED
    BY <2>1, <2>2, <2>4, <2>5
<1> QED
  BY <1>1, <1>2 DEF AfterSuccess, AfterResponse

\* A record on the route of a call that goes on elsewhere keeps the invariant.
LEMMA RecordKeepsCircuits ==
    ASSUME CircuitsInv,
           NEW c \in Callers,
           NEW r \in Routes,
           call[c].at = r,
           NEW after \in {AfterSuccess(circuit[r]), AfterResponse(circuit[r]),
                          AfterFailure(circuit[r])},
           NEW at \in {"failover", "answered", "failed"},
           Record(r, after),
           SetCall(c, at, FALSE)
    PROVE  CircuitsInv'
<1>1. circuit[r] \in Circuit
  BY DEF CircuitsInv, ProviderTypeOK
<1>2. /\ after \in Circuit
      /\ after.opened <=> after.failures = Threshold
      /\ after.cooled => after.opened
      /\ ~after.probing
  BY <1>1, AfterRecords DEF CircuitsInv, CircuitCountsFailures
<1>3. circuit' = [circuit EXCEPT ![r] = after] /\ abandoned' = abandoned \ {r}
  BY DEF Record
<1>4. call' = [call EXCEPT ![c] = [at |-> at, probe |-> FALSE]]
  BY DEF SetCall
<1>5. ProviderTypeOK'
  BY <1>2, <1>3, <1>4 DEF CircuitsInv, ProviderTypeOK, Call
<1>6. CircuitCountsFailures'
  BY <1>2, <1>3 DEF CircuitsInv, ProviderTypeOK, CircuitCountsFailures
<1>7. ProbeIsOwned'
  <2> SUFFICES ASSUME NEW q \in Routes, circuit'[q].probing
               PROVE  \/ \E d \in Callers : call'[d] = [at |-> q, probe |-> TRUE]
                      \/ q \in abandoned'
    BY DEF ProbeIsOwned
  <2>1. q # r /\ circuit[q].probing
    BY <1>2, <1>3 DEF CircuitsInv, ProviderTypeOK
  <2>2. CASE q \in abandoned
    BY <1>3, <2>1, <2>2
  <2>3. ASSUME NEW d \in Callers, call[d] = [at |-> q, probe |-> TRUE]
        PROVE  call'[d] = [at |-> q, probe |-> TRUE]
    <3>1. d # c
      BY <2>1, <2>3
    <3> QED
      BY <1>4, <2>3, <3>1 DEF CircuitsInv, ProviderTypeOK
  <2> QED
    BY <2>1, <2>2, <2>3 DEF CircuitsInv, ProbeIsOwned
<1>8. ProbesAreOnRoutes'
  BY <1>4 DEF CircuitsInv, ProviderTypeOK, Call, ProbesAreOnRoutes
<1> QED
  BY <1>5, <1>6, <1>7, <1>8 DEF CircuitsInv

\* So does the admission of a call to a route, as its probe or not.
LEMMA AcquireKeepsCircuits ==
    ASSUME CircuitsInv,
           NEW c \in Callers,
           NEW r \in Routes,
           call[c].at \in {"idle", "failover"},
           Acquire(c, r),
           UNCHANGED abandoned
    PROVE  CircuitsInv'
<1> DEFINE admitted == Trying(circuit[r])
<1>1. circuit[r] \in Circuit
  BY DEF CircuitsInv, ProviderTypeOK
<1>2. circuit' = [circuit EXCEPT ![r] = admitted]
  BY Zenon DEF Acquire
<1>3. call' = [call EXCEPT ![c] = [at |-> r, probe |-> circuit[r].opened]]
  BY DEF Acquire, SetCall
<1>4. admitted \in Circuit
  BY <1>1 DEF Circuit, Trying
<1>5. ProviderTypeOK'
  BY <1>1, <1>2, <1>3, <1>4 DEF CircuitsInv, ProviderTypeOK, Call, Circuit
<1>6. CircuitCountsFailures'
  <2>1. /\ admitted.failures = circuit[r].failures
        /\ admitted.opened = circuit[r].opened
        /\ admitted.cooled = circuit[r].cooled
        /\ admitted.probing => circuit[r].probing \/ circuit[r].opened
    BY <1>1 DEF Circuit, Trying
  <2>2. \A q \in Routes : circuit'[q] = IF q = r THEN admitted ELSE circuit[q]
    BY <1>2 DEF CircuitsInv, ProviderTypeOK
  <2> HIDE DEF admitted
  <2> QED
    BY <2>1, <2>2 DEF CircuitsInv, CircuitCountsFailures
<1>7. ProbeIsOwned'
  <2> SUFFICES ASSUME NEW q \in Routes, circuit'[q].probing
               PROVE  \/ \E d \in Callers : call'[d] = [at |-> q, probe |-> TRUE]
                      \/ q \in abandoned'
    BY DEF ProbeIsOwned
  <2>1. CASE q = r /\ circuit[r].opened
    <3>1. call'[c] = [at |-> q, probe |-> TRUE]
      BY <1>1, <1>3, <2>1 DEF CircuitsInv, ProviderTypeOK, Circuit
    <3> QED
      BY <3>1
  <2>2. CASE ~(q = r /\ circuit[r].opened)
    <3>1. circuit[q].probing
      BY <1>1, <1>2, <2>2 DEF CircuitsInv, ProviderTypeOK, Circuit, Trying
    <3>2. ASSUME NEW d \in Callers, call[d] = [at |-> q, probe |-> TRUE]
          PROVE  call'[d] = [at |-> q, probe |-> TRUE]
      <4>1. d # c
        BY <3>2 DEF Routes
      <4> QED
        BY <1>3, <3>2, <4>1 DEF CircuitsInv, ProviderTypeOK
    <3> QED
      BY <3>1, <3>2 DEF CircuitsInv, ProbeIsOwned
  <2> QED
    BY <2>1, <2>2
<1>8. ProbesAreOnRoutes'
  BY <1>3 DEF CircuitsInv, ProviderTypeOK, Call, ProbesAreOnRoutes
<1> QED
  BY <1>5, <1>6, <1>7, <1>8 DEF CircuitsInv

\* A call that is on no route may go anywhere off the routes.
LEMMA OffTheRoutes ==
    ASSUME CircuitsInv,
           NEW c \in Callers,
           call[c].at \notin Routes,
           NEW at \in {"idle", "failover", "answered", "failed"},
           SetCall(c, at, FALSE),
           UNCHANGED <<circuit, abandoned>>
    PROVE  CircuitsInv'
<1>1. call' = [call EXCEPT ![c] = [at |-> at, probe |-> FALSE]]
  BY DEF SetCall
<1>2. ProviderTypeOK'
  BY <1>1 DEF CircuitsInv, ProviderTypeOK, Call
<1>3. CircuitCountsFailures'
  BY DEF CircuitsInv, CircuitCountsFailures
<1>4. ProbeIsOwned'
  <2> SUFFICES ASSUME NEW q \in Routes, NEW d \in Callers,
                      call[d] = [at |-> q, probe |-> TRUE]
               PROVE  call'[d] = [at |-> q, probe |-> TRUE]
    BY DEF CircuitsInv, ProbeIsOwned
  <2>1. d # c
    OBVIOUS
  <2> QED
    BY <1>1, <2>1 DEF CircuitsInv, ProviderTypeOK
<1>5. ProbesAreOnRoutes'
  BY <1>1 DEF CircuitsInv, ProviderTypeOK, Call, ProbesAreOnRoutes
<1> QED
  BY <1>2, <1>3, <1>4, <1>5 DEF CircuitsInv

LEMMA CircuitsInitially == Init => CircuitsInv
  BY CallersAssumption
     DEF Init, ProviderInit, CircuitsInv, ProviderTypeOK, CircuitCountsFailures,
         ProbeIsOwned, ProbesAreOnRoutes, Closed, NoCall, Circuit, Call

\* Every step keeps the invariant of the circuits.
LEMMA CircuitsStep == CircuitsInv /\ [Next]_vars => CircuitsInv'
<1> SUFFICES ASSUME CircuitsInv, [Next]_vars
             PROVE  CircuitsInv'
  OBVIOUS
<1>1. CASE UNCHANGED providerVars
  BY <1>1 DEF providerVars, CircuitsInv, ProviderTypeOK, CircuitCountsFailures,
              ProbeIsOwned, ProbesAreOnRoutes
<1>2. ASSUME NEW c \in Callers, StartCall(c)
      PROVE  CircuitsInv'
  <2>1. CASE Acquire(c, "primary")
    BY <1>2, <2>1, AcquireKeepsCircuits DEF StartCall, Routes
  <2>2. CASE FailoverOrFail(c) /\ UNCHANGED circuit
    BY <1>2, <2>2, OffTheRoutes DEF StartCall, FailoverOrFail, Routes
  <2> QED
    BY <1>2, <2>1, <2>2 DEF StartCall
<1>3. ASSUME NEW c \in Callers, TakeAnswer(c)
      PROVE  CircuitsInv'
  BY <1>3, OffTheRoutes DEF TakeAnswer, Routes
<1>4. ASSUME NEW c \in Callers, StartFallback(c)
      PROVE  CircuitsInv'
  <2>1. CASE Acquire(c, "fallback")
    BY <1>4, <2>1, AcquireKeepsCircuits DEF StartFallback, Routes
  <2>2. CASE SetCall(c, "failed", FALSE) /\ UNCHANGED circuit
    BY <1>4, <2>2, OffTheRoutes DEF StartFallback, Routes
  <2> QED
    BY <1>4, <2>1, <2>2 DEF StartFallback
<1>5. ASSUME NEW c \in Callers, RouteAnswers(c)
      PROVE  CircuitsInv'
  BY <1>5, RecordKeepsCircuits DEF RouteAnswers
<1>6. ASSUME NEW c \in Callers, RouteRejects(c)
      PROVE  CircuitsInv'
  BY <1>6, RecordKeepsCircuits DEF RouteRejects
<1>7. ASSUME NEW c \in Callers, PrimaryFails(c)
      PROVE  CircuitsInv'
  BY <1>7, RecordKeepsCircuits DEF PrimaryFails, FailoverOrFail, Routes
<1>8. ASSUME NEW c \in Callers, FallbackFails(c)
      PROVE  CircuitsInv'
  BY <1>8, RecordKeepsCircuits DEF FallbackFails, Routes
<1>9. ASSUME NEW c \in Callers, InterruptCall(c)
      PROVE  CircuitsInv'
  <2>1. /\ call' = [call EXCEPT ![c] = [at |-> "idle", probe |-> FALSE]]
        /\ abandoned' = IF call[c].probe THEN abandoned \cup {call[c].at} ELSE abandoned
        /\ circuit' = circuit
    BY <1>9 DEF InterruptCall, SetCall
  <2>2. CircuitCountsFailures'
    BY <2>1 DEF CircuitsInv, CircuitCountsFailures
  <2>3. ProviderTypeOK'
    BY <1>9, <2>1 DEF CircuitsInv, ProviderTypeOK, Call, ProbesAreOnRoutes
  <2>4. ProbeIsOwned'
    <3> SUFFICES ASSUME NEW q \in Routes, circuit[q].probing
                 PROVE  \/ \E d \in Callers : call'[d] = [at |-> q, probe |-> TRUE]
                        \/ q \in abandoned'
      BY <2>1 DEF ProbeIsOwned
    <3>1. CASE q \in abandoned
      BY <2>1, <3>1
    <3>2. ASSUME NEW d \in Callers, call[d] = [at |-> q, probe |-> TRUE], d # c
          PROVE  call'[d] = [at |-> q, probe |-> TRUE]
      BY <2>1, <3>2 DEF CircuitsInv, ProviderTypeOK
    <3>3. CASE call[c] = [at |-> q, probe |-> TRUE]
      BY <2>1, <3>3
    <3> QED
      BY <3>1, <3>2, <3>3 DEF CircuitsInv, ProbeIsOwned
  <2>5. ProbesAreOnRoutes'
    BY <2>1 DEF CircuitsInv, ProviderTypeOK, Call, ProbesAreOnRoutes
  <2> QED
    BY <2>2, <2>3, <2>4, <2>5 DEF CircuitsInv
<1>10. ASSUME NEW r \in Routes, CoolDown(r)
       PROVE  CircuitsInv'
  <2>1. /\ circuit' = [circuit EXCEPT ![r] = [@ EXCEPT !.cooled = TRUE]]
        /\ circuit[r].opened
        /\ UNCHANGED <<call, abandoned>>
    BY <1>10 DEF CoolDown
  <2> DEFINE cooled == [circuit[r] EXCEPT !.cooled = TRUE]
  <2>2. /\ cooled \in Circuit
        /\ cooled.failures = circuit[r].failures
        /\ cooled.opened = circuit[r].opened
        /\ cooled.probing = circuit[r].probing
    BY DEF CircuitsInv, ProviderTypeOK, Circuit
  <2>3. \A q \in Routes : circuit'[q] = IF q = r THEN cooled ELSE circuit[q]
    BY <2>1 DEF CircuitsInv, ProviderTypeOK
  <2>4. ProviderTypeOK'
    BY <2>1, <2>2 DEF CircuitsInv, ProviderTypeOK
  <2> HIDE DEF cooled
  <2>5. CircuitCountsFailures'
    BY <2>1, <2>2, <2>3 DEF CircuitsInv, CircuitCountsFailures
  <2>6. ProbeIsOwned'
    BY <2>1, <2>2, <2>3 DEF CircuitsInv, ProbeIsOwned
  <2>7. ProbesAreOnRoutes'
    BY <2>1 DEF CircuitsInv, ProbesAreOnRoutes
  <2> QED
    BY <2>4, <2>5, <2>6, <2>7 DEF CircuitsInv
<1> QED
  BY <1>1, <1>2, <1>3, <1>4, <1>5, <1>6, <1>7, <1>8, <1>9, <1>10,
     StepsOfTheProvider DEF ProviderStep

\* In every behaviour a circuit is open exactly when its failures in a row reached
\* the threshold, whatever the interleaving of the calls, their late records and
\* their interrupts.
THEOREM CircuitsCountFailures == Spec => []CircuitCountsFailures
<1>1. CircuitsInv => CircuitCountsFailures
  BY DEF CircuitsInv
<1> QED
  BY <1>1, CircuitsInitially, CircuitsStep, PTL DEF Spec

\* In every behaviour a circuit that refuses calls for a probe has a call that is
\* its probe, or one that was interrupted with no record on the route since.
THEOREM ProbesAreOwned == Spec => []ProbeIsOwned
<1>1. CircuitsInv => ProbeIsOwned
  BY DEF CircuitsInv
<1> QED
  BY <1>1, CircuitsInitially, CircuitsStep, PTL DEF Spec

-----------------------------------------------------------------------------
(* The run *)

Working == {"calling", "turn", "tools", "answer"}

Ending == {"finish", "user", "assistant", "episode"}

\* The run's own part of the type invariant, with what it rests on: an iteration
\* that is under way is below the budget, and a run that ends has a status.
GraphInv ==
    /\ run \in RunStates
    /\ run.at \in Working => run.iteration < MaxIterations
    /\ run.at \in Ending => run.status # "none"

\* What a step of a run does to its graph.
GraphStep ==
    \/ run.at = "start" /\ Goto("verify")
    \/ Verify(FALSE) \/ Verify(TRUE)
    \/ StopAtModel \/ BeginTurn \/ EndInTools \/ CallMade
    \/ AskModel \/ ModelFails \/ ModelResponds \/ EndTurn
    \/ AnswerEnds \/ AnswerRefused \/ AnswerAccepted
    \/ run.at \in Ending /\ \E at \in {"user", "assistant", "episode", "over"} : Goto(at)
    \/ Interrupted

LEMMA StepsOfTheGraph == [Next]_vars => GraphStep \/ UNCHANGED run
<1> SUFFICES ASSUME [Next]_vars
             PROVE  GraphStep \/ UNCHANGED run
  OBVIOUS
<1> USE DEF GraphStep
<1>1. CASE RunStep
  <2>1. CASE StartRun \/ VerifyRun \/ Stop
    BY <2>1 DEF StartRun, VerifyRun, Stop
  <2>2. CASE Ask \/ NoAnswer \/ Response \/ CheckpointTurn \/ Answer
    BY <2>2 DEF Ask, NoAnswer, Response, CheckpointTurn, Answer
  <2>3. CASE PersistRow
    BY <2>3 DEF PersistRow, Ending
  <2>4. ASSUME NEW kind \in MemoryKinds, PersistMemory(kind)
        PROVE  GraphStep
    <3>1. run.at \in Ending
      BY <2>4 DEF PersistMemory, MemoryKinds, Ending
    <3>2. AfterMemory(kind) \in {"assistant", "episode", "over"}
      BY DEF AfterMemory, MemoryKinds
    <3> QED
      BY <2>4, <3>1, <3>2 DEF PersistMemory
  <2>5. CASE RouteOfRun
    BY <2>5 DEF RouteOfRun
  <2> QED
    BY <1>1, <2>1, <2>2, <2>3, <2>4, <2>5 DEF RunStep
<1>2. CASE Interrupt
  BY <1>2 DEF Interrupt
<1>3. CASE OtherThreads \/ OtherSessions
  BY <1>3 DEF OtherThreads, OtherSessions
<1>4. CASE UNCHANGED vars
  BY <1>4 DEF vars
<1> QED
  BY <1>1, <1>2, <1>3, <1>4 DEF Next

LEMMA GraphInitially == Init => GraphInv
  BY BudgetsAssumption DEF Init, GraphInit, GraphInv, RunStates, Working, Ending

\* The run after a step, field by field.
LEMMA NextRun ==
    ASSUME GraphInv,
           NEW at \in {"start", "verify", "model", "calling", "turn", "tools",
                       "answer", "finish", "user", "assistant", "episode",
                       "finished", "over", "interrupted"},
           NEW iteration \in 0..MaxIterations,
           NEW attempted \in 0..MaxTotal,
           NEW pending \in 0..(MaxPerTurn + 1),
           NEW status \in {"none", "completed", "failed", "stopped"},
           at \in Working => iteration < MaxIterations,
           at \in Ending => status # "none",
           run' = [at |-> at, iteration |-> iteration, attempted |-> attempted,
                   pending |-> pending, status |-> status]
    PROVE  GraphInv'
<1>1. run' \in RunStates
  BY DEF RunStates
<1>2. run'.at = at /\ run'.iteration = iteration /\ run'.status = status
  OBVIOUS
<1> QED
  BY <1>1, <1>2 DEF GraphInv

LEMMA FieldsOfRun ==
    ASSUME GraphInv
    PROVE  /\ run = [at |-> run.at, iteration |-> run.iteration,
                     attempted |-> run.attempted, pending |-> run.pending,
                     status |-> run.status]
           /\ run.iteration \in 0..MaxIterations
           /\ run.attempted \in 0..MaxTotal
           /\ run.pending \in 0..(MaxPerTurn + 1)
           /\ run.status \in {"none", "completed", "failed", "stopped"}
  BY DEF GraphInv, RunStates

LEMMA GotoKeepsGraph ==
    ASSUME GraphInv,
           NEW at \in {"verify", "model", "calling", "answer", "user", "assistant",
                       "episode", "over", "interrupted"},
           at \in Working => run.iteration < MaxIterations,
           at \in Ending => run.status # "none",
           Goto(at)
    PROVE  GraphInv'
<1>1. run' = [at |-> at, iteration |-> run.iteration, attempted |-> run.attempted,
              pending |-> run.pending, status |-> run.status]
  BY FieldsOfRun DEF Goto
<1>2. at \in {"start", "verify", "model", "calling", "turn", "tools", "answer",
             "finish", "user", "assistant", "episode", "finished", "over",
             "interrupted"}
  OBVIOUS
<1>3. run' \in RunStates
  BY <1>1, <1>2, FieldsOfRun DEF RunStates
<1>4. run'.at = at /\ run'.iteration = run.iteration /\ run'.status = run.status
  BY <1>1
<1> QED
  BY <1>3, <1>4 DEF GraphInv

LEMMA FinishKeepsGraph ==
    ASSUME GraphInv,
           NEW status \in {"completed", "failed", "stopped"},
           Finish(status)
    PROVE  GraphInv'
<1> DEFINE pending == 0
<1>1. run' = [at |-> "finish", iteration |-> run.iteration,
              attempted |-> run.attempted, pending |-> pending, status |-> status]
  BY FieldsOfRun DEF Finish
<1>2. pending \in 0..(MaxPerTurn + 1)
  BY BudgetsAssumption
<1> HIDE DEF pending
<1>3. "finish" \notin Working /\ status # "none"
  BY DEF Working
<1> QED
  BY <1>1, <1>2, <1>3, FieldsOfRun, NextRun

LEMMA NextIterationKeepsGraph ==
    ASSUME GraphInv, run.iteration < MaxIterations, NextIteration
    PROVE  GraphInv'
<1> DEFINE iteration == run.iteration + 1
<1>1. run' = [at |-> "model", iteration |-> iteration,
              attempted |-> run.attempted, pending |-> run.pending,
              status |-> run.status]
  BY FieldsOfRun DEF NextIteration
<1>2. iteration \in 0..MaxIterations
  BY FieldsOfRun, BudgetsAssumption
<1> HIDE DEF iteration
<1>3. "model" \notin Working /\ "model" \notin Ending
  BY DEF Working, Ending
<1> QED
  BY <1>1, <1>2, <1>3, FieldsOfRun, NextRun

LEMMA GraphIsKept == GraphInv /\ [Next]_vars => GraphInv'
<1> SUFFICES ASSUME GraphInv, [Next]_vars
             PROVE  GraphInv'
  OBVIOUS
<1> USE DEF Working, Ending
<1>1. CASE run.at = "start" /\ Goto("verify")
  <2>1. "verify" \notin Working /\ "verify" \notin Ending
    OBVIOUS
  <2> QED
    BY <1>1, <2>1, GotoKeepsGraph
<1>2. ASSUME NEW prefetch \in BOOLEAN, Verify(prefetch)
      PROVE  GraphInv'
  <2>1. CASE \E status \in {"stopped", "failed"} : Finish(status)
    BY <2>1, FinishKeepsGraph
  <2>2. CASE run' = [run EXCEPT !.at = "model",
                                !.attempted = IF prefetch THEN 1 ELSE 0]
    <3>1. (IF prefetch THEN 1 ELSE 0) \in 0..MaxTotal
      BY BudgetsAssumption
    <3> DEFINE attempted == IF prefetch THEN 1 ELSE 0
    <3> HIDE DEF attempted
    <3>2. run' = [at |-> "model", iteration |-> run.iteration,
                  attempted |-> attempted, pending |-> run.pending,
                  status |-> run.status]
      BY <2>2, FieldsOfRun DEF attempted
    <3>3. attempted \in 0..MaxTotal
      BY <3>1 DEF attempted
    <3> QED
      BY <3>2, <3>3, FieldsOfRun, NextRun, ZenonT(40)
  <2> QED
    BY <1>2, <2>1, <2>2 DEF Verify
<1>3. CASE StopAtModel \/ EndInTools \/ ModelFails \/ AnswerEnds \/ AnswerAccepted
  BY <1>3, FinishKeepsGraph
     DEF StopAtModel, EndInTools, ModelFails, AnswerEnds, AnswerAccepted
<1>4. CASE CallMade
  <2> DEFINE pending == run.pending - 1
  <2>1. run' = [at |-> "tools", iteration |-> run.iteration,
                attempted |-> run.attempted, pending |-> pending,
                status |-> run.status]
    BY <1>4, FieldsOfRun DEF CallMade
  <2>2. pending \in 0..(MaxPerTurn + 1)
    BY <1>4, FieldsOfRun, BudgetsAssumption DEF CallMade
  <2> HIDE DEF pending
  <2>3. run.iteration < MaxIterations
    BY <1>4 DEF CallMade, GraphInv
  <2> QED
    BY <2>1, <2>2, <2>3, FieldsOfRun, NextRun, ZenonT(40)
<1>5. CASE BeginTurn
  <2>1. CASE OverBudget
    BY <1>5, <2>1, FinishKeepsGraph DEF BeginTurn
  <2>2. CASE ~OverBudget
    <3>1. run' = [at |-> "tools", iteration |-> run.iteration,
                  attempted |-> run.attempted + run.pending,
                  pending |-> run.pending, status |-> run.status]
      BY <1>5, <2>2, FieldsOfRun DEF BeginTurn
    <3>2. run.attempted + run.pending \in 0..MaxTotal
      BY <2>2, FieldsOfRun, BudgetsAssumption DEF OverBudget
    <3>3. run.iteration < MaxIterations
      BY <1>5 DEF BeginTurn, GraphInv
    <3> QED
      BY <3>1, <3>2, <3>3, FieldsOfRun, NextRun, ZenonT(40)
  <2> QED
    BY <2>1, <2>2
<1>6. CASE AskModel
  BY <1>6, GotoKeepsGraph DEF AskModel
<1>7. CASE ModelResponds
  <2>1. run.iteration < MaxIterations
    BY <1>7 DEF ModelResponds, GraphInv
  <2>2. CASE \E status \in {"failed", "stopped"} : Finish(status)
    BY <2>2, FinishKeepsGraph
  <2>3. CASE Goto("answer")
    BY <2>1, <2>3, GotoKeepsGraph
  <2>4. ASSUME NEW n \in 1..(MaxPerTurn + 1),
               run' = [run EXCEPT !.at = "turn", !.pending = n]
        PROVE  GraphInv'
    <3>1. run' = [at |-> "turn", iteration |-> run.iteration,
                  attempted |-> run.attempted, pending |-> n,
                  status |-> run.status]
      BY <2>4, FieldsOfRun
    <3>2. n \in 0..(MaxPerTurn + 1)
      BY BudgetsAssumption
    <3> QED
      BY <2>1, <3>1, <3>2, FieldsOfRun, NextRun, ZenonT(40)
  <2> QED
    BY <1>7, <2>2, <2>3, <2>4 DEF ModelResponds
<1>8. CASE EndTurn
  BY <1>8, NextIterationKeepsGraph DEF EndTurn, GraphInv
<1>9. CASE AnswerRefused
  BY <1>9, NextIterationKeepsGraph DEF AnswerRefused, GraphInv
<1>10. CASE /\ run.at \in Ending
            /\ \E at \in {"user", "assistant", "episode", "over"} : Goto(at)
  BY <1>10, GotoKeepsGraph DEF GraphInv
<1>11. CASE Interrupted
  BY <1>11, GotoKeepsGraph DEF Interrupted
<1>12. CASE UNCHANGED run
  BY <1>12 DEF GraphInv
<1> QED
  BY <1>1, <1>2, <1>3, <1>4, <1>5, <1>6, <1>7, <1>8, <1>9, <1>10, <1>11, <1>12,
     StepsOfTheGraph DEF GraphStep

-----------------------------------------------------------------------------
(* The memory *)

MemoryTypeOK ==
    /\ row \in [status : {"ABSENT", "RUNNING"} \cup TerminalRunStates, version : Nat]
    /\ held \in Nat
    /\ memories \subseteq MemoryKinds
    /\ persisted \in BOOLEAN
    /\ erased \in BOOLEAN

\* The store holds nothing of a run before its row is terminal, and nothing of
\* this run under an id used before; a version that is held is the row's.
RowInv ==
    /\ run.at = "start" => held = 0 /\ row = leftover
    /\ leftover # Absent => row = leftover /\ held = 0
    /\ held # 0 /\ row.status = "RUNNING" => row.version = held
    /\ run.at \in {"user", "assistant", "episode"} =>
        /\ leftover = Absent
        /\ row.status = TerminalStatus
    /\ memories # {} => leftover = Absent /\ row.status \in TerminalRunStates

\* The memories are kept in the order of the request, the answer, the episode.
OrderInv ==
    /\ run.at \notin {"assistant", "episode", "over", "interrupted"} => memories = {}
    /\ run.at = "assistant" =>
        /\ memories \subseteq {"user"}
        /\ erased \/ "user" \in memories
    /\ run.at = "episode" =>
        /\ run.status = "completed"
        /\ erased \/ {"user", "assistant"} \subseteq memories
    /\ "episode" \in memories => row.status = "COMPLETED"
    /\ \/ erased
       \/ /\ "episode" \in memories => "assistant" \in memories
          /\ "assistant" \in memories => "user" \in memories
    /\ persisted =>
        /\ run.at = "over"
        /\ row.status = TerminalStatus
        /\ \/ erased
           \/ run.status = "completed" /\ memories = MemoryKinds
           \/ run.status # "completed" /\ memories = {"user", "assistant"}

MemoryInv == MemoryTypeOK /\ RowInv /\ OrderInv

LEMMA MemoryInitially == Init => MemoryInv
<1> SUFFICES ASSUME Init
             PROVE  MemoryInv
  OBVIOUS
<1>1. /\ leftover \in {Absent, [status |-> "RUNNING", version |-> 2],
                       [status |-> "COMPLETED", version |-> 3]}
      /\ row = leftover /\ held = 0 /\ memories = {} /\ erased = FALSE
      /\ persisted = FALSE /\ run.at = "start"
  BY DEF Init, GraphInit, MemoryInit
<1>2. row \in [status : {"ABSENT", "RUNNING"} \cup TerminalRunStates, version : Nat]
  BY <1>1 DEF Absent, TerminalRunStates
<1>3. MemoryTypeOK
  BY <1>1, <1>2 DEF MemoryTypeOK
<1>4. RowInv
  BY <1>1 DEF RowInv
<1>5. OrderInv
  BY <1>1 DEF OrderInv
<1> QED
  BY <1>3, <1>4, <1>5 DEF MemoryInv

\* A step that leaves the memory alone and does not reach what keeps it.
LEMMA QuietKeepsMemory ==
    ASSUME MemoryInv, UNCHANGED <<persisted, memoryVars>>,
           run.at # "start", run.at # "over",
           run'.at \notin {"start", "user", "assistant", "episode"},
           run'.at \in {"over", "interrupted"}
             \/ run.at \notin {"assistant", "episode", "interrupted"}
    PROVE  MemoryInv'
<1>1. UNCHANGED <<row, held, memories, leftover, erased, persisted>>
  BY DEF memoryVars
<1>2. MemoryTypeOK'
  BY <1>1 DEF MemoryInv, MemoryTypeOK
<1>3. RowInv'
  BY <1>1 DEF MemoryInv, RowInv
<1>4. OrderInv'
  BY <1>1 DEF MemoryInv, OrderInv
<1> QED
  BY <1>2, <1>3, <1>4 DEF MemoryInv

\* A checkpoint is made before anything of the run is kept.
LEMMA CheckpointKeepsMemory ==
    ASSUME MemoryInv, CheckpointRun, UNCHANGED persisted,
           run.at \in {"verify", "tools"}, run'.at = "model"
    PROVE  MemoryInv'
<1>1. /\ UNCHANGED <<memories, leftover, erased, persisted>>
      /\ memories = {} /\ ~persisted
  BY DEF CheckpointRun, MemoryInv, OrderInv
<1>2. CASE UNCHANGED row /\ (held' = held \/ held' = 0)
  <2>1. MemoryTypeOK'
    BY <1>1, <1>2 DEF MemoryInv, MemoryTypeOK
  <2>2. RowInv'
    BY <1>1, <1>2 DEF MemoryInv, RowInv
  <2>3. OrderInv'
    BY <1>1, <1>2 DEF OrderInv
  <2> QED
    BY <2>1, <2>2, <2>3 DEF MemoryInv
<1>3. CASE /\ held # 0 /\ row' = [status |-> "RUNNING", version |-> held + 1]
           /\ (held' = held + 1 \/ held' = 0)
  <2>1. row'.status = "RUNNING" /\ row'.version = held + 1 /\ held \in Nat
    BY <1>3 DEF MemoryInv, MemoryTypeOK
  <2>2. MemoryTypeOK'
    BY <1>1, <1>3, <2>1 DEF MemoryInv, MemoryTypeOK
  <2>3. RowInv'
    BY <1>1, <1>3, <2>1 DEF MemoryInv, RowInv
  <2>4. OrderInv'
    BY <1>1, <1>3 DEF OrderInv
  <2> QED
    BY <2>2, <2>3, <2>4 DEF MemoryInv
<1> QED
  BY <1>2, <1>3 DEF CheckpointRun, AdvanceRun, WithoutMemory

LEMMA StartKeepsMemory ==
    ASSUME GraphInv, MemoryInv, StartRun
    PROVE  MemoryInv'
<1>1. /\ run.at = "start" /\ held = 0 /\ row = leftover
      /\ UNCHANGED <<persisted, memories, leftover, erased>>
      /\ memories = {} /\ ~persisted
  BY DEF StartRun, StartMemoryRun, MemoryInv, RowInv, OrderInv
<1>2. run'.at = "verify"
  BY <1>1 DEF StartRun, Goto, GraphInv, RunStates
<1>3. CASE InsertRun /\ (held' = 1 \/ held' = 0)
  <2>1. /\ row' = [status |-> "RUNNING", version |-> 1]
        /\ row'.status = "RUNNING" /\ row'.version = 1 /\ row = Absent
    BY <1>3 DEF InsertRun
  <2>2. MemoryTypeOK'
    BY <1>1, <1>3, <2>1 DEF MemoryInv, MemoryTypeOK
  <2>3. RowInv'
    BY <1>1, <1>2, <1>3, <2>1 DEF RowInv
  <2>4. OrderInv'
    BY <1>1, <1>2 DEF OrderInv
  <2> QED
    BY <2>2, <2>3, <2>4 DEF MemoryInv
<1>4. CASE held' = 0 /\ UNCHANGED row
  <2>1. MemoryTypeOK'
    BY <1>1, <1>4 DEF MemoryInv, MemoryTypeOK
  <2>2. RowInv'
    BY <1>1, <1>2, <1>4 DEF RowInv
  <2>3. OrderInv'
    BY <1>1, <1>2 DEF OrderInv
  <2> QED
    BY <2>1, <2>2, <2>3 DEF MemoryInv
<1> QED
  BY <1>3, <1>4 DEF StartRun, StartMemoryRun, WithoutMemory

LEMMA TerminalStatusOfRun ==
    ASSUME GraphInv, run.at \in Ending
    PROVE  /\ TerminalStatus \in TerminalRunStates
           /\ run.status = "completed" => TerminalStatus = "COMPLETED"
  BY DEF GraphInv, RunStates, Ending, TerminalStatus, TerminalRunStates

LEMMA RowKeepsMemory ==
    ASSUME GraphInv, MemoryInv, PersistRow, run'.status = run.status,
           run'.at \in {"user", "over"},
           run'.at = "user" =>
               held # 0 /\ CompleteRun(TerminalStatus, TRUE)
    PROVE  MemoryInv'
<1>1. /\ run.at = "finish" /\ UNCHANGED <<persisted, held, memories, leftover, erased>>
      /\ memories = {} /\ ~persisted
  BY DEF PersistRow, CompleteRun, memoryVars, MemoryInv, OrderInv
<1>2. TerminalStatus \in TerminalRunStates /\ TerminalStatus' = TerminalStatus
  BY <1>1, TerminalStatusOfRun DEF Ending, TerminalStatus
<1>3. CASE UNCHANGED row /\ run'.at = "over"
  <2>1. MemoryTypeOK'
    BY <1>1, <1>3 DEF MemoryInv, MemoryTypeOK
  <2>2. RowInv'
    BY <1>1, <1>3 DEF MemoryInv, RowInv
  <2>3. OrderInv'
    BY <1>1, <1>3 DEF OrderInv
  <2> QED
    BY <2>1, <2>2, <2>3 DEF MemoryInv
<1>4. CASE held # 0 /\ AdvanceRun(TerminalStatus)
  <2>1. row' = [status |-> TerminalStatus, version |-> held + 1]
    BY <1>4 DEF AdvanceRun
  <2>2. row'.status = TerminalStatus /\ row'.status # "RUNNING"
    BY <1>2, <2>1 DEF TerminalRunStates
  <2>3. MemoryTypeOK'
    BY <1>1, <1>2, <2>1 DEF MemoryInv, MemoryTypeOK
  <2>4. RowInv'
    BY <1>1, <1>2, <1>4, <2>2 DEF MemoryInv, RowInv
  <2>5. OrderInv'
    BY <1>1 DEF OrderInv
  <2> QED
    BY <2>3, <2>4, <2>5 DEF MemoryInv
<1> QED
  BY <1>1, <1>3, <1>4 DEF PersistRow, CompleteRun, memoryVars

\* A memory that is kept is the next one, of a run whose row is terminal.
LEMMA MemoryKeepsMemory ==
    ASSUME GraphInv, MemoryInv, NEW kind \in MemoryKinds, PersistMemory(kind),
           NEW saved \in BOOLEAN, SaveMemory(kind, saved),
           run'.at = (IF saved THEN AfterMemory(kind) ELSE "over"),
           run'.status = run.status,
           persisted' = (saved /\ AfterMemory(kind) = "over")
    PROVE  MemoryInv'
<1>1. /\ run.at = kind /\ UNCHANGED <<row, held, leftover, erased>>
      /\ row.status = TerminalStatus /\ leftover = Absent /\ ~persisted
      /\ memories' = memories \cup {kind} \/ (~saved /\ memories' = memories)
  BY DEF PersistMemory, SaveMemory, MemoryInv, RowInv, OrderInv, MemoryKinds
<1>2. /\ TerminalStatus \in TerminalRunStates
      /\ run.status = "completed" => TerminalStatus = "COMPLETED"
      /\ TerminalStatus' = TerminalStatus
  BY <1>1, TerminalStatusOfRun DEF Ending, TerminalStatus, MemoryKinds
<1>3. MemoryTypeOK'
  BY <1>1 DEF MemoryInv, MemoryTypeOK, MemoryKinds
<1>4. run'.at \in {"assistant", "episode", "over"}
  BY DEF AfterMemory, MemoryKinds
<1>5. RowInv'
  BY <1>1, <1>2, <1>4 DEF MemoryInv, RowInv
<1>6. CASE kind = "user"
  <2>1. memories = {} /\ AfterMemory(kind) = "assistant"
    BY <1>1, <1>6 DEF MemoryInv, OrderInv, AfterMemory
  <2> QED
    BY <1>1, <1>3, <1>5, <1>6, <2>1 DEF MemoryInv, OrderInv
<1>7. CASE kind = "assistant"
  <2>1. /\ memories \subseteq {"user"}
        /\ erased \/ "user" \in memories
        /\ AfterMemory(kind) = IF run.status = "completed" THEN "episode" ELSE "over"
    BY <1>1, <1>7 DEF MemoryInv, OrderInv, AfterMemory
  <2> QED
    BY <1>1, <1>2, <1>3, <1>5, <1>7, <2>1 DEF MemoryInv, OrderInv
<1>8. CASE kind = "episode"
  <2>1. /\ run.status = "completed"
        /\ erased \/ {"user", "assistant"} \subseteq memories
        /\ AfterMemory(kind) = "over" /\ memories \subseteq MemoryKinds
    BY <1>1, <1>8 DEF MemoryInv, MemoryTypeOK, OrderInv, AfterMemory
  <2> QED
    BY <1>1, <1>2, <1>3, <1>5, <1>8, <2>1 DEF MemoryInv, OrderInv, MemoryKinds
<1> QED
  BY <1>6, <1>7, <1>8 DEF MemoryKinds

\* Another session may erase memories at any time: what is left of them keeps the
\* order only as long as nothing was.
LEMMA SessionsKeepMemory ==
    ASSUME MemoryInv, OtherSessions
    PROVE  MemoryInv'
<1>1. /\ memories' \subseteq memories /\ memories # {} /\ erased'
      /\ UNCHANGED <<run, persisted, row, held, leftover>>
  BY DEF OtherSessions, DeleteSession, DropOldestMemory
<1>2. TerminalStatus' = TerminalStatus
  BY <1>1 DEF TerminalStatus
<1>3. MemoryTypeOK'
  <2>1. erased' \in BOOLEAN
    BY DEF OtherSessions, DeleteSession, DropOldestMemory
  <2> QED
    BY <1>1, <2>1 DEF MemoryInv, MemoryTypeOK
<1>4. RowInv'
  BY <1>1, <1>2 DEF MemoryInv, RowInv
<1>5. OrderInv'
  BY <1>1, <1>2 DEF MemoryInv, OrderInv
<1> QED
  BY <1>3, <1>4, <1>5 DEF MemoryInv

LEMMA MemoryIsKept == GraphInv /\ MemoryInv /\ [Next]_vars => MemoryInv'
<1> SUFFICES ASSUME GraphInv, MemoryInv, [Next]_vars
             PROVE  MemoryInv'
  OBVIOUS
<1>0. \A at : Goto(at) => run'.at = at /\ run'.status = run.status
  BY DEF Goto, GraphInv, RunStates
<1>1. \A status : Finish(status) => run'.at = "finish"
  BY DEF Finish, GraphInv, RunStates
<1>2. CASE StartRun
  BY <1>2, StartKeepsMemory
<1>3. CASE VerifyRun
  <2>1. CASE Verify(FALSE) /\ UNCHANGED memoryVars
    <3>1. run.at = "verify" /\ run'.at \in {"finish", "model"}
      BY <1>1, <2>1 DEF Verify, GraphInv, RunStates
    <3> QED
      BY <1>3, <2>1, <3>1, QuietKeepsMemory DEF VerifyRun
  <2>2. CASE Verify(TRUE) /\ CheckpointRun
    <3>1. run.at = "verify" /\ run'.at = "model"
      BY <2>2 DEF Verify, GraphInv, RunStates
    <3> QED
      BY <1>3, <2>2, <3>1, CheckpointKeepsMemory DEF VerifyRun
  <2> QED
    BY <1>3, <2>1, <2>2 DEF VerifyRun
<1>4. CASE Stop \/ Ask \/ NoAnswer \/ Response \/ Answer
  <2>1. UNCHANGED <<persisted, memoryVars>>
    BY <1>4 DEF Stop, Ask, NoAnswer, Response, Answer, NoMemory
  <2>2. /\ run.at \in {"model", "turn", "tools", "calling", "answer"}
        /\ run'.at \in {"finish", "model", "turn", "tools", "calling", "answer"}
    <3>1. CASE StopAtModel \/ EndInTools \/ ModelFails \/ AnswerEnds \/ AnswerAccepted
      BY <1>1, <3>1 DEF StopAtModel, EndInTools, ModelFails, AnswerEnds, AnswerAccepted
    <3>2. CASE CallMade \/ BeginTurn \/ AnswerRefused
      BY <1>1, <3>2 DEF CallMade, BeginTurn, AnswerRefused, NextIteration,
                        GraphInv, RunStates
    <3>3. CASE AskModel \/ ModelResponds
      BY <1>0, <1>1, <3>3 DEF AskModel, ModelResponds, GraphInv, RunStates
    <3> QED
      BY <1>4, <3>1, <3>2, <3>3 DEF Stop, Ask, NoAnswer, Response, Answer
  <2> QED
    BY <2>1, <2>2, QuietKeepsMemory
<1>5. CASE CheckpointTurn
  <2>1. run.at = "tools" /\ run'.at = "model"
    BY <1>5 DEF CheckpointTurn, EndTurn, NextIteration, GraphInv, RunStates
  <2> QED
    BY <1>5, <2>1, CheckpointKeepsMemory DEF CheckpointTurn
<1>6. CASE PersistRow
  <2>1. /\ run'.status = run.status /\ run'.at \in {"user", "over"}
        /\ run'.at = "user" => held # 0 /\ CompleteRun(TerminalStatus, TRUE)
    <3>1. CASE held = 0
      BY <1>0, <1>6, <3>1 DEF PersistRow
    <3>2. CASE held # 0
      <4>1. PICK completed \in BOOLEAN :
                /\ CompleteRun(TerminalStatus, completed)
                /\ Goto(IF completed THEN "user" ELSE "over")
        BY <1>6, <3>2 DEF PersistRow
      <4>2. CASE completed = TRUE
        <5>1. CompleteRun(TerminalStatus, TRUE) /\ Goto("user")
          BY <4>1, <4>2
        <5> QED
          BY <1>0, <3>2, <5>1
      <4>3. CASE completed = FALSE
        <5>1. Goto("over")
          BY <4>1, <4>3
        <5>2. run'.at = "over" /\ run'.status = run.status
          BY <1>0, <5>1
        <5> QED
          BY <5>2
      <4> QED
        BY <4>2, <4>3
    <3> QED
      BY <3>1, <3>2
  <2> QED
    BY <1>6, <2>1, RowKeepsMemory
<1>7. ASSUME NEW kind \in MemoryKinds, PersistMemory(kind)
      PROVE  MemoryInv'
  <2>1. PICK saved \in BOOLEAN :
            /\ SaveMemory(kind, saved)
            /\ Goto(IF saved THEN AfterMemory(kind) ELSE "over")
            /\ persisted' = (saved /\ AfterMemory(kind) = "over")
    BY <1>7 DEF PersistMemory
  <2>2. /\ run'.at = (IF saved THEN AfterMemory(kind) ELSE "over")
        /\ run'.status = run.status
    BY <1>0, <2>1
  <2> QED
    BY <1>7, <2>1, <2>2, MemoryKeepsMemory
<1>8. CASE Interrupt
  <2>1. /\ run.at \notin {"start", "over", "interrupted"} /\ run'.at = "interrupted"
        /\ UNCHANGED <<persisted, memoryVars>>
    BY <1>0, <1>8 DEF Interrupt, Interrupted, NoMemory
  <2> QED
    BY <2>1, QuietKeepsMemory
<1>9. CASE OtherSessions
  BY <1>9, SessionsKeepMemory
<1>10. CASE RouteOfRun \/ OtherThreads \/ UNCHANGED vars
  <2>1. UNCHANGED <<run, persisted, row, held, memories, leftover, erased>>
    BY <1>10 DEF RouteOfRun, OtherThreads, vars, memoryVars
  <2>2. MemoryTypeOK'
    BY <2>1 DEF MemoryInv, MemoryTypeOK
  <2>3. RowInv'
    BY <2>1 DEF MemoryInv, RowInv, TerminalStatus
  <2>4. OrderInv'
    BY <2>1 DEF MemoryInv, OrderInv, TerminalStatus
  <2> QED
    BY <2>2, <2>3, <2>4 DEF MemoryInv
<1> QED
  BY <1>2, <1>3, <1>4, <1>5, <1>6, <1>7, <1>8, <1>9, <1>10 DEF Next, RunStep

\* In every behaviour the variables of a run stay in their types: within its
\* budgets of iterations and tool calls, whatever the model answers.
THEOREM RunLifeTypeCorrect == Spec => []RunLifeTypeOK
<1> DEFINE Inv == CircuitsInv /\ GraphInv /\ MemoryInv
<1>1. Init => Inv
  BY CircuitsInitially, GraphInitially, MemoryInitially
<1>2. Inv /\ [Next]_vars => Inv'
  BY CircuitsStep, GraphIsKept, MemoryIsKept
<1>3. Inv => RunLifeTypeOK
  BY DEF CircuitsInv, GraphInv, MemoryInv, MemoryTypeOK, RunLifeTypeOK
<1> HIDE DEF Inv
<1> QED
  BY <1>1, <1>2, <1>3, PTL DEF Spec

\* In every behaviour what the store of memory holds of a run agrees with the run,
\* whatever transaction fails, is lost on its way back, or is followed by an
\* erasure of another session.
THEOREM MemoryAlwaysAgrees == Spec => []MemoryAgrees
<1> DEFINE Inv == GraphInv /\ MemoryInv
<1>1. Init => Inv
  BY GraphInitially, MemoryInitially
<1>2. Inv /\ [Next]_vars => Inv'
  BY GraphIsKept, MemoryIsKept
<1>3. Inv => MemoryAgrees
  BY DEF MemoryInv, RowInv, OrderInv, MemoryAgrees
<1> HIDE DEF Inv
<1> QED
  BY <1>1, <1>2, <1>3, PTL DEF Spec

=============================================================================
