----------------------------- MODULE RoutingProofs -----------------------------
(***************************************************************************)
(* The proposals of a run and the plan made of them, for any budgets, pairs, *)
(* changes and lock snapshots: a proposal rests on evidence older than        *)
(* itself, what is routed is cited, and a plan terminates those it may and   *)
(* no others, in an order that is one.                                      *)
(***************************************************************************)
EXTENDS EvidenceRouting, FiniteOrders

-----------------------------------------------------------------------------
(* The plan of an incident *)

LEMMA NewestIsGreatest ==
    ASSUME NEW refs, refs \subseteq Int, IsFiniteSet(refs), refs # {}
    PROVE  Newest(refs) \in refs /\ \A i \in refs : i <= Newest(refs)
  BY HasGreatest DEF Newest

LEMMA LeastIsOne ==
    ASSUME NEW pids, pids \subseteq Int, IsFiniteSet(pids), pids # {}
    PROVE  Least(pids) \in pids
  BY HasLeast DEF Least

\* Rows as a snapshot has them.
IsRows(rows) ==
    /\ IsFiniteSet(rows)
    /\ \A r \in rows : {r.waiter.pid, r.blocker.pid, r.blocker.xact} \subseteq Int

\* Before orders the targets of a snapshot in which a PID has one identity.
LEMMA PlanIsOrdered ==
    ASSUME NEW rows, IsRows(rows), ~Conflicting(rows),
           NEW targets,
           targets \subseteq {r.blocker : r \in ActionableRelationships(rows)},
           NEW R, \A t, u \in targets : <<t, u>> \in R <=> Before(rows, t, u)
    PROVE  Irreflexive(R, targets) /\ Transitive(R, targets) /\ Total(R, targets)
<1>1. \A t \in targets : t.pid \in Int /\ t.xact \in Int
  BY DEF ActionableRelationships, IsRows
<1>2. \A t, u \in targets : t.pid = u.pid => t = u
  BY DEF Conflicting
<1>3. \A t : Waits(rows, t) \in BOOLEAN
  BY DEF Waits
<1>4. Irreflexive(R, targets)
  BY <1>1 DEF Irreflexive, Before
<1>5. Transitive(R, targets)
  <2>1. ASSUME NEW t \in targets, NEW u \in targets, NEW x \in targets,
               Before(rows, t, u), Before(rows, u, x)
        PROVE  Before(rows, t, x)
    BY <1>1, <1>3, <2>1 DEF Before
  <2> QED
    BY <2>1 DEF Transitive
<1>6. Total(R, targets)
  <2>1. ASSUME NEW t \in targets, NEW u \in targets, t # u
        PROVE  Before(rows, t, u) \/ Before(rows, u, t)
    <3>1. t.pid # u.pid
      BY <1>2, <2>1
    <3> QED
      BY <1>1, <1>3, <3>1 DEF Before
  <2> QED
    BY <2>1 DEF Total
<1> QED
  BY <1>4, <1>5, <1>6

\* The PID by which an action is known is of one of its waiters.
LEMMA RepresentativeIsWaiter ==
    ASSUME NEW rows, IsRows(rows), NEW t,
           t \in {r.blocker : r \in ActionableRelationships(rows)}, NEW proposed,
           NEW waiters,
           waiters = {r.waiter : r \in {q \in ActionableRelationships(rows) :
                                            q.blocker = t}}
    PROVE  Representative(waiters, proposed) \in {w.pid : w \in waiters}
<1> DEFINE behind == {q \in ActionableRelationships(rows) : q.blocker = t}
           pid == [r \in behind |-> r.waiter.pid]
           pids == {w.pid : w \in waiters}
<1>1. IsFiniteSet(behind) /\ behind # {}
  <2>1. behind \in SUBSET rows /\ behind # {}
    BY DEF ActionableRelationships
  <2> HIDE DEF behind
  <2> QED
    BY <2>1, FS_Subset DEF IsRows
<1>2. pids = {pid[r] : r \in behind}
  OBVIOUS
<1>3. IsFiniteSet(pids) /\ pids # {}
  <2>1. DOMAIN pid = behind
    OBVIOUS
  <2> HIDE DEF pid, behind
  <2> QED
    BY <1>1, <1>2, <2>1, FiniteImage
<1>4. pids \subseteq Int
  BY DEF ActionableRelationships, IsRows
<1> HIDE DEF pids
<1>5. /\ pids \cap proposed \subseteq Int
      /\ IsFiniteSet(pids \cap proposed)
  <2>1. pids \cap proposed \in SUBSET pids
    OBVIOUS
  <2> QED
    BY <1>3, <1>4, <2>1, FS_Subset
<1>6. Representative(waiters, proposed) \in pids
  <2>1. CASE pids \cap proposed # {}
    <3>1. Least(pids \cap proposed) \in pids \cap proposed
      BY <1>5, <2>1, LeastIsOne
    <3>2. Representative(waiters, proposed) = Least(pids \cap proposed)
      BY <2>1 DEF Representative, pids
    <3> QED
      BY <3>1, <3>2
  <2>2. CASE pids \cap proposed = {}
    <3>1. Least(pids) \in pids
      BY <1>3, <1>4, LeastIsOne
    <3>2. Representative(waiters, proposed) = Least(pids)
      BY <2>2 DEF Representative, pids
    <3> QED
      BY <3>1, <3>2
  <2> QED
    BY <2>1, <2>2
<1> QED
  BY <1>6 DEF pids

LEMMA TargetsAreFinite ==
    ASSUME NEW rows, IsRows(rows), NEW proposed, NEW expand
    PROVE  /\ IsFiniteSet(Targets(rows, proposed, expand))
           /\ Targets(rows, proposed, expand)
                \subseteq {r.blocker : r \in ActionableRelationships(rows)}
<1> DEFINE sought == {q \in ActionableRelationships(rows) :
                        expand \/ \E p \in proposed : Matches(p, q)}
           of == [r \in sought |-> r.blocker]
<1>1. sought \in SUBSET rows
  BY DEF ActionableRelationships
<1>2. Targets(rows, proposed, expand) = {of[r] : r \in sought} /\ DOMAIN of = sought
  BY DEF Targets
<1> HIDE DEF sought, of
<1>3. IsFiniteSet(sought)
  BY <1>1, FS_Subset DEF IsRows
<1>4. IsFiniteSet(Targets(rows, proposed, expand))
  BY <1>2, <1>3, FiniteImage
<1> QED
  BY <1>4 DEF Targets

\* What a plan of what was proposed says, of the relationships it may act on.
IsExact(plan, targets, safe, proposed, expand) ==
    /\ Cardinality(plan) <= MaxActions
    /\ {p.blocker : p \in proposed} \subseteq targets
    /\ targets = IF expand THEN {r.blocker : r \in safe}
                 ELSE {p.blocker : p \in proposed}
    /\ \A t \in targets : \A r \in safe : r.blocker.pid = t.pid => r.blocker = t
    /\ {a.ordinal : a \in plan} = 1..Cardinality(targets)
    /\ \A a, b \in plan :
         /\ a.target.pid \in {r.waiter.pid : r \in safe}
         /\ b.target.pid \notin {r.waiter.pid : r \in safe}
         => b.ordinal < a.ordinal
    /\ \A a \in plan :
         /\ a.waiters = {r.waiter : r \in {q \in safe : q.blocker = a.target}}
         /\ a.pid \in {w.pid : w \in a.waiters}

LEMMA PlanOfSnapshot ==
    ASSUME NEW snapshot, IsRows(snapshot.rows), NEW proposed, NEW expand \in BOOLEAN,
           NEW plan, plan = BuildTerminationPlan(snapshot, proposed, expand),
           plan # {},
           NEW safe, safe = ActionableRelationships(snapshot.rows),
           NEW targets, targets = {a.target : a \in plan}
    PROVE  IsExact(plan, targets, safe, proposed, expand)
<1> DEFINE rows == snapshot.rows
           T == Targets(rows, proposed, expand)
           planned == [t \in T |-> PlannedAction(rows, T, proposed, t)]
           R == {p \in T \X T : Before(rows, p[1], p[2])}
<1>1. ~PlanIsRefused(snapshot, proposed, expand)
      /\ plan = {planned[t] : t \in T} /\ DOMAIN planned = T
  BY DEF BuildTerminationPlan
<1>2. IsFiniteSet(T) /\ T \subseteq {r.blocker : r \in safe}
  BY TargetsAreFinite
<1>3. \A t \in T :
        /\ planned[t].target = t
        /\ planned[t].ordinal = 1 + Cardinality({u \in T : Before(rows, u, t)})
        /\ planned[t].waiters = {r.waiter : r \in {q \in safe : q.blocker = t}}
        /\ planned[t].pid = Representative(
                {r.waiter : r \in {q \in safe : q.blocker = t}},
                {p.waiter : p \in {q \in proposed : q.blocker = t}})
  BY DEF PlannedAction
<1>4. targets = T
  <2> HIDE DEF T, planned
  <2>1. \A t \in T : planned[t].target = t
    BY <1>3
  <2> QED
    BY <1>1, <2>1
<1>5. /\ \A p \in proposed : \E r \in safe : Matches(p, r)
      /\ ~Conflicting(rows)
      /\ Cardinality(T) <= MaxActions
  <2>1. \A p \in proposed : IsMatched(rows, p)
    BY <1>1 DEF PlanIsRefused
  <2>2. ~Conflicting(rows) /\ ~(Cardinality(T) > MaxActions)
    BY <1>1 DEF PlanIsRefused
  <2>3. Cardinality(T) \in Nat
    BY <1>2, FS_CardinalityType
  <2> QED
    BY <2>1, <2>2, <2>3, MaxActionsAssumption DEF IsMatched
<1>6. Cardinality(plan) <= MaxActions
  <2> HIDE DEF T, planned
  <2>1. IsFiniteSet(plan) /\ Cardinality(plan) <= Cardinality(T)
    BY <1>1, <1>2, FiniteImage
  <2>2. Cardinality(plan) \in Nat /\ Cardinality(T) \in Nat
    BY <1>2, <2>1, FS_CardinalityType
  <2> QED
    BY <1>5, <2>1, <2>2, MaxActionsAssumption
<1>7. /\ {p.blocker : p \in proposed} \subseteq targets
      /\ targets = IF expand THEN {r.blocker : r \in safe}
                   ELSE {p.blocker : p \in proposed}
  <2>1. CASE expand
    <3>1. T = {r.blocker : r \in safe}
      BY <2>1 DEF Targets
    <3> QED
      BY <1>4, <1>5, <2>1, <3>1 DEF Matches
  <2>2. CASE ~expand
    <3>1. T = {r.blocker : r \in {q \in safe : \E p \in proposed : Matches(p, q)}}
      BY <2>2 DEF Targets
    <3>2. T = {p.blocker : p \in proposed}
      BY <1>5, <3>1 DEF Matches
    <3> QED
      BY <1>4, <2>2, <3>2
  <2> QED
    BY <2>1, <2>2
<1>8. \A t \in targets : \A r \in safe : r.blocker.pid = t.pid => r.blocker = t
  BY <1>2, <1>4, <1>5 DEF Conflicting
<1>9. /\ Irreflexive(R, T) /\ Transitive(R, T) /\ Total(R, T)
      /\ \A t, u \in T : <<t, u>> \in R <=> Before(rows, t, u)
  <2>1. \A t, u \in T : <<t, u>> \in R <=> Before(rows, t, u)
    OBVIOUS
  <2> HIDE DEF R, T, rows
  <2> QED
    BY <1>2, <1>5, <2>1, PlanIsOrdered DEF rows
<1>10. \A t \in T : planned[t].ordinal = 1 + Cardinality(Below(R, T, t))
  <2>1. \A t \in T : Below(R, T, t) = {u \in T : Before(rows, u, t)}
    <3> HIDE DEF R, T, rows
    <3> QED
      BY <1>9 DEF Below
  <2> QED
    BY <1>3, <2>1
<1>11. {a.ordinal : a \in plan} = 1..Cardinality(targets)
  <2> HIDE DEF R, T, rows, planned
  <2>1. {1 + Cardinality(Below(R, T, t)) : t \in T} = 1..Cardinality(T)
    BY <1>2, <1>9, RanksAreConsecutive
  <2> QED
    <3>1. {a.ordinal : a \in plan} = {1 + Cardinality(Below(R, T, t)) : t \in T}
      BY <1>1, <1>10
    <3> QED
      BY <1>4, <2>1, <3>1
<1>12. ASSUME NEW a \in plan, NEW b \in plan,
              a.target.pid \in {r.waiter.pid : r \in safe},
              b.target.pid \notin {r.waiter.pid : r \in safe}
       PROVE  b.ordinal < a.ordinal
  <2>1. PICK t \in T, u \in T : a = planned[t] /\ b = planned[u]
    BY <1>1
  <2>2. Waits(rows, t) /\ ~Waits(rows, u)
    <3>1. a.target = t /\ b.target = u
      BY <1>3, <2>1
    <3>2. safe = ActionableRelationships(rows)
      OBVIOUS
    <3> HIDE DEF R, T, rows, planned
    <3> QED
      BY <1>12, <3>1, <3>2 DEF Waits
  <2>3. Before(rows, u, t)
    BY <2>2 DEF Before
  <2> HIDE DEF R, T, rows, planned
  <2>4. <<u, t>> \in R
    BY <1>9, <2>3
  <2>5. Cardinality(Below(R, T, u)) < Cardinality(Below(R, T, t))
    BY <1>2, <1>9, <2>4, LessHasLowerRank
  <2>6. Cardinality(Below(R, T, u)) \in Int /\ Cardinality(Below(R, T, t)) \in Int
    BY <1>2, <1>9, BelowIsFinite
  <2> QED
    BY <1>10, <2>1, <2>5, <2>6
<1>13. ASSUME NEW a \in plan
       PROVE  /\ a.waiters = {r.waiter : r \in {q \in safe : q.blocker = a.target}}
              /\ a.pid \in {w.pid : w \in a.waiters}
  <2>1. PICK t \in T : a = planned[t]
    BY <1>1
  <2>2. /\ a.target = t
        /\ a.waiters = {r.waiter : r \in {q \in safe : q.blocker = t}}
        /\ a.pid = Representative(a.waiters,
                        {p.waiter : p \in {q \in proposed : q.blocker = t}})
    BY <1>3, <2>1
  <2>3. t \in {r.blocker : r \in ActionableRelationships(rows)} /\ IsRows(rows)
    BY <1>2
  <2> DEFINE asked == {p.waiter : p \in {q \in proposed : q.blocker = t}}
             waiters == a.waiters
  <2>4. waiters = {r.waiter : r \in {q \in ActionableRelationships(rows) :
                                            q.blocker = t}}
        /\ a.pid = Representative(waiters, asked)
    BY <2>2
  <2> HIDE DEF waiters, asked, T, R, planned, rows
  <2>5. Representative(waiters, asked) \in {w.pid : w \in waiters}
    BY <2>3, <2>4, RepresentativeIsWaiter
  <2> QED
    BY <2>2, <2>4, <2>5 DEF waiters
<1> QED
  BY <1>6, <1>7, <1>8, <1>11, <1>12, <1>13 DEF IsExact

-----------------------------------------------------------------------------
(* The inductive invariant *)

RunFields ==
    run = [at |-> run.at, iteration |-> run.iteration, attempted |-> run.attempted,
           pending |-> run.pending, status |-> run.status]

Records ==
    [tool : Observations \cup {"propose"}, shows : SUBSET Subjects,
     status : {"success", "error", "blocked_duplicate", "policy_rejected"}]

Proposals == [subject : Subjects, refs : SUBSET Int, at : Nat]

LedgerTypeOK ==
    /\ request \in {"diagnose", "propose", "locks"}
    /\ ledger \in Seq(Records)
    /\ cutoff \in Nat
    /\ proposals \in Seq(Proposals)

\* What a proposal rests on, of the records of a ledger l.
Rests(p, l) ==
    /\ p.refs # {}
    /\ p.at \in DOMAIN l
    /\ \A ref \in p.refs :
        /\ ref \in DOMAIN l /\ ref < p.at
        /\ l[ref].status = "success"
        /\ p.subject \in l[ref].shows
        /\ IsTermination(p.subject) =>
            \A j \in (ref + 1)..p.at : l[j].tool # "get_lock_waits"

\* Route takes the ledger away with the run.
LedgerInv ==
    /\ run.at \notin {"finished", "over", "interrupted"} =>
        \A i \in DOMAIN proposals : Rests(proposals[i], ledger)
    /\ request = "diagnose" => proposals = <<>>

\* A run that is to be routed as completed has its evidence cited.
CitesInv == run.at = "finish" /\ run.status = "completed" => CitationsHold(cites)

PlanInv ==
    /\ routed = [to |-> routed.to, plan |-> routed.plan, snapshot |-> routed.snapshot]
    /\ routed.plan # {} =>
        /\ run.at = "over"
        /\ routed.snapshot \in Snapshots
        /\ routed.plan =
            BuildTerminationPlan(routed.snapshot, Proposed, request = "locks")

RoutingInv == RunFields /\ LedgerTypeOK /\ LedgerInv /\ CitesInv /\ PlanInv

-----------------------------------------------------------------------------
(* What a step does to the run *)

\* The run goes on, or ends without an answer that was accepted.
GoesOn ==
    /\ RunFields'
    /\ run.at \notin {"over", "interrupted"}
    /\ run'.at \notin {"finished", "over"}
    /\ run'.at # "interrupted" => run.at \notin {"finish", "finished"}
    /\ run'.at = "finish" => run'.status # "completed"

LEMMA GotoRun ==
    ASSUME RunFields, NEW at, Goto(at)
    PROVE  RunFields' /\ run'.at = at /\ run'.status = run.status
  BY DEF RunFields, Goto

LEMMA FinishRun ==
    ASSUME RunFields, NEW status, Finish(status)
    PROVE  RunFields' /\ run'.at = "finish" /\ run'.status = status
  BY DEF RunFields, Finish

LEMMA NextIterationRun ==
    ASSUME RunFields, NextIteration
    PROVE  RunFields' /\ run'.at = "model" /\ run'.status = run.status
  BY DEF RunFields, NextIteration

LEMMA CallMadeRun ==
    ASSUME RunFields, CallMade
    PROVE  RunFields' /\ run.at = "tools" /\ run'.at = "tools"
  BY DEF RunFields, CallMade

LEMMA EndsBadly ==
    ASSUME RunFields, run.at \notin {"finish", "finished", "over", "interrupted"},
           \E status \in {"stopped", "failed"} : Finish(status)
    PROVE  GoesOn
  BY FinishRun DEF GoesOn

LEMMA GraphGoesOn ==
    ASSUME RunFields,
           \/ StartRun \/ GraphStep \/ StartTurn \/ CallWithoutRecord
           \/ AnswerEnds \/ AnswerRefused
    PROVE  GoesOn
<1>1. CASE StartRun
  BY <1>1, GotoRun DEF StartRun, GoesOn
<1>2. ASSUME NEW prefetch \in BOOLEAN, Verify(prefetch) PROVE GoesOn
  <2>1. run.at = "verify"
    BY <1>2 DEF Verify
  <2>2. CASE \E status \in {"stopped", "failed"} : Finish(status)
    BY <2>1, <2>2, EndsBadly
  <2>3. CASE run' = [run EXCEPT !.at = "model",
                                !.attempted = IF prefetch THEN 1 ELSE 0]
    BY <2>1, <2>3 DEF RunFields, GoesOn
  <2> QED
    BY <1>2, <2>2, <2>3 DEF Verify
<1>3. CASE StopAtModel
  BY <1>3, EndsBadly DEF StopAtModel
<1>4. CASE AskModel
  BY <1>4, GotoRun DEF AskModel, GoesOn
<1>5. CASE ModelFails
  BY <1>5, EndsBadly DEF ModelFails
<1>6. CASE ModelResponds
  <2>1. run.at = "calling"
    BY <1>6 DEF ModelResponds
  <2>2. CASE \E status \in {"failed", "stopped"} : Finish(status)
    BY <2>1, <2>2, EndsBadly
  <2>3. CASE Goto("answer")
    BY <2>1, <2>3, GotoRun DEF GoesOn
  <2>4. CASE \E n \in 1..(MaxPerTurn + 1) :
                run' = [run EXCEPT !.at = "turn", !.pending = n]
    BY <2>1, <2>4 DEF RunFields, GoesOn
  <2> QED
    BY <1>6, <2>2, <2>3, <2>4 DEF ModelResponds
<1>7. CASE EndInTools
  BY <1>7, EndsBadly DEF EndInTools
<1>8. CASE EndTurn
  BY <1>8, NextIterationRun DEF EndTurn, GoesOn
<1>9. CASE Interrupted
  BY <1>9, GotoRun DEF Interrupted, GoesOn
<1>10. CASE StartTurn
  <2>1. run.at = "turn"
    BY <1>10 DEF StartTurn, BeginTurn
  <2>2. CASE Finish("stopped")
    BY <2>1, <2>2, EndsBadly
  <2>3. CASE run' = [run EXCEPT !.at = "tools", !.attempted = @ + run.pending]
    BY <2>1, <2>3 DEF RunFields, GoesOn
  <2> QED
    BY <1>10, <2>2, <2>3 DEF StartTurn, BeginTurn
<1>11. CASE CallWithoutRecord
  BY <1>11, CallMadeRun DEF CallWithoutRecord, GoesOn
<1>12. CASE AnswerEnds
  BY <1>12, EndsBadly DEF AnswerEnds
<1>13. CASE AnswerRefused
  BY <1>13, NextIterationRun DEF AnswerRefused, GoesOn
<1> QED
  BY <1>1, <1>2, <1>3, <1>4, <1>5, <1>6, <1>7, <1>8, <1>9, <1>10, <1>11, <1>12,
     <1>13 DEF GraphStep

\* A step that leaves the ledger, the proposals, the citations and the plan.
LEMMA GoesOnKeepsRouting ==
    ASSUME RoutingInv, GoesOn \/ run' = run, cutoff' \in Nat,
           UNCHANGED <<request, ledger, proposals, cites, routed>>
    PROVE  RoutingInv'
<1>1. RunFields'
  BY DEF RoutingInv, GoesOn, RunFields
<1>2. LedgerTypeOK'
  BY DEF RoutingInv, LedgerTypeOK
<1>3. run'.at \notin {"finished", "over", "interrupted"} =>
        run.at \notin {"finished", "over", "interrupted"}
  BY DEF GoesOn
<1>4. LedgerInv'
  BY <1>3 DEF RoutingInv, LedgerInv, Rests
<1>5. CitesInv'
  BY DEF RoutingInv, CitesInv, GoesOn, CitationsHold, Successful
<1>6. PlanInv'
  BY DEF RoutingInv, PlanInv, GoesOn, Proposed
<1> QED
  BY <1>1, <1>2, <1>4, <1>5, <1>6 DEF RoutingInv

-----------------------------------------------------------------------------
(* What a step does to the ledger *)

LEMMA Appended ==
    ASSUME NEW T, NEW l \in Seq(T), NEW x \in T
    PROVE  /\ Append(l, x) \in Seq(T)
           /\ Len(l) \in Nat
           /\ DOMAIN l = 1..Len(l)
           /\ DOMAIN Append(l, x) = 1..(Len(l) + 1)
           /\ \A i \in 1..Len(l) : Append(l, x)[i] = l[i]
           /\ Append(l, x)[Len(l) + 1] = x
<1>1. /\ Append(l, x) \in Seq(T) /\ Len(l) \in Nat
      /\ Len(Append(l, x)) = Len(l) + 1
  OBVIOUS
<1>2. DOMAIN l = 1..Len(l) /\ DOMAIN Append(l, x) = 1..(Len(l) + 1)
  BY <1>1
<1>3. \A i \in 1..Len(l) : Append(l, x)[i] = l[i]
  OBVIOUS
<1>4. Append(l, x)[Len(l) + 1] = x
  OBVIOUS
<1> QED
  BY <1>1, <1>2, <1>3, <1>4

LEMMA AppendKeepsRests ==
    ASSUME NEW l \in Seq(Records), NEW rec \in Records, NEW p \in Proposals,
           Rests(p, l)
    PROVE  Rests(p, Append(l, rec))
<1> DEFINE m == Append(l, rec)
<1>1. /\ Len(l) \in Nat /\ DOMAIN l = 1..Len(l) /\ DOMAIN m = 1..(Len(l) + 1)
      /\ \A i \in 1..Len(l) : m[i] = l[i]
  BY Appended
<1>2. p.at \in 1..Len(l)
  BY <1>1 DEF Rests
<1> HIDE DEF m
<1>3. p.at \in DOMAIN m
  BY <1>1, <1>2
<1>4. ASSUME NEW ref \in p.refs
      PROVE  /\ ref \in DOMAIN m /\ ref < p.at
             /\ m[ref].status = "success"
             /\ p.subject \in m[ref].shows
             /\ IsTermination(p.subject) =>
                  \A j \in (ref + 1)..p.at : m[j].tool # "get_lock_waits"
  <2>1. /\ ref \in 1..Len(l) /\ ref < p.at
        /\ l[ref].status = "success"
        /\ p.subject \in l[ref].shows
        /\ IsTermination(p.subject) =>
             \A j \in (ref + 1)..p.at : l[j].tool # "get_lock_waits"
    BY <1>1 DEF Rests
  <2>2. m[ref] = l[ref] /\ ref \in DOMAIN m
    BY <1>1, <2>1
  <2>3. \A j \in (ref + 1)..p.at : m[j] = l[j]
    BY <1>1, <1>2, <2>1
  <2> QED
    BY <2>1, <2>2, <2>3
<1>5. p.refs # {}
  BY DEF Rests
<1>6. Rests(p, m)
  BY <1>3, <1>4, <1>5 DEF Rests
<1> QED
  BY <1>6 DEF m

\* The records a proposal may rest on are finitely many.
LEMMA RefsAreFinite ==
    ASSUME LedgerTypeOK, NEW refs \in SUBSET DOMAIN ledger
    PROVE  refs \subseteq Int /\ IsFiniteSet(refs)
<1>1. DOMAIN ledger = 1..Len(ledger) /\ Len(ledger) \in Int /\ 1 \in Int
  BY DEF LedgerTypeOK
<1>2. IsFiniteSet(1..Len(ledger))
  BY <1>1, FS_Interval
<1> QED
  BY <1>1, <1>2, FS_Subset

\* The evidence that authorizes a proposal: what a reference of it is.
LEMMA EvidenceShows ==
    ASSUME LedgerTypeOK, NEW subject \in Subjects,
           NEW ref \in ProposalEvidence(subject)
    PROVE  /\ request # "diagnose"
           /\ ref \in Successful
           /\ subject \in ledger[ref].shows
           /\ IsTermination(subject) =>
                \A j \in RecordsOf("get_lock_waits") : j <= ref
<1>1. request # "diagnose"
  BY DEF ProposalEvidence
<1>2. CASE IsTermination(subject)
  <2>1. ref \in TerminationEvidence(subject)
    BY <1>1, <1>2 DEF ProposalEvidence
  <2> DEFINE snapshots == RecordsOf("get_lock_waits")
  <2>2. /\ snapshots # {} /\ Newest(snapshots) \in Successful
        /\ subject \in ledger[Newest(snapshots)].shows
        /\ ref = Newest(snapshots)
    BY <2>1 DEF TerminationEvidence
  <2>3. snapshots \in SUBSET DOMAIN ledger
    BY DEF RecordsOf
  <2> HIDE DEF snapshots
  <2>4. \A j \in snapshots : j <= Newest(snapshots)
    BY <2>2, <2>3, RefsAreFinite, NewestIsGreatest
  <2> QED
    BY <1>1, <2>2, <2>4 DEF snapshots
<1>3. CASE ~IsTermination(subject)
  <2>1. ref \in ChangeEvidence(subject)
    BY <1>1, <1>3 DEF ProposalEvidence
  <2> DEFINE plans == {i \in Earlier(RecordsOf("analyze_query")) \cap Successful :
                        subject \in ledger[i].shows}
             others == Earlier(RecordsOf(SecondEvidence(subject))) \cap Successful
  <2>2. /\ plans # {} /\ others # {} /\ subject \in ledger[Newest(others)].shows
        /\ ref \in {Newest(plans), Newest(others)}
    BY <2>1 DEF ChangeEvidence
  <2>3. /\ plans \in SUBSET DOMAIN ledger /\ others \in SUBSET DOMAIN ledger
        /\ plans \subseteq Successful /\ others \subseteq Successful
        /\ \A i \in plans : subject \in ledger[i].shows
    BY DEF Successful
  <2> HIDE DEF plans, others
  <2>4. Newest(plans) \in plans /\ Newest(others) \in others
    BY <2>2, <2>3, RefsAreFinite, NewestIsGreatest
  <2> QED
    BY <1>1, <1>3, <2>2, <2>3, <2>4
<1> QED
  BY <1>2, <1>3

LEMMA NewProposalRests ==
    ASSUME LedgerTypeOK, NEW subject \in Subjects, ProposalEvidence(subject) # {},
           NEW rec \in Records, rec.tool = "propose",
           NEW p, p = [subject |-> subject, refs |-> ProposalEvidence(subject),
                       at |-> Len(ledger) + 1]
    PROVE  p \in Proposals /\ Rests(p, Append(ledger, rec))
<1> DEFINE m == Append(ledger, rec)
           n == Len(ledger)
<1>1. /\ n \in Nat /\ DOMAIN ledger = 1..n /\ DOMAIN m = 1..(n + 1)
      /\ \A i \in 1..n : m[i] = ledger[i]
      /\ m[n + 1] = rec
  BY Appended DEF LedgerTypeOK
<1>2. \A ref \in p.refs : ref \in 1..n
  BY <1>1, EvidenceShows DEF Successful
<1>3. p \in Proposals
  BY <1>1, <1>2 DEF Proposals
<1> HIDE DEF m, n
<1>4. ASSUME NEW ref \in p.refs
      PROVE  /\ ref \in DOMAIN m /\ ref < n + 1
             /\ m[ref].status = "success"
             /\ subject \in m[ref].shows
             /\ IsTermination(subject) =>
                  \A j \in (ref + 1)..(n + 1) : m[j].tool # "get_lock_waits"
  <2>1. ref \in 1..n /\ m[ref] = ledger[ref] /\ ref \in ProposalEvidence(subject)
    BY <1>1, <1>2
  <2>2. /\ m[ref].status = "success" /\ subject \in m[ref].shows
        /\ IsTermination(subject) =>
                \A j \in RecordsOf("get_lock_waits") : j <= ref
    BY <2>1, EvidenceShows DEF Successful
  <2>3. ASSUME IsTermination(subject), NEW j \in (ref + 1)..(n + 1)
        PROVE  m[j].tool # "get_lock_waits"
    <3>1. CASE j = n + 1
      BY <1>1, <3>1
    <3>2. CASE j # n + 1
      <4>1. j \in 1..n /\ ~(j <= ref)
        BY <1>1, <2>1, <3>2
      <4>2. ledger[j].tool # "get_lock_waits"
        BY <1>1, <2>2, <2>3, <4>1 DEF RecordsOf
      <4> QED
        BY <1>1, <4>1, <4>2
    <3> QED
      BY <3>1, <3>2
  <2> QED
    BY <1>1, <2>1, <2>2, <2>3
<1>5. p.at = n + 1 /\ p.subject = subject /\ p.refs # {}
  BY DEF n
<1>6. p.at \in DOMAIN m
  BY <1>1, <1>5
<1>7. Rests(p, m)
  BY <1>4, <1>5, <1>6 DEF Rests
<1> QED
  BY <1>3, <1>7 DEF m

\* A record is added, and a proposal that rests on the ledger with it, if any.
LEMMA RecordKeepsRouting ==
    ASSUME RoutingInv, NEW tool, NEW shows, NEW status,
           [tool |-> tool, shows |-> shows, status |-> status] \in Records,
           AddRecord(tool, shows, status),
           \/ proposals' = proposals
           \/ /\ request # "diagnose"
              /\ \E p \in Proposals :
                    proposals' = Append(proposals, p) /\ Rests(p, ledger')
    PROVE  RoutingInv'
<1>1. /\ RunFields' /\ run.at = "tools" /\ run'.at = "tools"
      /\ UNCHANGED <<request, cutoff, cites, routed>>
      /\ ledger' = Append(ledger, [tool |-> tool, shows |-> shows, status |-> status])
      /\ ledger \in Seq(Records) /\ proposals \in Seq(Proposals)
  BY CallMadeRun DEF AddRecord, RoutingInv, LedgerTypeOK
<1>2. ledger' \in Seq(Records)
  BY <1>1, Appended
<1>3. ASSUME NEW i \in DOMAIN proposals
      PROVE  Rests(proposals[i], ledger')
  <2>1. Rests(proposals[i], ledger) /\ proposals[i] \in Proposals
    BY <1>1 DEF RoutingInv, LedgerInv
  <2> QED
    BY <1>1, <2>1, AppendKeepsRests
<1>4. /\ proposals' \in Seq(Proposals)
      /\ \A i \in DOMAIN proposals' : Rests(proposals'[i], ledger')
      /\ request' = "diagnose" => proposals' = <<>>
  <2>1. CASE proposals' = proposals
    BY <1>1, <1>3, <2>1 DEF RoutingInv, LedgerInv
  <2>2. CASE /\ request # "diagnose"
             /\ \E p \in Proposals :
                    proposals' = Append(proposals, p) /\ Rests(p, ledger')
    <3>1. PICK p \in Proposals :
            proposals' = Append(proposals, p) /\ Rests(p, ledger')
      BY <2>2
    <3>2. /\ proposals' \in Seq(Proposals)
          /\ Len(proposals) \in Nat /\ DOMAIN proposals = 1..Len(proposals)
          /\ DOMAIN proposals' = 1..(Len(proposals) + 1)
          /\ \A i \in 1..Len(proposals) : proposals'[i] = proposals[i]
          /\ proposals'[Len(proposals) + 1] = p
      BY <1>1, <3>1, Appended
    <3>3. ASSUME NEW i \in DOMAIN proposals'
          PROVE  Rests(proposals'[i], ledger')
      <4>1. CASE i = Len(proposals) + 1
        BY <3>1, <3>2, <4>1
      <4>2. CASE i # Len(proposals) + 1
        <5>1. i \in DOMAIN proposals /\ proposals'[i] = proposals[i]
          BY <3>2, <4>2
        <5> QED
          BY <1>3, <5>1
      <4> QED
        BY <4>1, <4>2
    <3> QED
      BY <1>1, <2>2, <3>2, <3>3
  <2> QED
    BY <2>1, <2>2
<1>5. LedgerTypeOK'
  BY <1>1, <1>2, <1>4 DEF RoutingInv, LedgerTypeOK
<1>6. LedgerInv'
  BY <1>4 DEF LedgerInv
<1>7. CitesInv' /\ PlanInv'
  BY <1>1 DEF RoutingInv, CitesInv, PlanInv
<1> QED
  BY <1>1, <1>5, <1>6, <1>7 DEF RoutingInv

LEMMA ShownIsSubject ==
    ASSUME NEW tool PROVE MayShow(tool) \subseteq Subjects
  BY DEF MayShow, Subjects

LEMMA ObserveKeepsRouting ==
    ASSUME RoutingInv, NEW tool \in Observations, Observe(tool)
    PROVE  RoutingInv'
<1>1. PICK shows \in SUBSET Subjects, status \in {"success", "error", "blocked_duplicate"} :
        AddRecord(tool, shows, status)
  BY ShownIsSubject DEF Observe
<1>2. [tool |-> tool, shows |-> shows, status |-> status] \in Records
  BY DEF Records
<1>3. proposals' = proposals
  BY DEF Observe
<1> QED
  BY <1>1, <1>2, <1>3, RecordKeepsRouting

LEMMA ProposeKeepsRouting ==
    ASSUME RoutingInv, NEW subject \in Subjects, Propose(subject)
    PROVE  RoutingInv'
<1>1. \A status \in {"success", "error", "blocked_duplicate", "policy_rejected"} :
        [tool |-> "propose", shows |-> {subject}, status |-> status] \in Records
  BY DEF Records
<1>2. CASE proposals' = proposals
  <2>1. PICK status \in {"success", "error", "blocked_duplicate", "policy_rejected"} :
            AddRecord("propose", {subject}, status)
    BY DEF Propose
  <2> QED
    BY <1>1, <1>2, <2>1, RecordKeepsRouting
<1>3. CASE proposals' # proposals
  <2>1. /\ ProposalEvidence(subject) # {}
        /\ AddRecord("propose", {subject}, "success")
        /\ proposals' = Append(proposals,
                [subject |-> subject, refs |-> ProposalEvidence(subject),
                 at |-> Len(ledger) + 1])
    BY <1>3 DEF Propose
  <2>2. PICK p : p = [subject |-> subject, refs |-> ProposalEvidence(subject),
                      at |-> Len(ledger) + 1]
    OBVIOUS
  <2>3. PICK rec : rec = [tool |-> "propose", shows |-> {subject},
                          status |-> "success"]
    OBVIOUS
  <2>4. rec \in Records /\ rec.tool = "propose"
    BY <1>1, <2>3
  <2>5. p \in Proposals /\ Rests(p, Append(ledger, rec))
    BY <2>1, <2>2, <2>4, NewProposalRests DEF RoutingInv
  <2>6. ledger' = Append(ledger, rec)
    BY <2>1, <2>3 DEF AddRecord
  <2>7. request # "diagnose"
    BY <2>1, EvidenceShows DEF RoutingInv
  <2>8. proposals' = Append(proposals, p)
    BY <2>1, <2>2
  <2>9. \E q \in Proposals : proposals' = Append(proposals, q) /\ Rests(q, ledger')
    BY <2>5, <2>6, <2>8
  <2> QED
    BY <1>1, <2>1, <2>7, <2>9, RecordKeepsRouting
<1> QED
  BY <1>2, <1>3

LEMMA AnswerKeepsRouting ==
    ASSUME RoutingInv, Answer
    PROVE  RoutingInv'
<1>1. UNCHANGED <<request, ledger, cutoff, proposals, routed>>
  BY DEF Answer, toolVars
<1>2. cutoff \in Nat /\ RunFields
  BY DEF RoutingInv, LedgerTypeOK
<1>3. CASE (AnswerEnds \/ AnswerRefused) /\ UNCHANGED cites
  BY <1>1, <1>2, <1>3, GraphGoesOn, GoesOnKeepsRouting
<1>4. CASE \E cited \in SUBSET (0..Len(ledger)) :
                CitationsHold(cited) /\ cites' = cited /\ AnswerAccepted
  <2>1. CitationsHold(cites') /\ Finish("completed") /\ run.at = "answer"
    BY <1>4 DEF AnswerAccepted
  <2>2. RunFields' /\ run'.at = "finish"
    BY <1>2, <2>1, FinishRun
  <2>3. LedgerTypeOK' /\ LedgerInv'
    BY <1>1, <2>1 DEF RoutingInv, LedgerTypeOK, LedgerInv, Rests
  <2>4. CitesInv'
    BY <1>1, <2>1 DEF CitesInv, CitationsHold, Successful
  <2>5. PlanInv'
    BY <1>1, <2>1 DEF RoutingInv, PlanInv
  <2> QED
    BY <2>2, <2>3, <2>4, <2>5 DEF RoutingInv
<1> QED
  BY <1>3, <1>4 DEF Answer

LEMMA RouteKeepsRouting ==
    ASSUME RoutingInv, Route
    PROVE  RoutingInv'
<1>1. /\ run.at = "finish"
      /\ Goto(IF RoutedTo = "incident" THEN "finished" ELSE "over")
      /\ routed' = [routed EXCEPT !.to = RoutedTo]
      /\ ledger' = <<>>
      /\ UNCHANGED <<request, cutoff, proposals>>
  BY DEF Route
<1>2. RunFields' /\ run'.at \in {"finished", "over"}
  BY <1>1, GotoRun DEF RoutingInv
<1>3. LedgerTypeOK' /\ LedgerInv'
  BY <1>1, <1>2 DEF RoutingInv, LedgerTypeOK, LedgerInv
<1>4. routed = [to |-> routed.to, plan |-> routed.plan, snapshot |-> routed.snapshot]
      /\ routed.plan = {}
  BY <1>1 DEF RoutingInv, PlanInv
<1>5. routed' = [to |-> RoutedTo, plan |-> {}, snapshot |-> routed.snapshot]
  BY <1>1, <1>4
<1>6. PlanInv' /\ CitesInv'
  BY <1>2, <1>5 DEF PlanInv, CitesInv
<1> QED
  BY <1>2, <1>3, <1>6 DEF RoutingInv

LEMMA PlanKeepsRouting ==
    ASSUME RoutingInv, PlanIncident
    PROVE  RoutingInv'
<1>1. PICK snapshot \in Snapshots :
        routed' = [routed EXCEPT
            !.snapshot = snapshot,
            !.plan = BuildTerminationPlan(snapshot, Proposed, request = "locks")]
  BY DEF PlanIncident
<1>2. /\ run.at = "finished" /\ Goto("over")
      /\ UNCHANGED <<request, ledger, cutoff, proposals, cites>>
  BY DEF PlanIncident, toolVars
<1>3. RunFields' /\ run'.at = "over"
  BY <1>2, GotoRun DEF RoutingInv
<1>4. LedgerTypeOK' /\ LedgerInv'
  BY <1>2, <1>3 DEF RoutingInv, LedgerTypeOK, LedgerInv
<1>5. PICK plan : plan = BuildTerminationPlan(snapshot, Proposed, request = "locks")
  OBVIOUS
<1>6. routed' = [to |-> routed.to, plan |-> plan, snapshot |-> snapshot]
  <2>1. routed = [to |-> routed.to, plan |-> routed.plan,
                  snapshot |-> routed.snapshot]
    BY DEF RoutingInv, PlanInv
  <2> QED
    BY <1>1, <1>5, <2>1
<1>7. Proposed' = Proposed /\ request' = request
  BY <1>2 DEF Proposed
<1>8. PlanInv'
  BY <1>3, <1>5, <1>6, <1>7 DEF PlanInv
<1>9. CitesInv'
  BY <1>3 DEF CitesInv
<1> QED
  BY <1>3, <1>4, <1>8, <1>9 DEF RoutingInv

LEMMA RoutingStep == RoutingInv /\ [Next]_vars => RoutingInv'
<1> SUFFICES ASSUME RoutingInv, [Next]_vars
             PROVE  RoutingInv'
  OBVIOUS
<1>1. RunFields /\ cutoff \in Nat /\ Len(ledger) \in Nat
  BY DEF RoutingInv, LedgerTypeOK
<1>2. CASE StartRun \/ GraphStep \/ CallWithoutRecord
  <2>1. GoesOn
    BY <1>1, <1>2, GraphGoesOn
  <2>2. UNCHANGED <<request, ledger, cutoff, proposals, cites, routed>>
    BY <1>2 DEF StartRun, GraphStep, CallWithoutRecord, Quiet, toolVars
  <2> QED
    BY <1>1, <2>1, <2>2, GoesOnKeepsRouting
<1>3. CASE StartTurn
  <2>1. GoesOn
    BY <1>1, <1>3, GraphGoesOn
  <2> QED
    BY <1>1, <1>3, <2>1, GoesOnKeepsRouting DEF StartTurn
<1>4. CASE EvidenceAges \/ UNCHANGED vars
  <2>1. run' = run /\ UNCHANGED <<request, ledger, cutoff, proposals, cites, routed>>
    BY <1>4 DEF EvidenceAges, vars, toolVars
  <2> QED
    BY <1>1, <2>1, GoesOnKeepsRouting
<1> QED
  BY <1>2, <1>3, <1>4, ObserveKeepsRouting, ProposeKeepsRouting, AnswerKeepsRouting,
     RouteKeepsRouting, PlanKeepsRouting DEF Next

LEMMA RoutingInitially == Init => RoutingInv
<1> SUFFICES ASSUME Init PROVE RoutingInv
  OBVIOUS
<1>1. RunFields /\ run.at = "start"
  BY DEF Init, GraphInit, RunFields
<1>2. LedgerTypeOK
  BY DEF Init, LedgerTypeOK
<1>3. LedgerInv
  BY DEF Init, LedgerInv
<1>4. CitesInv
  BY <1>1 DEF CitesInv
<1>5. routed = [to |-> "nobody", plan |-> {},
                snapshot |-> [rows |-> {}, truncated |-> FALSE]]
  BY DEF Init, NotRouted
<1>6. PlanInv
  BY <1>5 DEF PlanInv
<1> QED
  BY <1>1, <1>2, <1>3, <1>4, <1>6 DEF RoutingInv

LEMMA RoutingHolds == Spec => []RoutingInv
  BY RoutingInitially, RoutingStep, PTL DEF Spec

-----------------------------------------------------------------------------
(* The theorems *)

\* Every proposal of a run rests on successful records older than itself that
\* show its subject, a termination on the newest lock snapshot there was.
THEOREM ProposalsHaveEvidence == Spec => []ProposalsRestOnEvidence
<1>1. RoutingInv => ProposalsRestOnEvidence
  BY DEF RoutingInv, LedgerInv, Rests, ProposalsRestOnEvidence
<1> QED
  BY <1>1, RoutingHolds, PTL

\* What is routed comes from a completed run that was asked for proposals and
\* whose answer cites the evidence of all of them.
THEOREM OnlyCitedActionsAreRouted == Spec => RoutedActionsAreCited
<1> DEFINE Cited ==
        /\ run.status = "completed"
        /\ request # "diagnose"
        /\ cites \subseteq Successful
        /\ \A i \in DOMAIN proposals : proposals[i].refs \subseteq cites
        /\ routed'.to = "executor" => Len(proposals) = 1 /\ request = "propose"
        /\ routed'.to = "incident" => Proposed \subseteq Pairs
<1>1. ASSUME RoutingInv, Next, routed.to = "nobody", routed'.to # "nobody"
      PROVE  Cited
  <2>1. Route
    <3>1. routed = [to |-> routed.to, plan |-> routed.plan,
                    snapshot |-> routed.snapshot]
      BY <1>1 DEF RoutingInv, PlanInv
    <3>2. PlanIncident => routed'.to = routed.to
      BY <3>1 DEF PlanIncident
    <3>3. routed' # routed
      BY <1>1
    <3> QED
      BY <1>1, <3>2, <3>3 DEF Next, StartRun, GraphStep, Quiet, StartTurn,
         CallWithoutRecord, Observe, Propose, AddRecord, Answer, EvidenceAges
  <2>2. routed'.to = RoutedTo /\ run.at = "finish"
    BY <1>1, <2>1 DEF Route, RoutingInv, PlanInv
  <2>3. run.status = "completed" /\ proposals # <<>>
    <3>1. ASSUME run.status # "completed" \/ proposals = <<>>
          PROVE  RoutedTo = "nobody"
      BY <3>1 DEF RoutedTo
    <3> QED
      BY <1>1, <2>2, <3>1
  <2>4. request # "diagnose" /\ CitationsHold(cites)
        /\ request \in {"diagnose", "propose", "locks"}
    BY <1>1, <2>2, <2>3 DEF RoutingInv, LedgerInv, CitesInv, LedgerTypeOK
  <2>5. routed'.to = "executor" => Len(proposals) = 1 /\ request # "locks"
    BY <2>2 DEF RoutedTo
  <2>6. routed'.to = "incident" => Proposed \subseteq Pairs
    BY <2>2 DEF RoutedTo
  <2> QED
    BY <2>3, <2>4, <2>5, <2>6 DEF CitationsHold
<1>2. RoutingInv /\ [Next]_vars =>
        [routed.to = "nobody" /\ routed'.to # "nobody" => Cited]_vars
  BY <1>1
<1> QED
  BY <1>2, RoutingHolds, PTL DEF Spec, RoutedActionsAreCited

\* A plan terminates those it may and no others, each once, in an order of their
\* own and on behalf of its own waiters.
THEOREM PlansAreExact == Spec => []PlanIsExact
<1>1. ASSUME RoutingInv, routed.plan # {}
      PROVE  PlanIsExact
  <2>1. /\ routed.snapshot \in Snapshots
        /\ routed.plan =
            BuildTerminationPlan(routed.snapshot, Proposed, request = "locks")
    BY <1>1 DEF RoutingInv, PlanInv
  <2>2. IsRows(routed.snapshot.rows)
    <3>1. CASE routed.snapshot = TruncatedSnapshot
      BY <3>1, FS_EmptySet DEF IsRows, TruncatedSnapshot
    <3>2. CASE routed.snapshot # TruncatedSnapshot
      <4>1. PICK rows \in SUBSET LockRows, safe \in SUBSET LockRows :
                routed.snapshot = SnapshotOf(rows, safe)
        BY <2>1, <3>2 DEF Snapshots
      <4> DEFINE f == [r \in rows |-> [waiter |-> r.waiter, blocker |-> r.blocker,
                                       safe |-> r \in safe]]
      <4>2. /\ routed.snapshot.rows = {f[r] : r \in rows} /\ DOMAIN f = rows
            /\ \A r \in rows : f[r].waiter = r.waiter /\ f[r].blocker = r.blocker
        BY <4>1 DEF SnapshotOf
      <4> HIDE DEF f
      <4>3. IsFiniteSet({f[r] : r \in rows})
        <5>1. IsFiniteSet(rows)
          BY LockRowsAssumption, FS_Subset
        <5> QED
          BY <4>2, <5>1, FiniteImage
      <4> QED
        BY <4>2, <4>3, LockRowsAssumption DEF IsRows
    <3> QED
      BY <3>1, <3>2
  <2>3. PICK plan, snapshot, proposed, expand, safe, targets :
            /\ plan = routed.plan /\ snapshot = routed.snapshot
            /\ proposed = Proposed /\ expand = (request = "locks")
            /\ safe = {r \in routed.snapshot.rows :
                        r.safe /\ r.waiter.pid # r.blocker.pid}
            /\ targets = {a.target : a \in plan}
    OBVIOUS
  <2>4. /\ expand \in BOOLEAN /\ IsRows(snapshot.rows) /\ plan # {}
        /\ plan = BuildTerminationPlan(snapshot, proposed, expand)
        /\ safe = ActionableRelationships(snapshot.rows)
    BY <1>1, <2>1, <2>2, <2>3 DEF ActionableRelationships
  <2>5. IsExact(plan, targets, safe, proposed, expand)
    BY <2>3, <2>4, PlanOfSnapshot
  <2> QED
    BY <2>3, <2>5 DEF IsExact, PlanIsExact
<1>2. RoutingInv => PlanIsExact
  BY <1>1 DEF PlanIsExact
<1> QED
  BY <1>2, RoutingHolds, PTL

================================================================================
