---------------------------- MODULE EvidenceRouting ----------------------------
(***************************************************************************)
(* What one request of the command line may lead to: the tool calls of a run *)
(* of the agent over its graph (AgentGraph), the ledger that authorizes its  *)
(* proposals (EvidenceLedger of src/src/agent_policy.py), the citations its  *)
(* answer must have, and the routing of what it proposed by run_incident     *)
(* (src/src/main.py) to the ordinary executor or to an incident, which plans *)
(* anew (TerminationPlan). The provider, the memory and the end of the run   *)
(* are those of RunLife.                                                    *)
(*                                                                         *)
(* A proposal is known by its subject: a termination by the waiting pair, or *)
(* a change of the schema.                                                  *)
(***************************************************************************)
EXTENDS AgentGraph, TerminationPlan, Sequences

CONSTANTS
    Pairs,    \* the waiting pairs that may be shown and proposed
    Changes,  \* the kinds of changes that may be proposed
    LockRows  \* the waits there may be when an incident is planned

ASSUME SubjectsAssumption ==
    /\ Changes \subseteq {"CREATE_INDEX", "REWRITE_QUERY", "ANALYZE_TABLE"}
    /\ \A pair \in Pairs : DOMAIN pair = {"waiter", "blocker"}

\* A snapshot has finitely many rows, with PIDs and times of transactions.
ASSUME LockRowsAssumption ==
    /\ IsFiniteSet(LockRows)
    /\ \A r \in LockRows :
        {r.waiter.pid, r.blocker.pid, r.blocker.xact} \subseteq Int

VARIABLES
    request,   \* /propose, /resolve-locks, or a plain request for a diagnosis
    ledger,    \* EvidenceLedger: a record of every call, the oldest first
    cutoff,    \* the records there were at the start of the turn
    fresh,     \* whether the newest lock snapshot is within its time to live
    proposals, \* what was proposed, with the references of its evidence
    cites,     \* the references the final answer cites
    routed     \* where what was proposed went, and the plan made of it

toolVars == <<ledger, cutoff, fresh, proposals>>

vars == <<run, request, toolVars, cites, routed>>

Subjects == Pairs \cup {[change |-> c] : c \in Changes}

IsTermination(subject) == subject \in Pairs

\* What besides the plan shows the need of a change.
SecondEvidence(subject) ==
    CASE subject.change = "CREATE_INDEX" -> "get_indexes"
      [] subject.change = "REWRITE_QUERY" -> "get_column_info"
      [] subject.change = "ANALYZE_TABLE" -> "get_column_stats"

Observations ==
    {"get_lock_waits", "analyze_query"}
        \cup {SecondEvidence(s) : s \in Subjects \ Pairs}

\* The subjects that a result of an observation may support.
MayShow(tool) ==
    CASE tool = "get_lock_waits" -> Pairs
      [] tool = "analyze_query" -> Subjects \ Pairs
      [] OTHER -> {s \in Subjects \ Pairs : SecondEvidence(s) = tool}

\* VOLATILE_OBSERVATION_TOOLS.
MayRepeat(tool) == tool = "get_lock_waits"

NotRouted == [to |-> "nobody", plan |-> {},
              snapshot |-> [rows |-> {}, truncated |-> FALSE]]

Init ==
    /\ GraphInit
    /\ request \in {"diagnose", "propose", "locks"}
    /\ ledger = <<>>
    /\ cutoff = 0
    /\ fresh = FALSE
    /\ proposals = <<>>
    /\ cites = {}
    /\ routed = NotRouted

Quiet == UNCHANGED <<request, toolVars, cites, routed>>

Successful == {i \in DOMAIN ledger : ledger[i].status = "success"}

-----------------------------------------------------------------------------
(* The ledger *)

AddRecord(tool, shows, status) ==
    /\ CallMade
    /\ ledger' = Append(ledger, [tool |-> tool, shows |-> shows, status |-> status])
    /\ fresh' = (fresh \/ tool = "get_lock_waits")
    /\ UNCHANGED <<request, cutoff, cites, routed>>

\* is_duplicate: the same call was attempted, whatever came of it. The calls of
\* an observation differ in nothing, those of a proposal tool in their subject.
IsDuplicate(tool, shows) ==
    /\ ~MayRepeat(tool)
    /\ \E i \in DOMAIN ledger :
        /\ ledger[i].tool = tool
        /\ ledger[i].status \in {"success", "error"}
        /\ tool = "propose" => ledger[i].shows = shows

RecordsOf(tool) == {i \in DOMAIN ledger : ledger[i].tool = tool}

Earlier(refs) == {i \in refs : i <= cutoff}

Newest(refs) == CHOOSE i \in refs : \A j \in refs : j <= i

\* Mutant: a snapshot that failed does not count.
NewestSuccessfulSnapshot(pair) ==
    LET snapshots == Earlier(RecordsOf("get_lock_waits")) \cap Successful IN
    IF snapshots # {} /\ fresh /\ pair \in ledger[Newest(snapshots)].shows
    THEN {Newest(snapshots)} ELSE {}

\* proposal_authorization of a termination rests on the newest snapshot, which
\* must be of an earlier turn, successful and fresh, and show the pair with the
\* identity of its blocker.
TerminationEvidence(pair) ==
    LET snapshots == RecordsOf("get_lock_waits") IN
    IF /\ snapshots # {}
       /\ snapshots = Earlier(snapshots)
       /\ Newest(snapshots) \in Successful
       /\ fresh
       /\ pair \in ledger[Newest(snapshots)].shows
    THEN {Newest(snapshots)} ELSE {}

\* That of a change on a plan that shows the need of it and on the newest
\* successful snapshot of its second evidence, all of earlier turns.
ChangeEvidence(subject) ==
    LET plans == {i \in Earlier(RecordsOf("analyze_query")) \cap Successful :
                    subject \in ledger[i].shows}
        others == Earlier(RecordsOf(SecondEvidence(subject))) \cap Successful IN
    IF plans # {} /\ others # {} /\ subject \in ledger[Newest(others)].shows
    THEN {Newest(plans), Newest(others)} ELSE {}

\* proposal_authorization; a proposal without evidence is refused.
ProposalEvidence(subject) ==
    CASE request = "diagnose" -> {}
      [] request # "diagnose" /\ IsTermination(subject) -> TerminationEvidence(subject)
      [] OTHER -> ChangeEvidence(subject)

-----------------------------------------------------------------------------
(* Tool calls *)

StartTurn ==
    /\ BeginTurn
    /\ cutoff' = Len(ledger)
    /\ UNCHANGED <<request, ledger, fresh, proposals, cites, routed>>

\* Invalid arguments, an unknown tool and search_knowledge leave no record.
CallWithoutRecord == CallMade /\ Quiet

\* An observation, which the policy may refuse or the database fail.
Observe(tool) ==
    /\ \/ /\ IsDuplicate(tool, {})
          /\ AddRecord(tool, {}, "blocked_duplicate")
       \/ /\ ~IsDuplicate(tool, {})
          /\ \/ \E shows \in SUBSET MayShow(tool) : AddRecord(tool, shows, "success")
             \/ AddRecord(tool, {}, "error")
    /\ UNCHANGED proposals

\* A proposal that is no duplicate and that the ledger authorizes is built and its
\* shape validated, which may raise. One that was rejected may be made again.
Propose(subject) ==
    LET refs == ProposalEvidence(subject)
        answer(status) == AddRecord("propose", {subject}, status) IN
    IF IsDuplicate("propose", {subject})
    THEN answer("blocked_duplicate") /\ UNCHANGED proposals
    ELSE IF refs = {}
    THEN answer("policy_rejected") /\ UNCHANGED proposals
    ELSE \/ /\ answer("success")
            /\ proposals' = Append(proposals, [subject |-> subject, refs |-> refs,
                                               at |-> Len(ledger) + 1])
         \/ answer("error") /\ UNCHANGED proposals

-----------------------------------------------------------------------------
(* The answer *)

\* Mutant: the evidence of the proposals need not be cited.
CitationsOfSuccess(cited) ==
    /\ Successful # {} => cited # {}
    /\ cited \subseteq Successful

\* validate_answer_evidence finds no error.
CitationsHold(cited) ==
    /\ Successful # {} => cited # {}
    /\ cited \subseteq Successful
    /\ \A i \in DOMAIN proposals : proposals[i].refs \subseteq cited

\* 0 is a reference that no record has. What the knowledge base requires of an
\* answer may refuse it too.
Answer ==
    /\ \/ (AnswerEnds \/ AnswerRefused) /\ UNCHANGED cites
       \/ \E cited \in SUBSET (0..Len(ledger)) :
            /\ CitationsHold(cited)
            /\ cites' = cited
            /\ AnswerAccepted
    /\ UNCHANGED <<request, toolVars, routed>>

-----------------------------------------------------------------------------
(* run_incident *)

Proposed == {proposals[i].subject : i \in DOMAIN proposals}

\* A run that did not complete leads nowhere; /resolve-locks to an incident or
\* nowhere; and several proposals to an incident or nowhere.
RoutedTo ==
    IF run.status # "completed" \/ proposals = <<>> THEN "nobody"
    ELSE IF Proposed \subseteq Pairs /\ (request = "locks" \/ Len(proposals) > 1)
    THEN "incident"
    ELSE IF request # "locks" /\ Len(proposals) = 1 THEN "executor" ELSE "nobody"

\* The ledger and the answer go with the run.
Route ==
    /\ run.at = "finish"
    /\ Goto(IF RoutedTo = "incident" THEN "finished" ELSE "over")
    /\ routed' = [routed EXCEPT !.to = RoutedTo]
    /\ ledger' = <<>>
    /\ cites' = {}
    /\ UNCHANGED <<request, cutoff, fresh, proposals>>

SnapshotOf(rows, safe) ==
    [rows |-> {[waiter |-> r.waiter, blocker |-> r.blocker, safe |-> r \in safe] :
                    r \in rows},
     truncated |-> FALSE]

TruncatedSnapshot == [rows |-> {}, truncated |-> TRUE]

Snapshots ==
    {SnapshotOf(rows, safe) : rows, safe \in SUBSET LockRows} \cup {TruncatedSnapshot}

\* create_lock_incident, on a snapshot of its own.
PlanIncident ==
    /\ run.at = "finished"
    /\ Goto("over")
    /\ \E snapshot \in Snapshots :
        routed' = [routed EXCEPT
            !.snapshot = snapshot,
            !.plan = BuildTerminationPlan(snapshot, Proposed, request = "locks")]
    /\ UNCHANGED <<request, toolVars, cites>>

\* The time to live of the newest snapshot passes.
EvidenceAges ==
    /\ fresh
    /\ fresh' = FALSE
    /\ UNCHANGED <<run, request, ledger, cutoff, proposals, cites, routed>>

StartRun == run.at = "start" /\ Goto("verify") /\ Quiet

GraphStep ==
    /\ \/ Verify(FALSE) \/ Verify(TRUE)
       \/ StopAtModel \/ AskModel \/ ModelFails \/ ModelResponds
       \/ EndInTools \/ EndTurn
       \/ Interrupted
    /\ Quiet

Next ==
    \/ StartRun
    \/ GraphStep
    \/ StartTurn
    \/ CallWithoutRecord
    \/ \E tool \in Observations : Observe(tool)
    \/ \E subject \in Subjects : Propose(subject)
    \/ Answer
    \/ Route
    \/ PlanIncident
    \/ EvidenceAges

Spec == Init /\ [][Next]_vars

-----------------------------------------------------------------------------
(* Safety *)

\* Whatever the model asked for, in whatever order, and whatever failed: a
\* proposal rests on records older than itself that succeeded and show its
\* subject, and a termination on the newest snapshot there was, failed ones and
\* those of its own turn included.
ProposalsRestOnEvidence ==
    run.at \notin {"finished", "over", "interrupted"} =>
        \A i \in DOMAIN proposals :
            LET p == proposals[i] IN
            /\ p.refs # {}
            /\ \A ref \in p.refs :
                /\ ref < p.at
                /\ ledger[ref].status = "success"
                /\ p.subject \in ledger[ref].shows
                /\ IsTermination(p.subject) =>
                    \A j \in (ref + 1)..p.at : ledger[j].tool # "get_lock_waits"

\* What is routed comes from a completed run that was asked for proposals, whose
\* answer cites the successful evidence of all of them; the ordinary executor gets
\* one and nothing of /resolve-locks, an incident terminations only.
RoutedActionsAreCited ==
    [][ routed.to = "nobody" /\ routed'.to # "nobody" =>
        /\ run.status = "completed"
        /\ request # "diagnose"
        /\ cites \subseteq Successful
        /\ \A i \in DOMAIN proposals : proposals[i].refs \subseteq cites
        /\ routed'.to = "executor" => Len(proposals) = 1 /\ request = "propose"
        /\ routed'.to = "incident" => Proposed \subseteq Pairs ]_vars

\* A plan terminates whom it may and no others: all that was proposed, for
\* /resolve-locks every actionable blocker and else nothing more, each one a
\* blocker that the policy allows now and the only one of its PID; in an order of
\* their own, in which one that waits for another of them does not come before a
\* backend that waits for nobody; and each on behalf of its own waiters.
PlanIsExact ==
    LET plan == routed.plan
        safe == {r \in routed.snapshot.rows : r.safe /\ r.waiter.pid # r.blocker.pid}
        targets == {a.target : a \in plan}
        asked == {p.blocker : p \in Proposed}
        waiting == {r.waiter.pid : r \in safe} IN
    plan # {} =>
        /\ Cardinality(plan) <= MaxActions
        /\ asked \subseteq targets
        /\ targets = IF request = "locks" THEN {r.blocker : r \in safe} ELSE asked
        /\ \A t \in targets : \A r \in safe : r.blocker.pid = t.pid => r.blocker = t
        /\ {a.ordinal : a \in plan} = 1..Cardinality(targets)
        /\ \A a, b \in plan :
            a.target.pid \in waiting /\ b.target.pid \notin waiting =>
                b.ordinal < a.ordinal
        /\ \A a \in plan :
            /\ a.waiters = {r.waiter : r \in {q \in safe : q.blocker = a.target}}
            /\ a.pid \in {w.pid : w \in a.waiters}

=============================================================================
