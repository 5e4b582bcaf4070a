# Verification of SafeDBA

SafeDBA (`src/src/`) is an assistant for PostgreSQL operators. A model proposes
changes; deterministic code validates them, asks an operator, executes them and
verifies the outcome. The one action that cannot be undone is ending another
session (`TERMINATE_BACKEND`), and the one part of the program that is durable,
resumable and concurrent is the *incident workflow* that executes an approved
batch of such actions. That is the core of this project. Around it are modelled
what leads to such a batch (the agent's graph, the evidence of its proposals, the
planner), the other executors with their audit log and live policy, and what
the program remembers (the provider's circuits, agent memory, the experience
store).

## 1. Inventory

| part | sources (`src/src/`) | state it keeps | operations | status |
|---|---|---|---|---|
| incident store | `workflow_store.py` | SQLite: `incidents` (state, version, lease), `actions`, `approvals`, `events` | create, load, save (compare-and-swap on version, lease checked), claim, acquire / renew / release lease | modelled |
| incident workflow | `incident_workflow.py` | nothing but its locals: a copy of the incident | plan, create, one *pass* of `run_lock_incident`: ask, lease, reconcile, execute the batch, verify, release | passes and planner modelled |
| approval scope | `incident_approval.py` | none | canonical scope, its digest, validation against a proposal | in the claim's guards |
| termination executor | `executor.py` 855-1605, `actions.py` 419-599, `db_tools.py` 550-832, `db_sessions.py` | none | audit intent, policy, validation on fresh evidence, claim, one SQL statement that revalidates and signals, verification | partly: of an incident, not what the command line asks for itself (1051-1178) |
| isolated execution | `execution_client.py`, `execution_protocol.py`, `execution_grants.py`, `executor_worker.py` | second SQLite file: `grants` | approve (preview, issue), HTTP request, gate, consume grant, execute, record result | modelled |
| runtime policy, risk | `runtime_policy.py`, `safety.py`, `config.py` | a controls file read at each question | `require_operation`, `require_tool`, risk levels | modelled |
| other executors | `executor.py` 59-852, 1429-2065, `db_tools.py` 833-1127 | none | create index (benchmark, rollback), analyze, rewrite | modelled |
| audit chain | `audit.py` | append-only hash chain, lock file | verify and append | modelled |
| model provider | `llm_provider.py` | two circuits in memory, each under a lock | allow, success, failure, failover | modelled |
| agent memory | `agent_memory.py`, `agent_context.py` | SQLite: runs with versions, memories | start, checkpoint, complete, remember, forget | modelled |
| experience store | `experience_store.py`, `learning_cli.py` | SQLite: runs, feedback, datasets, promotions; dataset files | record, review, export, assess | modelled |
| agent graph | `agent_graph.py`, `agent_runtime.py`, `agent_tool_execution.py`, `agent_policy.py` | one run's budgets and ledger of evidence | model, tool and answer steps | modelled, but for the classification of text |
| tools and bridges | `tools.py`, `mcp*`, `tool_*` | none of their own | dispatch of a call | the dispatch |
| command line, support | `main.py` and others | the last result | routing of a request, feedback, Ctrl-C | the routing |
| knowledge, diagnostics, evaluation | see `PROJECT.json` | none that outlives a call | text and read-only queries | not modelled |

How the modelled parts interact:

- A pass calls the store in separate transactions and reads the row back in
  another one after each (`acquire_lease`, `renew_lease` and `save_incident`
  commit, then `load_incident`). Several processes may run passes over one
  incident; only the lease and the version keep them apart.
- The pass calls the executor and waits for it. The executor talks to the *same*
  store by itself (`claim_action_execution`), which moves the action to
  `APPLYING` behind the pass's back; the pass re-reads the row afterwards.
- Executor and pass both read PostgreSQL, whose sessions change at any time.
- In the isolated profile the executor is another process behind HTTP, and an
  operator adds grants in a database of their own. The client never retries; a
  request that is given up goes on being served.

What is hard: a pass that lost its lease and its executor that has not stopped; a
crash between intent, claim, signal and result; what is read before a
transaction and used after it; approvals, deadlines and leases that expire
between a check and its use; PIDs that are reused; snapshots cut short; answers
lost after the signal; two databases with no common transaction. Outside the
workflow: a mutation that is made and then cannot be verified, undone or
recorded; a line of the log cut short; a controls file that is replaced between two
questions of one action; a circuit shared by threads, some of which were
admitted before it opened; a run whose transactions succeed while it is told
that they failed; files and rows that have no common transaction. `PROJECT.json`
lists each with its line and the properties that would catch it ("hazards").

What makes each part correct: the *store* never lets a stale copy or a former
owner overwrite, and lets an action be claimed once; the *workflow* executes in
order, one action at a time, stops at the first failure, and leaves a state an
operator can trust; the *executor* signals only what was approved, under the
claim; the *isolated executor* signals nothing without a grant that is then gone; the
*other executors* make no change without an intent and an approval, and say truly
what they left behind; the *log* stays one chain; the *policy* only denies; a *proposal*
rests on evidence and is executed only if the answer cites it; the *plan* is what was
proposed and allowed, and nothing else; a *run* ends and its memory agrees with
it; a *dataset* is what its approvals say.

How the parts added around the core interact: a run of the agent (`run_agent`) asks the
provider, makes tool calls, and leaves memories and a summary; `run_incident`
hands what it proposed either to the ordinary executor (`execute_action_proposal`) or
to a new incident, for which the planner reads a new snapshot; the executors ask the
policy at every boundary and write an intent and an outcome to the log; the operator's
`/feedback` goes to the experience store, from which datasets are exported.

## 2. Modules

| module | models | state |
|---|---|---|
| `IncidentStore` | `workflow_store.py`, one operator per transaction | `row`, `leaseOwner`, `leaseLive`, `fresh`, `approvals`, `deadlinePassed` |
| `LockGraph` | PostgreSQL's sessions and what a reading of `get_lock_graph_snapshot` says of them | `blocker` |
| `TerminateExecutor` | `execute_action_proposal` down to `terminate_blocking_backend` | `exec`, histories `claims`, `signals` |
| `IncidentWorkflow` | `_run_lock_incident_once`, composed with the three above (the combined profile) | `pc`, `next`, `view`, `index`, `decision` |
| `IsolatedExecution` | the same passes with client, worker, grants | `grant`, `grantLive`, `review`, `serving` |
| `TerminationPromise` | the abstract specification: what an operator is promised | `phase`, `outcome`, `authority`, `signalled` |
| `RuntimePolicy` | `runtime_policy.py`: what settings and controls file block | none, operators |
| `AuditChain` | `audit.py`: writers, the lock, a line in parts, the reader | `log`, `torn`, `locked`, `writer`, `reader` |
| `Maintenance` | `execute_action_proposal` for indexes, statistics and rewrites, down to the statements | `controls`, `index`, `analyzed`, `op` |
| `AgentGraph` | `agent_graph.py` and the nodes' control: iterations, tool budgets | `run` |
| `ProviderCircuit` | `llm_provider.py`: concurrent calls over two circuits | `circuit`, `call`, history `abandoned` |
| `AgentMemory` | `agent_memory.py`, one operator per transaction | `row`, `held`, `memories`, histories `leftover`, `erased` |
| `RunLife` | `run_agent` and `agent_context.py`: one run over the three above | `persisted` |
| `TerminationPlan` | `build_termination_plan` and its helpers | none, operators |
| `EvidenceRouting` | tool calls, `EvidenceLedger`, citations, and the routing of `run_incident` | `request`, `ledger`, `cutoff`, `fresh`, `proposals`, `cites`, `routed` |
| `ExperienceStore` | `experience_store.py` with its exporters | `runs`, `feedback`, `file`, `registered`, `audit`, `export`, ... |
| `IncidentWorkflowProofs` | theorems: types, authority, approval, currency of the workflow | |
| `IncidentOrderProofs` | theorems: its order and successes, `TerminationPromise`, what it leaves behind | |
| `IsolatedProofs` | theorems of the isolated profile | |
| `RunLifeProofs` | theorems of the run, the circuits, the graph and the memory | |
| `MaintenanceProofs` | theorems of the other executors and the log | |
| `RoutingProofs` | theorems of evidence, citations and the plan | |
| `ExperienceProofs` | theorems of the experience store | |
| `FiniteOrders` | lemmas on orders of finite sets, which the last two use | |
| `MC...` | instances for TLC (symmetry, and constants that are sets of records) | |

`IncidentStore` <- `TerminateExecutor` (with `LockGraph`) <- `IncidentWorkflow`
<- `IsolatedExecution`, each EXTENDing the one before it. `AuditChain`,
`RuntimePolicy` <- `Maintenance`. `AgentGraph`, `ProviderCircuit`, `AgentMemory` <-
`RunLife`. `AgentGraph`, `TerminationPlan` <- `EvidenceRouting`. `AgentGraph` is
composed twice because what a run's tools find has nothing to do with how it
is remembered: `RunLife` leaves the ledger out, `EvidenceRouting` the provider and the
memory, and each lets the graph do everything it does. The plan that `EvidenceRouting`
ends in is the constant plan of `IncidentWorkflow`.

A pass is a sequential program; `pc[p]` is where it is, and the actions of
`IncidentWorkflow` are the code between two transactions, observations or
readings of the clock. `view[p]` is its local variable `incident`. Editing the
copy and saving it are two steps ("checkpoint"), and so are committing and
reading back ("load"), because other passes run in between in the code too. The
labels follow the code: `start`, `prompt`, `acquire`, `admit`, `enter` (lines
1006-1116), `reconcile` (1117-1145), then per action `step`, `renew1`, `observe`,
`gate1`, `renew2`, `gate2`, `execute`, `executing`, `interpret`, `recorded`,
`verify` (1147-1685), and `final`, `release` (1687-1775). Nothing a pass does is
optional in the model: a save is part of the branch that ends in it.

### Abstractions

- *Version.* Every transaction increments it and `save_incident` compares it with
  the copy's. Only whether the copy's is current matters: `fresh` is the set of
  passes whose copy is. No bound is needed and none is lost.
- *Clock.* Times are only compared with now, and each fact compared (lease over,
  approval over, deadline over) changes once. The model keeps the facts; they
  change at any moment, in any order.
- *Identifiers.* `worker_id` is drawn per pass, so it is the pass; an
  approval is built once per pass, so its id is that pass too.
- *Plan.* Actions, targets, approved waiters and plan revision never change after
  creation. What changes is the representative waiter of a proposal, re-chosen
  at each observation; it shows only in the isolated profile, where the scope of
  a grant includes it, and there the grant may be denied for it (`ClaimGrant`).
  The batch's order is the action's ordinal. Digests compare equal.
- *Lock graph.* For each target, its transaction is there, gone, or its PID is
  another's. Who waits for it, and whether it idles, is not persistent in
  PostgreSQL and is chosen at each reading (`Sights`). Every combination over time of
  a state that changes freely is then covered, in fewer states.
- *Results.* The workflow tells apart a refusal (`BLOCKED_INCIDENT_APPROVAL`,
  `BLOCKED_RUNTIME_POLICY`), an audited confirmation, and everything else.
- *Policy and audit.* Wherever asked, either answer.
- *Crashes.* A pass crashes at any point: its locals go, rows and lease stay. The
  executor runs in its process and dies with it, except that a statement already
  sent runs to its end in PostgreSQL. An interrupt or an error unwinds through
  the `finally` that releases the lease.

`claims` and `signals` record what the executors did and guard nothing.

Outside the workflow:

- *Audit log.* A digest is the record it was taken of, since no two records of a log are
  equal; a line that is partly written is `torn`. A text reaches the file in parts, so a
  crash or a full disk comes before, within and after a line. The lock is the
  kernel's and goes with its process; an attempt ends after five seconds. Nobody
  rewrites the file by hand: then the reader reports it, and there is no more to say.
- *Executors.* `op[o].at` is the place between two observable steps of
  `execute_action_proposal`. Every reading of the policy is a step's guard, read when the
  code reads it. What a plan, a benchmark or a comparison shows is a choice of the
  outcomes the code distinguishes. There is one index name, and `index` is who
  created what has it; another session may create and drop it at any moment.
- *Circuits.* Failures are counted up to the threshold, the only number they are compared
  with. The clock is whether the cooldown is over. A call is admitted in one step and
  recorded in another; an interrupt comes in between.
- *Memory.* Each method is one transaction, which does not commit, commits, or commits
  with the caller told otherwise. The text of memories is left out; their kinds
  are not. Erasures, expiry and eviction by other sessions take memories at any moment.
- *Evidence.* A proposal is its subject and the references of its evidence. What an observation
  shows is a subset of the subjects it may show; the model may ask for anything in
  any order, answer with any citations, and repeat calls.
- *Plan.* A backend is a PID and the start of its transaction; a waiting row is who waits for
  whom, and whether the row passes the rest of the policy.
- *Exports.* Four files per version, each absent, partial or whole; steps are the writes, the
  two renames, the transaction, and the removals of a cleanup. Files are known by
  their names, as in the code, which is why two exporters of one version are told
  apart (`contested`).

## 3. Runs

In the incident runs the bounds are those of the constants: `N` actions, `Passes`, and
`Faults`, the disturbances that occur (`crash`, `interrupt`, `lease`, `expiry`,
`truncation`); no counter of the code is left in the model. In the others they
are the processes and the subjects, the budgets the code itself has, and in
`learning` `MaxFeedback`, `MaxExports` and `MaxAssessments`. Deadlock is
not an error here, since all passes may have ended; that they end rather than
hang is `PassReturns`.

| run | constants | checks | distinct states |
|---|---|---|---|
| `two_passes` | N=1, two passes, all faults | `TypeOK`, `SingleTermination`, `OpenMeansUntouched`, `SignalsWithinApproval`, `SucceededMeansTerminated`, `OwnerIsCurrent`, `CheckpointsAreLegal`, `TerminalIsFinal` | 2.0 million |
| `two_actions` | N=2, two passes, `lease` | `OneInFlight`, `SerialBatch`, `CompletedMeansFinished`, refinement `KeepsPromise` | 2.7 million |
| `settles` | N=2, two passes, `expiry`, `truncation` | `QuietMeansSettled` | 218 thousand |
| `returns` | N=1, two passes, `lease`, fairness | `PassReturns` | 363 thousand |
| `isolated` | N=1, two passes, `crash`, `lease` | `IsolatedTypeOK`, `SingleTermination`, `OpenMeansUntouched`, `ClaimsAreGranted`, `OutcomesAgree`, `GrantsAreSingleUse` | 4.1 million |
| `maintenance` | two processes, a legacy record, all disturbances | `MaintenanceTypeOK`, `LogIsOneChain`, `OnlyDamageIsReported`, `LogOnlyGrows`, `MutationsAreAccounted`, `OutcomesTellTheTruth`, `OutcomesAreRecorded`, `AdmittedActionsCanFinish`, `StopsTakeHold` | 2.6 million |
| `evidence_routing` | two pairs, one kind of change, six possible waits, budgets 3 / 3 / 2 | `ProposalsRestOnEvidence`, `RoutedActionsAreCited`, `PlanIsExact` | 918 thousand |
| `run_life` | the run and another thread, both routes, threshold 2, budgets 3 / 3 / 2, fairness | `RunLifeTypeOK`, `CircuitCountsFailures`, `ProbeIsOwned`, `MemoryAgrees`, `RunEnds` | 299 thousand |
| `learning` | two exporters, one run, one version, two feedbacks, two exports, one assessment | `WithdrawnIsNotExported`, `RegisteredIsPublished`, `PromotionsAreEarned` | 2.7 million |
| `rejected` | N=1, two passes, `lease` | `RejectedBatchExecutesNothing`, violated | |
| `isolated_policy` | N=1, two passes, none | `BlockedStepAsksAgain`, violated | |
| `isolated_unanswered` | N=1, two passes, none | `UnansweredStaysInDoubt`, violated | |

Why these bounds are enough to be worth something: two passes are what it takes
for one to take over from another, to be asked at the same time and to
meet the other's leftovers; a crashed pass is one of the two, and the other is the
restart. Two actions are what it takes for an order, for a second action behind a
failed one and for two in flight. A third pass repeats what a second does, since
a pass ends with no state of its own but the row. For the properties of section 5
the bounds do not matter at all.

In `maintenance` two processes meet at the lock, at the index and at the policy, and
every pair of the three kinds of action is an initial state; the controls are
absent, unreadable, or a stop of the benchmarks, and change at any moment; the other
denials, those of single actions among them, are left to the theorems, which hold for
every contents of the file. In `evidence_routing` two pairs and a change are what it takes for a batch, for two blockers
and for proposals of different kinds; the waits contain two identities of one
PID, a chain of blockers and one target more than the limit; three calls fit an
observation, a snapshot that supersedes it, and a proposal. In `run_life` one other
thread is enough to fail late, to succeed in between and to take the probe; three
iterations and three calls reach every limit. In `learning` one version with two
exporters has every interleaving of their steps, and two feedbacks are what it takes to
approve and withdraw in either order of time.

Passes, writers and exporters are interchangeable in every action and property, so
the runs use their symmetry, except the liveness runs, where it is not sound.

What the properties say:

- `SingleTermination`: a target is signalled once, whatever overlaps. It rests on
  the claim alone: nothing stops an executor whose pass lost the lease.
- `OpenMeansUntouched`: the workflow tells the operator that a step is open
  again, or was skipped; then no signal was ever sent for it, also not late.
- `SignalsWithinApproval`: the waiter was approved, and the approval was given by
  an operator, whichever pass executes it.
- `SucceededMeansTerminated`: success is not claimed of a target that is there.
- `OwnerIsCurrent`: the lease's owner decides on the stored incident, also after its
  lease has lapsed. This is what makes saving a whole copy safe.
- `CheckpointsAreLegal`: the transition tables never refuse what the workflow
  asks for, in any branch.
- `TerminalIsFinal`: a finished incident is never changed again.
- `OneInFlight`: the branch `MULTIPLE_INFLIGHT_ACTIONS` cannot be reached.
- `SerialBatch`, `CompletedMeansFinished`: order, and stop at the first failure.
- `KeepsPromise`: all of it together implements `TerminationPromise`. The abstract
  specification allows a signal after the incident has ended, because the code
  does: a claim is authority that nothing recalls.
- `QuietMeansSettled`: undisturbed, no expiry leaves work in flight.
- `ClaimsAreGranted`, `OutcomesAgree`, `GrantsAreSingleUse`: the two databases of
  the isolated profile agree in the direction that matters, at every crash point.
- `LogIsOneChain`, `OnlyDamageIsReported`, `LogOnlyGrows`: the log is one chain
  whatever dies in the middle of a line; readers report damage only; damage is
  kept, and nothing is appended to it.
- `MutationsAreAccounted`: an index or a refresh is there only for an action with its
  intent in the log and the operator's approval.
- `OutcomesTellTheTruth`: what a process returned agrees with the database. It is
  silent on `FAILED` and `ROLLBACK_FAILED`, which ask for a review.
- `OutcomesAreRecorded`: a success is returned only with its record, and the log
  has one outcome of an action.
- `AdmittedActionsCanFinish`: what a denial of one operation means for the others,
  while the file stays as it is.
- `StopsTakeHold`: what it means when it does not. The file may be replaced, or found half
  written, between any two questions of an action; one that has changed
  nothing then goes on to its end without changing or claiming anything, whatever was
  admitted before, and where the drop is denied no index is dropped or said to be
  rolled back. A question and the statement that follows it are one step, because a
  stop that comes between them does what one that comes after them does.
- `ProposalsRestOnEvidence`: newest, successful, of an earlier turn, of that subject.
- `RoutedActionsAreCited`: what reaches an executor or an incident comes from a completed
  run whose answer cites it.
- `PlanIsExact`: whom a plan terminates, in which order, for which waiters; the
  property is stated on the snapshot, not with the planner's operators.
- `CircuitCountsFailures`, `ProbeIsOwned`: an open circuit has counted its failures, and one
  that waits for its probe has a call that is the probe, or one that was
  interrupted. The second half is the code's behaviour, see section 4.
- `MemoryAgrees`, `RunEnds`: below, and at their definitions.
- `WithdrawnIsNotExported`, `RegisteredIsPublished`, `PromotionsAreEarned`: a dataset holds
  what was approved when its export began; its files are there; a promotion
  passed every gate.

### Fairness

`Fairness` is weak fairness of each pass and each executor: a thread of a running
process that can go on does so. SQL statements have timeouts, so a step of an
executor ends. Not fair: the operator's answer (`Prompt`), the clock, the
sessions, and faults. `PassReturns` therefore starts where a pass has its answer.

`RunLife` has weak fairness of `RunStep`: the run's own thread goes on, and a call of a
route ends because its client has a timeout and a number of retries. Other
threads, the cooldown, other sessions and Ctrl-C are not fair. `RunEnds` needs nothing
of them: a circuit that refuses is a failure at once, never a wait.

### Mutants

Each property has an operator in the modules, marked "Mutant", that stands for a
plausible mistake in the code it precedes; with it in place of the definition, the
property fails. They are used by no specification.

## 4. Findings

1. `rejected`. Two passes may prompt at the same time. If one is answered
   *approve* and runs, and the other *reject*, the reject is dropped: when the second
   acquires the lease the incident is `RUNNING`, so the decision is not looked at
   (`incident_workflow.py` 1057), and that pass executes the batch. The
   termination is approved, by the other operator; `SignalsWithinApproval` holds.
2. `isolated_policy`. In the agent role the runtime policy raises in
   `execute_remote`, after the intent was saved; the step becomes `IN_DOUBT`.
   `docs/OPERATIONS.md` 234-235 promises a return to fresh approval, which is what
   the combined profile does.
3. `isolated_unanswered`. A client that gives up loads the incident and then saves
   `IN_DOUBT`; if the worker's claim commits in between, the save fails on the
   version and the action stays `APPLYING` in a `RUNNING` incident. The next pass
   reconciles it as `RECONCILED_RESOLVED` when the lock is not seen, although the
   worker may still be about to signal. `docs/ISOLATED_EXECUTOR.md` 128-130
   says the workflow retains `IN_DOUBT` / `REVIEW_REQUIRED` and that the step must
   not be marked successful just because the lock is gone.

Noted while modelling. No document of the repository says otherwise, so these are
not findings; the models contain each one, and the properties are stated so that
they hold with it:

- A call that is interrupted while it is its circuit's probe leaves the circuit
  half open without a probe to end it: from then on it refuses every call of the
  process (`llm_provider.py`; the second half of `ProbeIsOwned`, by the history
  `abandoned`). The failure of a call that was admitted before the circuit opened
  clears the probe's flag, so that there can be two probes.
- The rollback of an index compares the identity of the index in one statement and
  drops it by name in another (`db_tools.py` 941-983).
- If the acknowledgement of `CREATE INDEX` is lost, the action is recorded as
  `FAILED` although the index is there; Ctrl-C during the second benchmark leaves
  the index with an intent and without an outcome. `OutcomesTellTheTruth` and
  `MutationsAreAccounted` are stated accordingly.
- When the serialisation of a tool's output fails, the successful record of the call
  is followed by one of an error.
- `/feedback` after an operation that was interrupted or raised refers to the last
  run that returned (`main.py` 733-748).
- A `/forget` between the reading and the writing of a run's memories does not
  remove the episode that is written after it.
- Two exporters of one version use the same names for temporary and final files. The
  loser's transaction fails, and its cleanup removes files that the winner has
  registered. `RegisteredIsPublished` therefore speaks of versions that were not
  `contested`. A crash between the renames and the transaction leaves files that block
  the version.

## 5. Proofs

Theorems hold for every value of the constants that meets the assumptions of their
modules, which TLC evaluates in every run. Each strengthening was checked by TLC on
the instance of its run before it was proved.

### The incident workflow

For every number of actions, every set of passes, and every set of faults
(`NAssumption`, `PassAssumption`, `FaultsAssumption`):

| theorem | states |
|---|---|
| `TypeCorrect` | `Spec => [](TypeOK /\ LoopIndexOK)` |
| `AuthorityHolds` | `Spec => []AuthorityInv` |
| `TerminatesOnce` | `Spec => []SingleTermination` |
| `OpenIsUntouched` | `Spec => []OpenMeansUntouched` |
| `SignalsAreApproved` | `Spec => []SignalsWithinApproval` |
| `OwnerDecidesOnTheRow` | `Spec => []OwnerIsCurrent` |
| `OneActionInFlight` | `Spec => []OneInFlight` |
| `BatchIsSerial` | `Spec => []SerialBatch` |
| `CompletedIsFinished` | `Spec => []CompletedMeansFinished` |
| `LegalCheckpoints` | `Spec => []CheckpointsAreLegal` |
| `FinishedIsFinal` | `Spec => TerminalIsFinal` |
| `SuccessIsTermination` | `Spec => []SucceededMeansTerminated` |
| `WorkflowKeepsPromise` | `Spec => KeepsPromise` (refinement) |
| `QuietIsSettled` | `Undisturbed => (Spec => []QuietMeansSettled)` |

The first six are in `IncidentWorkflowProofs`, the others in `IncidentOrderProofs`,
which extends it. `Undisturbed` says that `Faults` has no `crash`, `interrupt` or
`lease`; approvals and deadlines may expire, and snapshots be cut short.

The argument:

- *Types.* `TypeOK` alone is not inductive: between `step` and the end of an action
  the code uses `index[p]` as an action, so it must not be 0 there. `LoopIndexOK`
  adds that.
- *Authority.* `SingleTermination` is not inductive: a signal must come from a
  claim, and a claim must be impossible twice. `AuthorityInv` says that claimed
  actions are in `DescendedStates`, which no transition of `ACTION_TRANSITIONS`
  leaves and in which no claim is allowed; that an action has one claimant; that
  signals come from it; and that an executor between claim and signal
  has not signalled yet. The lemma about saving uses only the transition
  table, not the lease: this is why the property survives every lost lease.
  `OpenMeansUntouched` follows, since the open states are not descended ones.
- *Approval.* `ApprovalInv` follows an approval's identity from the operator's
  answer through the copies of the passes, the row and the executors, and adds
  that an executor past its claim has an approved waiter.
- *Currency.* `OwnerIsCurrent` needs that whoever changes the row is the owner itself
  (`CanSave`, `CanClaim`) or makes itself the owner, and that the one change a pass
  does not make itself, the claim, happens while it waits in `executing`
  (`CurrentInv`).
- *Order.* `SerialBatch` and the rest are about the row, but why they hold is what the
  owner of the lease still has to save. `OrderInv` says that the row is `Orderly`,
  and that a current owner is `Placed`: its place in its code fits the stored incident
  (behind `renew1`, say, its index is the first action that is not finished), and a copy it is about to
  save is one of a few edits of that incident (`Edit`). `RowChanges` shows that only
  such a checkpoint and a claim change the row. An owner
  that lost the lease may be at any place, since it cannot save.
  `LegalCheckpoints` then needs only that every `Edit` is in the transition tables.
- *Success.* `SuccessInv` follows a target from the signal through the result of the
  executor and the copy of the pass to the row. It rests on `Terminated` being stable:
  a transaction that is gone does not come back, even under a reused PID.
- *Promise.* Under the mapping, every edit, claim and signal is a step of
  `TerminationPromise` with the phases and outcomes of the incident as the operator
  sees them; everything else leaves them alone. `OrderInv` supplies
  that an edit is one, `AuthorityInv` that a signal is the first.
- *Nothing left behind.* `QuietMeansSettled` is about states in which no pass is under
  way, and is therefore far from inductive. `SettledInv` says who is responsible before that: a
  pass is at work only as the owner of a live lease, so there is one at most; while there is none
  the incident is `Settled`; and at each place of its code the pass has `InHand` what
  it owes, namely that the copy it is about to save, or the row, has nothing in flight
  where it chooses what to do next, and is settled where it takes and gives back
  the lease. In between, `OrderInv` already says that only its own action can be
  in flight (`OnlyItsOwnInFlight`), and that the tables accept the edit that ends it.

### The isolated profile

For the same constants, in `IsolatedProofs`:

| theorem | states |
|---|---|
| `IsolatedTypeHolds` | `IsolatedSpec => []IsolatedTypeOK` |
| `IsolatedTerminatesOnce` | `IsolatedSpec => [](SingleTermination /\ OpenMeansUntouched)` |
| `GrantsAreUsedOnce` | `IsolatedSpec => GrantsAreSingleUse` |
| `ClaimsHaveGrants` | `IsolatedSpec => []ClaimsAreGranted` |
| `OutcomesAreRecordedFirst` | `IsolatedSpec => []OutcomesAgree` |
| `IsolatedSignalsAreApproved` | `IsolatedSpec => []SignalsWithinApproval` |
| `IsolatedBatchIsSerial` | `IsolatedSpec => [](SerialBatch /\ OneInFlight /\ CompletedMeansFinished /\ CheckpointsAreLegal)` |
| `IsolatedOwnerIsCurrent` | `IsolatedSpec => []OwnerIsCurrent` |
| `IsolatedFinishedIsFinal` | `IsolatedSpec => TerminalIsFinal` |
| `IsolatedKeepsPromise` | `IsolatedSpec => KeepsPromise` (refinement) |

The last five carry properties of the combined profile over; the runs check them there.

- *Authority.* `AuthorityInv` is the same formula as in the combined profile and rests
  on the transition table only, so that it does not matter that a worker goes on when
  its client has given up. The lemmas about single actions are used as they are.
- *Grants.* `GrantInv`: an action that is claimed, and one whose worker is past the
  grant, has a grant that is consumed or in a later state. Only the operator and the worker move
  grants, and neither moves one back (`GrantsStep`), an approval on an old reading included.
- *Outcomes.* `OutcomesAgree` speaks of three places that are written at different
  times by different processes: the row, the grant, and the copy of a pass. `SessionInv` adds what
  connects them. A request and the execution it started are of the same action, and one that was
  answered has its result recorded if it was claimed. While the owner of the lease carries
  out its intent, nobody else claims its action. A fresh copy at a deciding label is the row, and
  a fresh copy that was edited brings only results that are recorded. A pass whose
  copy is not fresh may hold anything: it cannot save.
- *Approval.* `ApprovalInv` again. The worker replaces the approval of an execution by
  the one in the row (`CheckIntent`), which is vouched for like the copies.
- *Order.* `CurrentInv` fails here: a client gives up and its worker claims afterwards,
  so that the row changes behind the back of its owner. `SessionInv` says where that
  pass can be by then: it still waits, or it is about to raise or to leave. `Stands`
  therefore weakens `Placed` at one point, a pass about to save a copy that is not
  fresh any more (`Superseded`), which cannot save it, and adds what the
  exception branch relies on. `OwnerPlaced` is the lemma of the combined profile.
- *Promise.* The lemmas about edits, claims and signals are those of the combined profile;
  what is new is that nothing else of client, worker and grants changes the
  incident or its history (`IsolatedRowChanges`, `IsolatedOtherwiseKept`).

### The run

For every set of threads, every threshold and budget (`CallersAssumption`,
`AgentAssumption`, `BudgetsAssumption`), in `RunLifeProofs`:

| theorem | states |
|---|---|
| `RunLifeTypeCorrect` | `Spec => []RunLifeTypeOK` |
| `CircuitsCountFailures` | `Spec => []CircuitCountsFailures` |
| `ProbesAreOwned` | `Spec => []ProbeIsOwned` |
| `MemoryAlwaysAgrees` | `Spec => []MemoryAgrees` |

The invariant is a conjunction of one part per component, each preserved by its own
component's actions and untouched by the others. `CircuitsInv` adds to the two
properties that a probe is a call on a route that exists. `GraphInv`
bounds the run's counters where the next step relies on them. `MemoryInv` relates the row,
what the run holds of it and where the run is: who holds a version holds the newest one,
and an episode is written only of a run whose row is complete.

### The other executors and the log

For every number of processes, with and without legacy records, and every set of
disturbances (`SettingsAssumption`, `WritersAssumption`, and those on `HasLegacy` and
`Disturbances`). All nine properties of the run `maintenance` are proved, in
`MaintenanceProofs`:

| theorem | states |
|---|---|
| `AdmittedCanFinish` | `Spec => []AdmittedActionsCanFinish` |
| `StopsHold` | `Spec => StopsTakeHold` |
| `OutcomesAreTrue` | `Spec => []OutcomesTellTheTruth` |
| `MutationsHaveAccounts` | `Spec => []MutationsAreAccounted` |
| `OutcomesHaveRecords` | `Spec => []OutcomesAreRecorded` |
| `LogStaysOneChain` | `Spec => []LogIsOneChain` |
| `ReportsAreOfDamage` | `Spec => []OnlyDamageIsReported` |
| `LogGrowsOnly` | `Spec => LogOnlyGrows` |
| `MaintenanceTypeCorrect` | `Spec => []MaintenanceTypeOK` |

- *Policy.* `ControlsInv`: what is in effect is what the settings and the file say; a
  denial that takes a measurement or the rollback takes the actions that need it.
- *Stops.* A step property, from the type of the actions alone: `Barred` is an
  action that has changed nothing and whose mutation is denied, and every way from there
  past its statement asks again. Only `SetControls` can lift it.
- *Outcomes.* `TruthInv` says for each place of an action what it knows of
  the index and of the refresh: who created what has the name, and whether the action has seen it since.
  It must survive the changes of other sessions, which is why a
  success claims that the index was verified and not that it is there.
- *Accounts.* `AccountInv` has three parts: what the log says of an action at each of
  its places (`Says`), what its writer may be about to append (`Writes`), and what must be there
  for what it did (`Accounts`). `MutationsAreAccounted` is not inductive without
  the second: the writer appends after the action has decided, and only if it
  gets the lock.
- *The chain.* `ChainInv`: only the holder of the lock is between verification and append,
  the head it verified is still the head, and a torn line is only
  ever the last. The lemma about appending (`ChainGoesOn`) then gives the chain,
  and `Growth`, which is the action property, follows from the writer's steps alone.

### Evidence, citations and the plan

For every set of pairs and changes, every finite set of waits with numbers for PIDs and
times, every budget and limit (`SubjectsAssumption`, `LockRowsAssumption`,
`MaxActionsAssumption`, `BudgetsAssumption`), in `RoutingProofs`:

| theorem | states |
|---|---|
| `ProposalsHaveEvidence` | `Spec => []ProposalsRestOnEvidence` |
| `OnlyCitedActionsAreRouted` | `Spec => RoutedActionsAreCited` |
| `PlansAreExact` | `Spec => []PlanIsExact` |

- *Evidence.* A reference is a position in the ledger, and the ledger only grows; the lemma
  about appending (`AppendKeepsRests`) is therefore all that later calls need.
  A new proposal rests on records before its own because the newest of a finite
  set is one of them and none is newer (`NewestIsGreatest`).
- *Citations.* `CitesInv`: a run is completed only by an answer that passed
  the check of its citations, on the proposals it still has.
- *The plan.* `PlanIsExact` is stated on the snapshot: whom the plan must contain, that no one else is
  in it, and that its ordinals are those of one order. The planner sorts and
  numbers. `RanksAreConsecutive` in `FiniteOrders` says that in a finite total order counting
  what comes before gives each number from 1 on once, and `PlanOfSnapshot` applies
  it to the order of the code. An order is a set of pairs there, because a lemma that has an operator as a
  parameter could not be instantiated.

The proof of the routing needed an alternative of the model to be said more exactly: a
CASE whose guards overlapped let a prover, and a reader, choose. `RoutedTo` now has
the order of `run_incident`'s tests.

### The experience store

For any runs, exporters, versions and criteria, in `ExperienceProofs`:

| theorem | states |
|---|---|
| `ExperienceTypeCorrect` | `Spec => []ExperienceTypeOK` |
| `ExportsHoldWhatIsApproved` | `Spec => []WithdrawnIsNotExported` |
| `FilesFollowTheRegister` | `Spec => []RegisteredIsPublished` |
| `PromotionsRestOnApproval` | `Spec => []PromotionsAreEarned` |

- *Approval.* `ApprovalInv`: what an export carries after its selection, and what is registered, was
  approved by the feedback there was when it began. Feedback is only
  appended, so an approval as of a position stays (`MoreFeedback`); that
  the latest feedback exists, whatever times the rows bear, is `HasMinimal` of `FiniteOrders`.
- *Files.* `FilesInv` is per version. One that is not contested has one export
  at most at its files; `FilesAt` says which of the four files that export knows to be there,
  whole, and which to be gone, at each of its steps; files nobody is at
  were left by a crash, or are registered and whole. `RegisteredIsPublished` mentions
  only the last of these, and the cleanup after a failure is what makes the others necessary: it
  removes by name.
- *Promotions.* `PromotionInv` with `ApprovalInv`: the dataset a promotion is tied to
  is registered and not empty, so that some run of it was approved; rows of datasets are never removed.

### Only model-checked

Every invariant and every action property of a passing run is proved. The two
liveness properties (`PassReturns`, `RunEnds`) are out of the prover's reach, with ENABLED,
and stay with TLC, as do the three findings. `QuietMeansSettled` holds, and is proved and checked,
only without crashes, interrupts and lapsed leases. Recursive definitions would be out of reach as
well; the models have none, since what the code sorts, ranks and searches in loops is
stated by orders on finite sets.

## 6. What is not modelled, and what is left

Not modelled, with the reason:

- *Text.* Prompts, the classification of requests and answers, the planner's
  confidence and explanations, redaction, formatting of the command line: no
  control depends on it but a choice, and the choice is free in the models.
- *Read-only work.* The queries of diagnostics and observations, plan parsing,
  knowledge retrieval, evaluation, telemetry: pure functions of what they read.
- *Wire and schema.* The shape of messages, HTTP authentication, digests' encoding,
  schema migration. The `events` table is never read back. SQLite's transactions
  are taken as atomic and isolated.
- *Termination outside an incident.* `execute_terminate_backend_proposal` without an
  approval context (`executor.py` 1051-1178) asks at the command line and then takes the
  same statement; `TerminateExecutor` is the path of an incident.
- *Status `PAUSED`.* The table of runs admits it and no caller sets it.

Left to do: `SucceededMeansTerminated` for the isolated profile, where the result
reaches the row by way of an answer; it is stated and proved of the combined one only.
No property is stated of the grant that is consumed by a refused claim
(`execution_grants.py` 62) and keeps the incident from being granted again:
`docs/ISOLATED_EXECUTOR.md` 124-127 leaves it to the operator's review.
