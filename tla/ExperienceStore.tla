---------------------------- MODULE ExperienceStore ----------------------------
(***************************************************************************)
(* The store of reviewed experience (src/src/experience_store.py) and the    *)
(* processes that use it: runs of the agent that leave their summary, the    *)
(* /feedback of the command line (src/src/main.py), and the exports and       *)
(* assessments of src/src/learning_cli.py. A method of the store is one      *)
(* transaction, but for an export: it reads, writes four files of a shared    *)
(* directory one after the other, and registers the dataset at the end.      *)
(* Another export may come between any two of its steps, even of the same     *)
(* version, whose files have the same names; and it may fail, be interrupted *)
(* or crash at every one. A summary that is stored is known by its outcome.  *)
(***************************************************************************)
EXTENDS Integers, Sequences, FiniteSets

CONSTANTS
    Runs,         \* ids of runs of the agent
    Exporters,    \* processes that export datasets
    Versions,     \* names of datasets
    Criteria,     \* what an export asks for
    MaxFeedback, MaxExports, MaxAssessments  \* bounds of the instance

VARIABLES
    runs,        \* experience_runs: the outcome of every run recorded
    feedback,    \* human_feedback, by rowid
    file,        \* file[v]: the files of version v
    registered,  \* dataset_exports
    audit,       \* promotion_audit
    export,      \* export[e]: the export that e is at
    exports,     \* the exports begun (bounded by MaxExports)
    contested,   \* history: versions that two exports were at together
    abandoned    \* history: versions an export or its cleanup of which was cut off

vars == <<runs, feedback, file, registered, audit, export, exports, contested,
          abandoned>>

\* What /feedback says of a run, and the uses it approves.
FeedbackPolicy ==
    {[label |-> label, uses |-> uses] :
        label \in {"good", "bad"}, uses \in {{"evaluation"}, {"evaluation", "training"}}}

\* The four files of a version: the temporary ones and the published ones. One
\* is absent, a part of what was to be written, or the records it holds or, a
\* manifest, digests.
Names == {"temporary_data", "temporary_manifest", "data", "manifest"}

NoFile == {}
PartialFile == {[whole |-> FALSE, records |-> {}]}
Holding(records) == {[whole |-> TRUE, records |-> records]}

NoFiles == [n \in Names |-> NoFile]

NoExport == [at |-> "idle", version |-> "", criteria |-> {}, records |-> {},
             begun |-> 0]

Init ==
    /\ runs = [r \in {} |-> "completed"]
    /\ feedback = <<>>
    /\ file = [v \in Versions |-> NoFiles]
    /\ registered = {}
    /\ audit = {}
    /\ export = [e \in Exporters |-> NoExport]
    /\ exports = 0
    /\ contested = {}
    /\ abandoned = {}

-----------------------------------------------------------------------------
(* Runs and feedback *)

\* record_run_summary; an id that is stored is refused.
RecordRunSummary(r) ==
    /\ r \notin DOMAIN runs
    /\ \E outcome \in {"completed", "failed"} :
        runs' = [q \in DOMAIN runs \cup {r} |-> IF q = r THEN outcome ELSE runs[q]]
    /\ UNCHANGED <<feedback, file, registered, audit, export, exports, contested,
                   abandoned>>

\* add_human_feedback; the run must be there. The time is read before the row is
\* inserted, so that a row may be late: behind some of the rows before it.
AddHumanFeedback(r) ==
    /\ r \in DOMAIN runs
    /\ Len(feedback) < MaxFeedback
    /\ \E said \in FeedbackPolicy, late \in 0..Len(feedback) :
        feedback' = Append(feedback, [run |-> r, label |-> said.label,
                                      uses |-> said.uses, created |-> 0 - late])
    /\ UNCHANGED <<runs, file, registered, audit, export, exports, contested,
                   abandoned>>

-----------------------------------------------------------------------------
(* Exports *)

FeedbackOf(r) == {i \in DOMAIN feedback : feedback[i].run = r}

\* ORDER BY created_at, rowid.
Later(i, j) ==
    \/ feedback[i].created > feedback[j].created
    \/ feedback[i].created = feedback[j].created /\ i > j

Latest(rows) == CHOOSE i \in rows : \A j \in rows \ {i} : Later(i, j)

Approves(i, criteria) ==
    /\ criteria.purpose \in feedback[i].uses
    /\ feedback[i].label \in criteria.labels

\* Mutant: the criteria choose the rows of which the latest is taken.
SelectApproved(criteria) ==
    {r \in DOMAIN runs :
        /\ \E i \in FeedbackOf(r) : Approves(i, criteria)
        /\ criteria.outcomes = {} \/ runs[r] \in criteria.outcomes}

\* _select_export_records.
SelectExportRecords(criteria) ==
    {r \in DOMAIN runs :
        /\ FeedbackOf(r) # {}
        /\ Approves(Latest(FeedbackOf(r)), criteria)
        /\ criteria.outcomes = {} \/ runs[r] \in criteria.outcomes}

\* Mutant: the dataset is registered before its manifest is there.
StepAfterRegisteringFirst(at) ==
    CASE at = "exists" -> "paths"
      [] at = "paths" -> "select"
      [] at = "select" -> "write_data"
      [] at = "write_data" -> "write_manifest"
      [] at = "write_manifest" -> "publish_data"
      [] at = "publish_data" -> "register"
      [] at = "register" -> "publish_manifest"
      [] OTHER -> "idle"

\* The order of export_candidate_dataset.
StepAfter(at) ==
    CASE at = "exists" -> "paths"
      [] at = "paths" -> "select"
      [] at = "select" -> "write_data"
      [] at = "write_data" -> "write_manifest"
      [] at = "write_manifest" -> "publish_data"
      [] at = "publish_data" -> "publish_manifest"
      [] at = "publish_manifest" -> "register"
      [] at = "register" -> "idle"

Go(e, at) ==
    export' = [export EXCEPT ![e] = IF at = "idle" THEN NoExport
                                    ELSE [@ EXCEPT !.at = at]]

Proceed(e) == Go(e, StepAfter(export[e].at))

StoreUnchanged == UNCHANGED <<runs, feedback, audit>>

BeginExport(e) ==
    /\ export[e].at = "idle"
    /\ exports < MaxExports
    /\ exports' = exports + 1
    /\ \E v \in Versions, c \in Criteria :
        export' = [export EXCEPT ![e] =
            [at |-> "exists", version |-> v, criteria |-> {c}, records |-> {},
             begun |-> Len(feedback)]]
    /\ StoreUnchanged /\ UNCHANGED <<file, registered, contested, abandoned>>

IsRegistered(v) == \E d \in registered : d.version = v

\* _dataset_exists raises, or not.
CheckDataset(e) ==
    /\ export[e].at = "exists"
    /\ IF IsRegistered(export[e].version) THEN Go(e, "idle") ELSE Proceed(e)
    /\ StoreUnchanged /\ UNCHANGED <<file, registered, exports, contested, abandoned>>

\* Neither of the published files may be there. From here on the export works on
\* the files of the version.
CheckPaths(e) ==
    LET v == export[e].version IN
    /\ export[e].at = "paths"
    /\ IF file[v]["data"] # NoFile \/ file[v]["manifest"] # NoFile
       THEN Go(e, "idle") /\ UNCHANGED contested
       ELSE /\ Proceed(e)
            /\ contested' =
                IF \E o \in Exporters \ {e} :
                        /\ export[o].version = v
                        /\ export[o].at \notin {"idle", "exists", "paths"}
                THEN contested \cup {v} ELSE contested
    /\ StoreUnchanged /\ UNCHANGED <<file, registered, exports, abandoned>>

Select(e) ==
    /\ export[e].at = "select"
    /\ \E c \in export[e].criteria :
        export' = [export EXCEPT ![e].at = StepAfter("select"),
                                 ![e].records = SelectExportRecords(c)]
    /\ StoreUnchanged
    /\ UNCHANGED <<file, registered, exports, contested, abandoned>>

\* Of the temporary files.
Written(at) ==
    IF at = "write_data" THEN "temporary_data" ELSE "temporary_manifest"

WriteTemporary(e) ==
    LET x == export[e] IN
    /\ x.at \in {"write_data", "write_manifest"}
    /\ file' = [file EXCEPT ![x.version][Written(x.at)] = Holding(x.records)]
    /\ Proceed(e)
    /\ StoreUnchanged /\ UNCHANGED <<registered, exports, contested, abandoned>>

\* Path.replace of a temporary file, which must be there.
Publish(e) ==
    LET x == export[e]
        from == IF x.at = "publish_data" THEN "temporary_data" ELSE "temporary_manifest"
        to == IF x.at = "publish_data" THEN "data" ELSE "manifest" IN
    /\ x.at \in {"publish_data", "publish_manifest"}
    /\ file[x.version][from] # NoFile
    /\ file' = [file EXCEPT ![x.version] =
                    [@ EXCEPT ![to] = file[x.version][from], ![from] = NoFile]]
    /\ Proceed(e)
    /\ StoreUnchanged /\ UNCHANGED <<registered, exports, contested, abandoned>>

\* The row, of a version that has none; begun is of the model alone.
InsertDataset(x) ==
    /\ ~IsRegistered(x.version)
    /\ \E c \in x.criteria :
        registered' = registered \cup
            {[version |-> x.version, criteria |-> c, records |-> x.records,
              begun |-> x.begun]}

Register(e) ==
    /\ export[e].at = "register"
    /\ InsertDataset(export[e])
    /\ Proceed(e)
    /\ StoreUnchanged /\ UNCHANGED <<file, exports, contested, abandoned>>

Steps == {"write_data", "write_manifest", "publish_data", "publish_manifest",
          "register"}

\* What a step leaves that did not end: a part of the file it was writing.
LeftBehind(x) ==
    \/ UNCHANGED file
    \/ /\ x.at \in {"write_data", "write_manifest"}
       /\ file' = [file EXCEPT ![x.version][Written(x.at)] = PartialFile]

\* Any Exception of these steps: of a disk, of the store, of a file that another
\* export took away, of a version that another export registered.
ExportFails(e) ==
    /\ export[e].at \in Steps
    /\ LeftBehind(export[e])
    /\ Go(e, "clean_temporary_data")
    /\ StoreUnchanged /\ UNCHANGED <<registered, exports, contested, abandoned>>

\* except Exception: the four files, one after the other, whoever's they are.
CleaningStep(at) ==
    CASE at = "clean_temporary_data" ->
            [name |-> "temporary_data", next |-> "clean_temporary_manifest"]
      [] at = "clean_temporary_manifest" ->
            [name |-> "temporary_manifest", next |-> "clean_data"]
      [] at = "clean_data" -> [name |-> "data", next |-> "clean_manifest"]
      [] at = "clean_manifest" -> [name |-> "manifest", next |-> "idle"]

Cleaning == {"clean_temporary_data", "clean_temporary_manifest", "clean_data",
             "clean_manifest"}

Unlink(e) ==
    LET x == export[e] IN
    /\ x.at \in Cleaning
    /\ file' = [file EXCEPT ![x.version][CleaningStep(x.at).name] = NoFile]
    /\ Go(e, CleaningStep(x.at).next)
    /\ StoreUnchanged /\ UNCHANGED <<registered, exports, contested, abandoned>>

\* A crash or Ctrl-C, which is no Exception; or a cleanup that raises itself. A
\* version is registered if the commit was done.
CutOff(e) ==
    LET x == export[e] IN
    /\ x.at \in Steps \cup Cleaning
    /\ \/ LeftBehind(x) /\ UNCHANGED registered
       \/ x.at = "register" /\ InsertDataset(x) /\ UNCHANGED file
    /\ Go(e, "idle")
    /\ abandoned' = abandoned \cup {x.version}
    /\ StoreUnchanged /\ UNCHANGED <<exports, contested>>

-----------------------------------------------------------------------------
(* Assessments *)

\* One metric and one safety check of the gate stand for all: each adds its own
\* reason. A candidate of 0 has no such metric.
GateInputs ==
    [baseline : {2}, candidate : 0..3, direction : {"higher", "lower", "none"},
     safe : BOOLEAN, approval : {"none", "APPROVE", "other"}]

\* Mutant: a metric the candidate does not have is not looked at.
MetricReasonsIfPresent(gate) ==
    IF gate.candidate = 0 THEN {}
    ELSE IF gate.direction = "none" THEN {"metric_direction"}
    ELSE IF \/ gate.direction = "higher" /\ gate.candidate < gate.baseline
            \/ gate.direction = "lower" /\ gate.candidate > gate.baseline
    THEN {"benchmark_regression"}
    ELSE {}

MetricReasons(gate) ==
    IF gate.direction = "none" THEN {"metric_direction"}
    ELSE IF gate.candidate = 0 THEN {"metric_missing"}
    ELSE IF \/ gate.direction = "higher" /\ gate.candidate < gate.baseline
            \/ gate.direction = "lower" /\ gate.candidate > gate.baseline
    THEN {"benchmark_regression"}
    ELSE {}

Reasons(d, gate) ==
    MetricReasons(gate)
        \cup {reason \in {"dataset_empty"} : d.records = {}}
        \cup {reason \in {"safety_check_failed"} : ~gate.safe}
        \cup {reason \in {"explicit_approval"} : gate.approval # "APPROVE"}

\* assess_candidate_promotion, of a dataset that is registered. Rows of
\* dataset_exports stay as they are, so that the read of the manifest and the
\* INSERT are one step. Of an assessment that did not promote only that is kept.
AssessCandidatePromotion ==
    /\ Cardinality(audit) < MaxAssessments
    /\ \E d \in registered, gate \in GateInputs :
        audit' = audit \cup
            {[version |-> d.version, promoted |-> Reasons(d, gate) = {},
              gate |-> IF Reasons(d, gate) = {} THEN {gate} ELSE {}]}
    /\ UNCHANGED <<runs, feedback, file, registered, export, exports, contested,
                   abandoned>>

ExportStep(e) ==
    \/ BeginExport(e)
    \/ CheckDataset(e)
    \/ CheckPaths(e)
    \/ Select(e)
    \/ WriteTemporary(e)
    \/ Publish(e)
    \/ Register(e)
    \/ ExportFails(e)
    \/ Unlink(e)
    \/ CutOff(e)

Next ==
    \/ \E r \in Runs : RecordRunSummary(r) \/ AddHumanFeedback(r)
    \/ \E e \in Exporters : ExportStep(e)
    \/ AssessCandidatePromotion

Spec == Init /\ [][Next]_vars

-----------------------------------------------------------------------------
(* Safety *)

\* What the operator took back stays out: every run of a registered dataset has
\* feedback that approves it for the purpose and the labels of the dataset, and
\* none after that, in the order of the times of feedback, was there when the
\* export began, whatever was said while it was under way.
WithdrawnIsNotExported ==
    \A d \in registered : \A r \in d.records :
        /\ d.criteria.outcomes = {} \/ runs[r] \in d.criteria.outcomes
        /\ \E i \in FeedbackOf(r) :
            /\ Approves(i, d.criteria)
            /\ \A j \in FeedbackOf(r) : j <= d.begun => ~Later(j, i)

\* A version that no two exports were at together has its files if it is
\* registered, whole and with what was registered, whatever other exports did,
\* failed at or left behind; and if it is not, no export is at it and none was cut
\* off, none of its files, so that it can be exported again.
RegisteredIsPublished ==
    \A v \in Versions \ contested :
        /\ \A d \in registered : d.version = v =>
            /\ file[v]["data"] = Holding(d.records)
            /\ file[v]["manifest"] = Holding(d.records)
        /\ \/ IsRegistered(v)
           \/ v \in abandoned
           \/ \E e \in Exporters : export[e].version = v
           \/ file[v] = NoFiles

\* A candidate is promoted only on a dataset with runs in it that a human approved,
\* with a human's approval of its own, every safety check passed, and its metric
\* there and no worse than the baseline in a direction that was given.
PromotionsAreEarned ==
    \A a \in audit : a.promoted =>
        /\ \E d \in registered :
            /\ d.version = a.version
            /\ \E i \in DOMAIN feedback :
                feedback[i].run \in d.records /\ d.criteria.purpose \in feedback[i].uses
        /\ \A gate \in a.gate :
            /\ gate.safe /\ gate.approval = "APPROVE"
            /\ gate.candidate # 0
            /\ \/ gate.direction = "higher" /\ gate.candidate >= gate.baseline
               \/ gate.direction = "lower" /\ gate.candidate <= gate.baseline

=============================================================================
