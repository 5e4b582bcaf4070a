--------------------------- MODULE ExperienceProofs ----------------------------
(***************************************************************************)
(* The experience store, for any runs, exporters, versions and criteria and  *)
(* without bounds that matter: a dataset holds what was approved when its    *)
(* export began, its files are there unless two exporters were at them        *)
(* together, and a promotion rests on such a dataset and on every gate.      *)
(***************************************************************************)
EXTENDS ExperienceStore, FiniteOrders

-----------------------------------------------------------------------------
(* The types *)

Feedbacks ==
    [run : Runs, label : {"good", "bad"},
     uses : {{"evaluation"}, {"evaluation", "training"}}, created : Int]

Contents == SUBSET [whole : BOOLEAN, records : SUBSET Runs]

Active == {"select"} \cup Steps \cup Cleaning

ExportStates ==
    [at : {"exists", "paths"} \cup Active, version : Versions,
     criteria : {{c} : c \in Criteria}, records : SUBSET Runs, begun : Nat]

Datasets ==
    [version : Versions, criteria : Criteria, records : SUBSET Runs, begun : Nat]

ExperienceTypeOK ==
    /\ DOMAIN runs \subseteq Runs
    /\ feedback \in Seq(Feedbacks)
    /\ file \in [Versions -> [Names -> Contents]]
    /\ registered \subseteq Datasets
    /\ export \in [Exporters -> ExportStates \cup {NoExport}]

-----------------------------------------------------------------------------
(* What a dataset may hold *)

\* The records were approved by the feedback there was at begun.
IsApproved(criteria, records, begun) ==
    \A r \in records :
        /\ r \in DOMAIN runs
        /\ criteria.outcomes = {} \/ runs[r] \in criteria.outcomes
        /\ \E i \in FeedbackOf(r) :
            /\ Approves(i, criteria)
            /\ \A j \in FeedbackOf(r) : j <= begun => ~Later(j, i)

\* An export that has selected its records carries approved ones.
Carries(x) ==
    x.at # "idle" =>
        /\ x.begun <= Len(feedback)
        /\ x.at \notin {"exists", "paths", "select"} =>
            \A c \in x.criteria : IsApproved(c, x.records, x.begun)

ApprovalInv ==
    /\ \A e \in Exporters : Carries(export[e])
    /\ \A d \in registered :
        /\ d.begun <= Len(feedback)
        /\ IsApproved(d.criteria, d.records, d.begun)

-----------------------------------------------------------------------------
(* The files of a version *)

\* e works on the files of version v.
IsAt(e, v) == export[e].version = v /\ export[e].at \in Active

Published(x) ==
    /\ file[x.version]["data"] = Holding(x.records)
    /\ file[x.version]["manifest"] = Holding(x.records)

Absent(v, names) == \A n \in names : file[v][n] = NoFile

\* What an export that is alone at its version knows of the files at each of its
\* steps. It knows nothing of the temporary files that a crash has left.
FilesAt(x) ==
    LET v == x.version IN
    /\ x.at \in {"select", "write_data", "write_manifest", "publish_data"} =>
            Absent(v, {"data", "manifest"})
    /\ x.at \in {"write_manifest", "publish_data"} =>
            file[v]["temporary_data"] = Holding(x.records)
    /\ x.at \in {"publish_data", "publish_manifest"} =>
            file[v]["temporary_manifest"] = Holding(x.records)
    /\ x.at \in {"publish_manifest", "register"} =>
            /\ file[v]["data"] = Holding(x.records)
            /\ Absent(v, {"temporary_data"})
    /\ x.at = "register" =>
            /\ file[v]["manifest"] = Holding(x.records)
            /\ Absent(v, {"temporary_manifest"})
    /\ x.at \in {"clean_temporary_manifest", "clean_data", "clean_manifest"} =>
            Absent(v, {"temporary_data"})
    /\ x.at \in {"clean_data", "clean_manifest"} =>
            Absent(v, {"temporary_manifest"})
    /\ x.at = "clean_manifest" => Absent(v, {"data"})

\* A version that is not contested has one export at most at its files, and none
\* once it is registered; and files that nobody is at were left by a crash.
FilesOK(v) ==
    /\ \A e, o \in Exporters : IsAt(e, v) /\ IsAt(o, v) => e = o
    /\ \A e \in Exporters : IsAt(e, v) => FilesAt(export[e]) /\ ~IsRegistered(v)
    /\ \A d \in registered : d.version = v => Published(d)
    /\ \/ IsRegistered(v)
       \/ v \in abandoned
       \/ \E e \in Exporters : IsAt(e, v)
       \/ file[v] = NoFiles

FilesInv == \A v \in Versions \ contested : FilesOK(v)

-----------------------------------------------------------------------------
(* Promotions *)

PromotionInv ==
    \A a \in audit : a.promoted =>
        /\ \E d \in registered : d.version = a.version /\ d.records # {}
        /\ \A gate \in a.gate :
            MetricReasons(gate) = {} /\ gate.safe /\ gate.approval = "APPROVE"
            /\ gate \in GateInputs

-----------------------------------------------------------------------------
(* Moves of an export *)

Same(e) == \A o \in Exporters \ {e} : export'[o] = export[o]

LEMMA UnderWay ==
    ASSUME ExperienceTypeOK, NEW e \in Exporters, export[e].at # "idle"
    PROVE  export[e] \in ExportStates
<1>1. export[e] \in ExportStates \cup {NoExport}
  BY DEF ExperienceTypeOK
<1>2. NoExport.at = "idle"
  BY DEF NoExport
<1> QED
  BY <1>1, <1>2

LEMMA GoMoves ==
    ASSUME ExperienceTypeOK, NEW e \in Exporters, export[e].at # "idle",
           NEW at \in {"idle", "exists", "paths"} \cup Active, Go(e, at)
    PROVE  /\ Same(e)
           /\ export' = [o \in Exporters |-> export'[o]]
           /\ at = "idle" => export'[e] = NoExport
           /\ at # "idle" =>
                /\ export'[e] \in ExportStates
                /\ export'[e].at = at
                /\ export'[e].version = export[e].version
                /\ export'[e].criteria = export[e].criteria
                /\ export'[e].records = export[e].records
                /\ export'[e].begun = export[e].begun
<1>1. export[e] \in ExportStates
  BY UnderWay
<1>2. CASE at = "idle"
  BY <1>2 DEF ExperienceTypeOK, Go, Same
<1>3. CASE at # "idle"
  <2>1. export' = [export EXCEPT ![e] = [export[e] EXCEPT !.at = at]]
    BY <1>3 DEF Go
  <2>2. export'[e] = [export[e] EXCEPT !.at = at]
    BY <2>1 DEF ExperienceTypeOK
  <2>3. at \in {"exists", "paths"} \cup Active
    BY <1>3
  <2>4. /\ export'[e] \in ExportStates
        /\ export'[e].at = at
        /\ export'[e].version = export[e].version
        /\ export'[e].criteria = export[e].criteria
        /\ export'[e].records = export[e].records
        /\ export'[e].begun = export[e].begun
    BY <1>1, <2>2, <2>3 DEF ExportStates
  <2> QED
    BY <1>3, <2>1, <2>4 DEF ExperienceTypeOK, Same
<1> QED
  BY <1>2, <1>3

LEMMA ProceedMoves ==
    ASSUME ExperienceTypeOK, NEW e \in Exporters, Proceed(e),
           export[e].at \in {"exists", "paths", "write_data", "write_manifest",
                             "publish_data", "publish_manifest"}
    PROVE  /\ Same(e)
           /\ export' = [o \in Exporters |-> export'[o]]
           /\ export'[e] \in ExportStates
           /\ export'[e].at = StepAfter(export[e].at)
           /\ export'[e].version = export[e].version
           /\ export'[e].criteria = export[e].criteria
           /\ export'[e].records = export[e].records
           /\ export'[e].begun = export[e].begun
<1>1. StepAfter(export[e].at) \in {"paths"} \cup Active
  BY DEF StepAfter, Active, Steps
<1>2. StepAfter(export[e].at) # "idle"
  BY DEF StepAfter
<1> QED
  BY <1>1, <1>2, GoMoves DEF Proceed

LEMMA BeginMoves ==
    ASSUME ExperienceTypeOK, NEW e \in Exporters, BeginExport(e)
    PROVE  /\ Same(e)
           /\ export' = [o \in Exporters |-> export'[o]]
           /\ export'[e] \in ExportStates
           /\ export'[e].at = "exists"
           /\ export'[e].begun = Len(feedback)
<1>1. PICK v \in Versions, c \in Criteria :
        export' = [export EXCEPT ![e] =
            [at |-> "exists", version |-> v, criteria |-> {c}, records |-> {},
             begun |-> Len(feedback)]]
  BY DEF BeginExport
<1>2. Len(feedback) \in Nat
  BY DEF ExperienceTypeOK
<1> QED
  BY <1>1, <1>2 DEF ExperienceTypeOK, ExportStates, Same

LEMMA SelectMoves ==
    ASSUME ExperienceTypeOK, NEW e \in Exporters, Select(e)
    PROVE  /\ Same(e)
           /\ export' = [o \in Exporters |-> export'[o]]
           /\ export'[e] \in ExportStates
           /\ export'[e].at = "write_data"
           /\ export'[e].version = export[e].version
           /\ export'[e].criteria = export[e].criteria
           /\ export'[e].begun = export[e].begun
           /\ \E c \in export[e].criteria :
                /\ export[e].criteria = {c}
                /\ export'[e].records = SelectExportRecords(c)
<1>1. PICK c \in export[e].criteria :
        export' = [export EXCEPT ![e].at = StepAfter("select"),
                                 ![e].records = SelectExportRecords(c)]
  BY DEF Select
<1>2. export[e] \in ExportStates
  BY UnderWay DEF Select
<1>3. SelectExportRecords(c) \in SUBSET Runs
  BY DEF SelectExportRecords, ExperienceTypeOK
<1>4. StepAfter("select") = "write_data"
  BY DEF StepAfter
<1>5. export'[e] = [export[e] EXCEPT !.at = "write_data",
                                     !.records = SelectExportRecords(c)]
  BY <1>1, <1>4 DEF ExperienceTypeOK
<1>6. export[e].criteria = {c}
  BY <1>2 DEF ExportStates
<1>7. export'[e] \in ExportStates
  BY <1>2, <1>3, <1>5 DEF ExportStates, Active, Steps
<1>8. Same(e) /\ export' = [o \in Exporters |-> export'[o]]
  BY <1>1 DEF ExperienceTypeOK, Same
<1> QED
  BY <1>2, <1>5, <1>6, <1>7, <1>8 DEF ExportStates

-----------------------------------------------------------------------------
(* Changes of a file *)

Alone(v, names) ==
    /\ file' = [w \in Versions |-> file'[w]]
    /\ \A w \in Versions \ {v} : file'[w] = file[w]
    /\ file'[v] \in [Names -> Contents]
    /\ \A n \in Names \ names : file'[v][n] = file[v][n]

LEMMA OneFile ==
    ASSUME ExperienceTypeOK, NEW v \in Versions, NEW n \in Names,
           NEW content \in Contents,
           file' = [file EXCEPT ![v][n] = content]
    PROVE  Alone(v, {n}) /\ file'[v][n] = content
<1>1. file[v] \in [Names -> Contents] /\ DOMAIN file = Versions
  BY DEF ExperienceTypeOK
<1>2. file'[v] = [file[v] EXCEPT ![n] = content]
  BY <1>1
<1>3. file' = [w \in Versions |-> file'[w]] /\ \A w \in Versions \ {v} : file'[w] = file[w]
  BY <1>1
<1> QED
  BY <1>1, <1>2, <1>3 DEF Alone

LEMMA ContentsOK ==
    ASSUME NEW records \in SUBSET Runs
    PROVE  /\ {NoFile, PartialFile, Holding(records)} \subseteq Contents
           /\ NoFile # Holding(records)
  BY DEF NoFile, PartialFile, Holding, Contents

LEMMA WrittenFile ==
    ASSUME NEW at \in {"write_data", "write_manifest"}
    PROVE  Written(at) \in {"temporary_data", "temporary_manifest"}
           /\ Written(at) \in Names
  BY DEF Written, Names

LEMMA WriteFiles ==
    ASSUME ExperienceTypeOK, NEW e \in Exporters, WriteTemporary(e)
    PROVE  /\ Alone(export[e].version, {Written(export[e].at)})
           /\ file'[export[e].version][Written(export[e].at)] =
                Holding(export[e].records)
<1> DEFINE v == export[e].version
           n == Written(export[e].at)
           content == Holding(export[e].records)
<1>1. export[e].at \in {"write_data", "write_manifest"} /\ export[e] \in ExportStates
  BY UnderWay DEF WriteTemporary
<1>2. v \in Versions /\ n \in Names /\ content \in Contents
  BY <1>1, ContentsOK, WrittenFile DEF ExportStates
<1>3. file' = [file EXCEPT ![v][n] = content]
  BY DEF WriteTemporary
<1> HIDE DEF v, n, content
<1>4. Alone(v, {n}) /\ file'[v][n] = content
  BY <1>2, <1>3, OneFile
<1> QED
  BY <1>4 DEF v, n, content

LEMMA LeftBehindFiles ==
    ASSUME ExperienceTypeOK, NEW x \in ExportStates, LeftBehind(x)
    PROVE  /\ Alone(x.version, Names)
           /\ x.at \notin {"write_data", "write_manifest"} => file' = file
<1>1. x.version \in Versions /\ x.records \in SUBSET Runs
  BY DEF ExportStates
<1>2. CASE UNCHANGED file
  BY <1>1, <1>2 DEF ExperienceTypeOK, Alone
<1>3. CASE /\ x.at \in {"write_data", "write_manifest"}
           /\ file' = [file EXCEPT ![x.version][Written(x.at)] = PartialFile]
  <2>1. PartialFile \in Contents /\ Written(x.at) \in Names
    BY <1>1, <1>3, ContentsOK, WrittenFile
  <2>2. Alone(x.version, {Written(x.at)})
    BY <1>1, <1>3, <2>1, OneFile
  <2> QED
    BY <1>3, <2>1, <2>2 DEF Alone
<1> QED
  BY <1>2, <1>3 DEF LeftBehind

LEMMA PublishFiles ==
    ASSUME ExperienceTypeOK, NEW e \in Exporters, Publish(e)
    PROVE  LET x == export[e]
               from == IF x.at = "publish_data" THEN "temporary_data"
                       ELSE "temporary_manifest"
               to == IF x.at = "publish_data" THEN "data" ELSE "manifest" IN
           /\ Alone(x.version, {from, to})
           /\ file'[x.version][to] = file[x.version][from]
           /\ file'[x.version][from] = NoFile
<1> DEFINE x == export[e]
           v == x.version
           from == IF x.at = "publish_data" THEN "temporary_data"
                   ELSE "temporary_manifest"
           to == IF x.at = "publish_data" THEN "data" ELSE "manifest"
<1>1. v \in Versions
  BY UnderWay DEF Publish, ExportStates
<1>2. file[v] \in [Names -> Contents] /\ DOMAIN file = Versions
  BY <1>1 DEF ExperienceTypeOK
<1>3. from \in Names /\ to \in Names /\ from # to
  BY DEF Names
<1>4. NoFile \in Contents
  BY DEF NoFile, Contents
<1>5. file' = [file EXCEPT ![v] =
                    [@ EXCEPT ![to] = file[v][from], ![from] = NoFile]]
  BY DEF Publish
<1> HIDE DEF x, v, from, to
<1>6. file'[v] = [file[v] EXCEPT ![to] = file[v][from], ![from] = NoFile]
  BY <1>1, <1>2, <1>5
<1>7. /\ file'[v] \in [Names -> Contents]
      /\ file'[v][to] = file[v][from]
      /\ file'[v][from] = NoFile
      /\ \A n \in Names \ {from, to} : file'[v][n] = file[v][n]
  BY <1>2, <1>3, <1>4, <1>6
<1>8. Alone(v, {from, to})
  BY <1>1, <1>2, <1>5, <1>7 DEF Alone
<1> QED
  BY <1>7, <1>8 DEF x, v, from, to

LEMMA UnlinkFiles ==
    ASSUME ExperienceTypeOK, NEW e \in Exporters, Unlink(e)
    PROVE  LET name == CleaningStep(export[e].at).name IN
           /\ name \in Names
           /\ Alone(export[e].version, {name})
           /\ file'[export[e].version][name] = NoFile
<1>1. export[e].version \in Versions /\ export[e].at \in Cleaning
  BY UnderWay DEF Unlink, ExportStates, Cleaning
<1>2. CleaningStep(export[e].at).name \in Names
  BY <1>1 DEF CleaningStep, Cleaning, Names
<1>3. NoFile \in Contents
  BY DEF NoFile, Contents
<1>4. file' = [file EXCEPT ![export[e].version][CleaningStep(export[e].at).name]
                    = NoFile]
  BY DEF Unlink
<1> DEFINE name == CleaningStep(export[e].at).name
           v == export[e].version
<1>5. /\ v \in Versions /\ name \in Names
      /\ file' = [file EXCEPT ![v][name] = NoFile]
  BY <1>1, <1>2, <1>4
<1> HIDE DEF name, v
<1>6. Alone(v, {name}) /\ file'[v][name] = NoFile
  BY <1>3, <1>5, OneFile
<1> QED
  BY <1>5, <1>6 DEF name, v

-----------------------------------------------------------------------------
(* Type correctness *)

ExportTypeOK ==
    /\ file \in [Versions -> [Names -> Contents]]
    /\ registered \subseteq Datasets
    /\ export \in [Exporters -> ExportStates \cup {NoExport}]

LEMMA ExportIsTyped ==
    ASSUME ExperienceTypeOK, NEW e \in Exporters, Same(e),
           export' = [o \in Exporters |-> export'[o]],
           export'[e] \in ExportStates \cup {NoExport}
    PROVE  export' \in [Exporters -> ExportStates \cup {NoExport}]
  BY DEF ExperienceTypeOK, Same

LEMMA FilesAreTyped ==
    ASSUME ExperienceTypeOK, NEW v \in Versions, NEW names, Alone(v, names)
    PROVE  file' \in [Versions -> [Names -> Contents]]
  BY DEF ExperienceTypeOK, Alone

LEMMA DatasetsAreTyped ==
    ASSUME ExperienceTypeOK, NEW e \in Exporters, export[e].at # "idle",
           InsertDataset(export[e])
    PROVE  registered' \subseteq Datasets
<1>1. PICK c \in export[e].criteria : registered' = registered \cup
            {[version |-> export[e].version, criteria |-> c,
              records |-> export[e].records, begun |-> export[e].begun]}
  BY DEF InsertDataset
<1>2. export[e] \in ExportStates
  BY UnderWay
<1>3. c \in Criteria
  BY <1>1, <1>2 DEF ExportStates
<1> QED
  BY <1>1, <1>2, <1>3 DEF ExperienceTypeOK, ExportStates, Datasets

LEMMA ExportStepTypes ==
    ASSUME ExperienceTypeOK, NEW e \in Exporters, ExportStep(e)
    PROVE  ExportTypeOK' /\ StoreUnchanged
<1>a. /\ file \in [Versions -> [Names -> Contents]]
      /\ registered \subseteq Datasets
  BY DEF ExperienceTypeOK
<1>1. CASE BeginExport(e)
  BY <1>1, <1>a, BeginMoves, ExportIsTyped DEF ExportTypeOK, BeginExport
<1>2. CASE CheckDataset(e)
  <2>1. export[e].at = "exists" /\ export[e].at # "idle"
    BY <1>2 DEF CheckDataset
  <2>2. export' \in [Exporters -> ExportStates \cup {NoExport}]
    BY <1>2, <2>1, GoMoves, ProceedMoves, ExportIsTyped DEF CheckDataset
  <2> QED
    BY <1>2, <1>a, <2>2 DEF CheckDataset, ExportTypeOK
<1>3. CASE CheckPaths(e)
  <2>1. export[e].at = "paths" /\ export[e].at # "idle"
    BY <1>3 DEF CheckPaths
  <2>2. export' \in [Exporters -> ExportStates \cup {NoExport}]
    BY <1>3, <2>1, GoMoves, ProceedMoves, ExportIsTyped DEF CheckPaths
  <2> QED
    BY <1>3, <1>a, <2>2 DEF CheckPaths, ExportTypeOK
<1>4. CASE Select(e)
  BY <1>4, <1>a, SelectMoves, ExportIsTyped DEF Select, ExportTypeOK
<1>5. CASE WriteTemporary(e)
  <2>1. /\ export[e].at \in {"write_data", "write_manifest"}
        /\ export[e] \in ExportStates
    BY <1>5, UnderWay DEF WriteTemporary
  <2>2. /\ export[e].version \in Versions
        /\ Holding(export[e].records) \in Contents
        /\ Written(export[e].at) \in Names
    BY <2>1, ContentsOK, WrittenFile DEF ExportStates
  <2>3. Alone(export[e].version, {Written(export[e].at)})
    BY <1>5, WriteFiles
  <2>4. export' \in [Exporters -> ExportStates \cup {NoExport}]
    BY <1>5, <2>1, ProceedMoves, ExportIsTyped DEF WriteTemporary
  <2> QED
    BY <1>5, <1>a, <2>2, <2>3, <2>4, FilesAreTyped DEF WriteTemporary, ExportTypeOK
<1>6. CASE Publish(e)
  <2>1. /\ export[e].at \in {"publish_data", "publish_manifest"}
        /\ export[e] \in ExportStates
    BY <1>6, UnderWay DEF Publish
  <2>2. file' \in [Versions -> [Names -> Contents]]
    BY <1>6, <2>1, PublishFiles, FilesAreTyped DEF ExportStates
  <2>3. export' \in [Exporters -> ExportStates \cup {NoExport}]
    BY <1>6, <2>1, ProceedMoves, ExportIsTyped DEF Publish
  <2> QED
    BY <1>6, <1>a, <2>2, <2>3 DEF Publish, ExportTypeOK
<1>7. CASE Register(e)
  <2>1. export[e].at # "idle" /\ Go(e, "idle")
    BY <1>7 DEF Register, Proceed, StepAfter
  <2>2. export' \in [Exporters -> ExportStates \cup {NoExport}]
    BY <2>1, GoMoves, ExportIsTyped
  <2>3. registered' \subseteq Datasets
    BY <1>7, <2>1, DatasetsAreTyped DEF Register
  <2> QED
    BY <1>7, <1>a, <2>2, <2>3 DEF Register, ExportTypeOK
<1>8. CASE ExportFails(e)
  <2>1. export[e].at # "idle" /\ "clean_temporary_data" \in Active
    BY <1>8 DEF ExportFails, Steps, Active, Cleaning
  <2>2. export' \in [Exporters -> ExportStates \cup {NoExport}]
    BY <1>8, <2>1, GoMoves, ExportIsTyped DEF ExportFails
  <2>3. file' \in [Versions -> [Names -> Contents]]
    BY <1>8, <2>1, UnderWay, LeftBehindFiles, FilesAreTyped DEF ExportFails, ExportStates
  <2> QED
    BY <1>8, <1>a, <2>2, <2>3 DEF ExportFails, ExportTypeOK
<1>9. CASE Unlink(e)
  <2>1. /\ export[e].at # "idle"
        /\ CleaningStep(export[e].at).next \in {"idle"} \cup Active
    BY <1>9 DEF Unlink, Active, Cleaning, CleaningStep
  <2>2. export' \in [Exporters -> ExportStates \cup {NoExport}]
    BY <1>9, <2>1, GoMoves, ExportIsTyped DEF Unlink
  <2>3. file' \in [Versions -> [Names -> Contents]]
    BY <1>9, <2>1, UnderWay, UnlinkFiles, FilesAreTyped DEF ExportStates
  <2> QED
    BY <1>9, <1>a, <2>2, <2>3 DEF Unlink, ExportTypeOK
<1>10. CASE CutOff(e)
  <2>1. export[e].at # "idle" /\ Go(e, "idle")
    BY <1>10 DEF CutOff, Steps, Cleaning
  <2>2. export' \in [Exporters -> ExportStates \cup {NoExport}]
    BY <2>1, GoMoves, ExportIsTyped
  <2>3. CASE LeftBehind(export[e]) /\ UNCHANGED registered
    <3>1. file' \in [Versions -> [Names -> Contents]]
      BY <2>1, <2>3, UnderWay, LeftBehindFiles, FilesAreTyped DEF ExportStates
    <3> QED
      BY <1>10, <1>a, <2>2, <2>3, <3>1 DEF CutOff, ExportTypeOK
  <2>4. CASE InsertDataset(export[e]) /\ UNCHANGED file
    BY <1>10, <1>a, <2>1, <2>2, <2>4, DatasetsAreTyped DEF CutOff, ExportTypeOK
  <2> QED
    BY <1>10, <2>3, <2>4 DEF CutOff
<1> QED
  BY <1>1, <1>2, <1>3, <1>4, <1>5, <1>6, <1>7, <1>8, <1>9, <1>10 DEF ExportStep

LEMMA FeedbackIsTyped ==
    ASSUME ExperienceTypeOK, NEW r \in Runs, AddHumanFeedback(r)
    PROVE  \E row \in Feedbacks : row.run = r /\ feedback' = Append(feedback, row)
<1>1. PICK said \in FeedbackPolicy, late \in 0..Len(feedback) :
        feedback' = Append(feedback, [run |-> r, label |-> said.label,
                                      uses |-> said.uses, created |-> 0 - late])
  BY DEF AddHumanFeedback
<1>2. Len(feedback) \in Nat
  BY DEF ExperienceTypeOK
<1>3. 0 - late \in Int
  BY <1>2
<1>4. [run |-> r, label |-> said.label, uses |-> said.uses, created |-> 0 - late]
        \in Feedbacks
  BY <1>3 DEF FeedbackPolicy, Feedbacks
<1> QED
  BY <1>1, <1>4

LEMMA TypesStep == ExperienceTypeOK /\ [Next]_vars => ExperienceTypeOK'
<1> SUFFICES ASSUME ExperienceTypeOK, [Next]_vars
             PROVE  ExperienceTypeOK'
  OBVIOUS
<1>1. ASSUME NEW r \in Runs, RecordRunSummary(r)
      PROVE  ExperienceTypeOK'
  BY <1>1 DEF ExperienceTypeOK, RecordRunSummary
<1>2. ASSUME NEW r \in Runs, AddHumanFeedback(r)
      PROVE  ExperienceTypeOK'
  <2>1. feedback' \in Seq(Feedbacks)
    BY <1>2, FeedbackIsTyped DEF ExperienceTypeOK
  <2> QED
    BY <1>2, <2>1 DEF ExperienceTypeOK, AddHumanFeedback
<1>3. ASSUME NEW e \in Exporters, ExportStep(e)
      PROVE  ExperienceTypeOK'
  BY <1>3, ExportStepTypes DEF ExportTypeOK, ExperienceTypeOK, StoreUnchanged
<1>4. CASE AssessCandidatePromotion \/ UNCHANGED vars
  BY <1>4 DEF AssessCandidatePromotion, vars, ExperienceTypeOK
<1> QED
  BY <1>1, <1>2, <1>3, <1>4 DEF Next

\* The types of the store, of the files and of the exports.
THEOREM ExperienceTypeCorrect == Spec => []ExperienceTypeOK
<1>1. Init => ExperienceTypeOK
  BY DEF Init, ExperienceTypeOK, NoFiles, NoFile, Names, Contents
<1> QED
  BY <1>1, TypesStep, PTL DEF Spec

-----------------------------------------------------------------------------
(* Approvals *)

\* The rows of feedback are numbered, and each has a time.
LEMMA RowsOf ==
    ASSUME NEW rows \in Seq(Feedbacks)
    PROVE  /\ Len(rows) \in Nat
           /\ DOMAIN rows = 1..Len(rows)
           /\ \A i \in DOMAIN rows : i \in Int /\ rows[i].created \in Int
<1>1. Len(rows) \in Nat /\ DOMAIN rows = 1..Len(rows)
  OBVIOUS
<1>2. \A i \in DOMAIN rows : rows[i] \in Feedbacks
  OBVIOUS
<1>3. \A row \in Feedbacks : row.created \in Int
  BY DEF Feedbacks
<1> QED
  BY <1>1, <1>2, <1>3

LEMMA AppendedRow ==
    ASSUME NEW rows \in Seq(Feedbacks), NEW row \in Feedbacks
    PROVE  /\ DOMAIN Append(rows, row) = 1..(Len(rows) + 1)
           /\ Len(Append(rows, row)) = Len(rows) + 1
           /\ \A i \in 1..Len(rows) : Append(rows, row)[i] = rows[i]
<1>1. Append(rows, row) \in Seq(Feedbacks) /\ Len(Append(rows, row)) = Len(rows) + 1
  OBVIOUS
<1>2. \A i \in 1..Len(rows) : Append(rows, row)[i] = rows[i]
  OBVIOUS
<1> QED
  BY <1>1, <1>2, RowsOf

LEMMA RowsOfFeedback ==
    ASSUME ExperienceTypeOK
    PROVE  /\ Len(feedback) \in Nat
           /\ DOMAIN feedback = 1..Len(feedback)
           /\ \A i \in DOMAIN feedback : i \in Int /\ feedback[i].created \in Int
  BY RowsOf DEF ExperienceTypeOK

\* Later is an order of the rows of feedback.
LEMMA LatestIsLast ==
    ASSUME ExperienceTypeOK, NEW rows \in SUBSET DOMAIN feedback, rows # {}
    PROVE  /\ Latest(rows) \in rows
           /\ \A j \in rows : ~Later(j, Latest(rows))
<1>1. \A i \in rows : i \in Int /\ feedback[i].created \in Int
  BY RowsOfFeedback
<1>2. IsFiniteSet(rows)
  <2>1. DOMAIN feedback = 1..Len(feedback) /\ Len(feedback) \in Int /\ 1 \in Int
    BY RowsOfFeedback
  <2>2. IsFiniteSet(1..Len(feedback))
    BY <2>1, FS_Interval
  <2> QED
    BY <2>1, <2>2, FS_Subset
<1> DEFINE R == {p \in rows \X rows : Later(p[1], p[2])}
<1>3. \A i, j \in rows : <<i, j>> \in R <=> Later(i, j)
  OBVIOUS
<1> HIDE DEF R
<1>4. Irreflexive(R, rows)
  BY <1>1, <1>3 DEF Irreflexive, Later
<1>5. Transitive(R, rows)
  <2>1. ASSUME NEW i \in rows, NEW j \in rows, NEW k \in rows,
               Later(i, j), Later(j, k)
        PROVE  Later(i, k)
    BY <1>1, <2>1 DEF Later
  <2> QED
    BY <1>3, <2>1 DEF Transitive
<1>6. PICK i \in rows : \A j \in rows : <<j, i>> \notin R
  BY <1>2, <1>4, <1>5, HasMinimal
<1>7. ASSUME NEW j \in rows \ {i}
      PROVE  Later(i, j)
  <2>1. ~Later(j, i) /\ j # i
    BY <1>3, <1>6
  <2>2. /\ i \in Int /\ feedback[i].created \in Int
        /\ j \in Int /\ feedback[j].created \in Int
    BY <1>1
  <2> QED
    BY <2>1, <2>2 DEF Later
<1>8. /\ Latest(rows) \in rows
      /\ \A j \in rows \ {Latest(rows)} : Later(Latest(rows), j)
  BY <1>7 DEF Latest
<1>9. ASSUME NEW j \in rows, Later(j, Latest(rows))
      PROVE  FALSE
  <2>1. j # Latest(rows)
    BY <1>1, <1>8, <1>9 DEF Later
  <2>2. Later(Latest(rows), j)
    BY <1>8, <2>1
  <2>3. \A i1, j1 \in rows : ~(Later(i1, j1) /\ Later(j1, i1))
    BY <1>1 DEF Later
  <2> QED
    BY <1>8, <1>9, <2>2, <2>3
<1> QED
  BY <1>8, <1>9

\* What an export selects is approved, by all the feedback there is.
LEMMA SelectedIsApproved ==
    ASSUME ExperienceTypeOK, NEW criteria, NEW begun
    PROVE  IsApproved(criteria, SelectExportRecords(criteria), begun)
<1>1. ASSUME NEW r \in SelectExportRecords(criteria)
      PROVE  \E i \in FeedbackOf(r) :
                /\ Approves(i, criteria)
                /\ \A j \in FeedbackOf(r) : ~Later(j, i)
  <2>1. FeedbackOf(r) # {} /\ Approves(Latest(FeedbackOf(r)), criteria)
    BY DEF SelectExportRecords
  <2>2. FeedbackOf(r) \in SUBSET DOMAIN feedback
    BY DEF FeedbackOf
  <2> QED
    BY <2>1, <2>2, LatestIsLast
<1> QED
  BY <1>1 DEF IsApproved, SelectExportRecords

\* Feedback is only added, at the end.
FeedbackGrows ==
    /\ Len(feedback) <= Len(feedback')
    /\ DOMAIN feedback \subseteq DOMAIN feedback'
    /\ \A i \in DOMAIN feedback : feedback'[i] = feedback[i]
    /\ \A i \in DOMAIN feedback' : i \in DOMAIN feedback \/ i > Len(feedback)

LEMMA MoreFeedback ==
    ASSUME ExperienceTypeOK,
           \/ feedback' = feedback
           \/ \E row \in Feedbacks : feedback' = Append(feedback, row)
    PROVE  FeedbackGrows
<1>1. /\ feedback \in Seq(Feedbacks)
      /\ Len(feedback) \in Nat /\ DOMAIN feedback = 1..Len(feedback)
  BY RowsOfFeedback DEF ExperienceTypeOK
<1>2. CASE feedback' = feedback
  BY <1>1, <1>2 DEF FeedbackGrows
<1>3. CASE \E row \in Feedbacks : feedback' = Append(feedback, row)
  <2>1. PICK row \in Feedbacks : feedback' = Append(feedback, row)
    BY <1>3
  <2>2. /\ Len(feedback') = Len(feedback) + 1
        /\ DOMAIN feedback' = 1..(Len(feedback) + 1)
        /\ \A i \in 1..Len(feedback) : feedback'[i] = feedback[i]
    BY <1>1, <2>1, AppendedRow
  <2> QED
    BY <1>1, <2>2 DEF FeedbackGrows
<1> QED
  BY <1>2, <1>3

\* More runs and feedback take nothing from what was approved at begun.
LEMMA ApprovalStays ==
    ASSUME ExperienceTypeOK, ExperienceTypeOK', FeedbackGrows,
           NEW criteria, NEW records, NEW begun \in Nat,
           begun <= Len(feedback), IsApproved(criteria, records, begun),
           \A r \in DOMAIN runs : r \in DOMAIN runs' /\ runs'[r] = runs[r]
    PROVE  /\ begun <= Len(feedback')
           /\ IsApproved(criteria, records, begun)'
<1>1. /\ Len(feedback) \in Nat /\ Len(feedback') \in Nat
      /\ \A i \in DOMAIN feedback' : i \in Int
  BY RowsOf DEF ExperienceTypeOK
<1>2. ASSUME NEW r \in records
      PROVE  \E i \in FeedbackOf(r)' :
                /\ Approves(i, criteria)'
                /\ \A j \in FeedbackOf(r)' : j <= begun => ~Later(j, i)'
  <2>1. PICK i \in FeedbackOf(r) :
            /\ Approves(i, criteria)
            /\ \A j \in FeedbackOf(r) : j <= begun => ~Later(j, i)
    BY DEF IsApproved
  <2>2. i \in FeedbackOf(r)' /\ Approves(i, criteria)'
    BY <2>1 DEF FeedbackOf, Approves, FeedbackGrows
  <2>3. ASSUME NEW j \in FeedbackOf(r)', j <= begun
        PROVE  ~Later(j, i)'
    <3>1. j \in DOMAIN feedback' /\ feedback'[j].run = r
      BY DEF FeedbackOf
    <3>2. i \in DOMAIN feedback
      BY <2>1 DEF FeedbackOf
    <3>3. j \in Int
      BY <1>1, <3>1
    <3>4. ~(j > Len(feedback))
      BY <1>1, <2>3, <3>3
    <3>5. j \in DOMAIN feedback
      BY <3>1, <3>4 DEF FeedbackGrows
    <3>6. j \in FeedbackOf(r)
      BY <3>1, <3>5 DEF FeedbackOf, FeedbackGrows
    <3>7. ~Later(j, i)
      BY <2>1, <2>3, <3>6
    <3> QED
      BY <3>2, <3>5, <3>7 DEF Later, FeedbackGrows
  <2> QED
    BY <2>2, <2>3
<1>3. \A r \in records : r \in DOMAIN runs' /\ runs'[r] = runs[r]
  BY DEF IsApproved
<1>4. begun <= Len(feedback')
  BY <1>1 DEF FeedbackGrows
<1> QED
  BY <1>2, <1>3, <1>4 DEF IsApproved

LEMMA StoreGrows ==
    ASSUME ExperienceTypeOK, ExperienceTypeOK', ApprovalInv, FeedbackGrows,
           \A r \in DOMAIN runs : r \in DOMAIN runs' /\ runs'[r] = runs[r],
           UNCHANGED <<export, registered>>
    PROVE  ApprovalInv'
<1>1. ASSUME NEW e \in Exporters, export[e].at # "idle"
      PROVE  Carries(export[e])'
  <2>1. /\ export[e].begun \in Nat /\ export[e].begun <= Len(feedback)
        /\ export'[e] = export[e]
    BY <1>1, UnderWay DEF ExportStates, ApprovalInv, Carries
  <2>2. export[e].begun <= Len(feedback')
    <3>1. Len(feedback) \in Nat /\ Len(feedback') \in Nat
      BY RowsOf DEF ExperienceTypeOK
    <3> QED
      BY <2>1, <3>1 DEF FeedbackGrows
  <2>3. ASSUME export[e].at \notin {"exists", "paths", "select"},
               NEW c \in export[e].criteria
        PROVE  IsApproved(c, export[e].records, export[e].begun)'
    <3>1. IsApproved(c, export[e].records, export[e].begun)
      BY <1>1, <2>3 DEF ApprovalInv, Carries
    <3> DEFINE records == export[e].records
               begun == export[e].begun
    <3>2. IsApproved(c, records, begun) /\ begun \in Nat /\ begun <= Len(feedback)
      BY <2>1, <3>1
    <3>3. records' = records /\ begun' = begun
      BY <2>1
    <3> HIDE DEF records, begun
    <3>4. PICK R, b : R = records /\ b = begun
      OBVIOUS
    <3>5. IsApproved(c, R, b)'
      BY <3>2, <3>4, ApprovalStays
    <3>6. IsApproved(c, records, begun)'
      BY <3>3, <3>4, <3>5 DEF IsApproved
    <3> QED
      BY <3>6 DEF records, begun
  <2> QED
    BY <2>1, <2>2, <2>3 DEF Carries
<1>2. ASSUME NEW e \in Exporters
      PROVE  Carries(export[e])'
  <2>1. export'[e] = export[e]
    OBVIOUS
  <2> QED
    BY <1>1, <2>1 DEF Carries
<1>3. ASSUME NEW d \in registered
      PROVE  d.begun <= Len(feedback') /\ IsApproved(d.criteria, d.records, d.begun)'
  <2>1. d.begun \in Nat /\ d.begun <= Len(feedback)
        /\ IsApproved(d.criteria, d.records, d.begun)
    BY DEF ExperienceTypeOK, Datasets, ApprovalInv
  <2> QED
    BY <2>1, ApprovalStays
<1> QED
  BY <1>2, <1>3 DEF ApprovalInv

LEMMA SameApproval ==
    ASSUME StoreUnchanged, NEW criteria, NEW records, NEW begun
    PROVE  IsApproved(criteria, records, begun)' = IsApproved(criteria, records, begun)
  BY DEF StoreUnchanged, IsApproved, FeedbackOf, Approves, Later

\* An export that changes nothing of what it carries.
LEMMA CarriesOn ==
    ASSUME StoreUnchanged, ApprovalInv, NEW e \in Exporters, Carries(export[e]),
           export'[e].at # "idle" =>
                /\ export[e].at # "idle"
                /\ export'[e].begun = export[e].begun
                /\ \/ export'[e].at \in {"exists", "paths", "select"}
                   \/ /\ export[e].at \notin {"exists", "paths", "select"}
                      /\ export'[e].criteria = export[e].criteria
                      /\ export'[e].records = export[e].records
    PROVE  Carries(export[e])'
<1>1. CASE export'[e].at = "idle"
  BY <1>1 DEF Carries
<1>2. CASE export'[e].at # "idle"
  <2>1. export'[e].begun <= Len(feedback')
    BY <1>2 DEF Carries, StoreUnchanged
  <2>2. ASSUME export'[e].at \notin {"exists", "paths", "select"},
               NEW c \in export'[e].criteria
        PROVE  IsApproved(c, export[e].records, export[e].begun)'
    <3>1. /\ IsApproved(c, export[e].records, export[e].begun)
          /\ export'[e].records = export[e].records
          /\ export'[e].begun = export[e].begun
      BY <1>2, <2>2 DEF Carries
    <3>2. PICK R, b : R = export[e].records /\ b = export[e].begun
      OBVIOUS
    <3>3. IsApproved(c, R, b)'
      BY <3>1, <3>2, SameApproval
    <3> QED
      BY <3>1, <3>2, <3>3 DEF IsApproved
  <2> QED
    BY <2>1, <2>2 DEF Carries
<1> QED
  BY <1>1, <1>2

\* A dataset takes over what an approved export carries.
LEMMA InsertsApproved ==
    ASSUME ExperienceTypeOK, ApprovalInv, StoreUnchanged, NEW e \in Exporters,
           export[e].at \in Steps \cup Cleaning,
           InsertDataset(export[e]) \/ registered' = registered,
           NEW d \in registered'
    PROVE  d.begun <= Len(feedback') /\ IsApproved(d.criteria, d.records, d.begun)'
<1>1. d.begun <= Len(feedback) /\ IsApproved(d.criteria, d.records, d.begun)
  <2>1. CASE d \in registered
    BY <2>1 DEF ApprovalInv
  <2>2. CASE d \notin registered
    <3>1. PICK c \in export[e].criteria :
            d = [version |-> export[e].version, criteria |-> c,
                 records |-> export[e].records, begun |-> export[e].begun]
      BY <2>2 DEF InsertDataset
    <3>2. /\ export[e].at # "idle"
          /\ export[e].at \notin {"exists", "paths", "select"}
      BY DEF Steps, Cleaning
    <3>3. /\ export[e].begun <= Len(feedback)
          /\ IsApproved(c, export[e].records, export[e].begun)
      BY <3>2 DEF ApprovalInv, Carries
    <3> QED
      BY <3>1, <3>3
  <2> QED
    BY <2>1, <2>2
<1> QED
  BY <1>1, SameApproval DEF StoreUnchanged

LEMMA ExportStepApproval ==
    ASSUME ExperienceTypeOK, ApprovalInv, NEW e \in Exporters, ExportStep(e)
    PROVE  ApprovalInv'
<1>a. StoreUnchanged
  BY ExportStepTypes
<1>b. Carries(export[e])
  BY DEF ApprovalInv
<1>c. Len(feedback) \in Nat
  BY RowsOfFeedback
<1> DEFINE Moved == Same(e) /\ Carries(export[e])'
           Kept == \A d \in registered' :
                    d.begun <= Len(feedback') /\ IsApproved(d.criteria, d.records, d.begun)'
<1>0. ASSUME Moved, Kept PROVE ApprovalInv'
  <2>1. ASSUME NEW o \in Exporters \ {e} PROVE Carries(export[o])'
    <3>1. export'[o] = export[o]
      BY <1>0 DEF Same
    <3>2. Carries(export[o])
      BY DEF ApprovalInv
    <3>3. feedback' = feedback
      BY <1>a DEF StoreUnchanged
    <3>4. ASSUME NEW c PROVE IsApproved(c, export[o].records, export[o].begun)'
                             <=> IsApproved(c, export[o].records, export[o].begun)
      <4>1. PICK R, b : R = export[o].records /\ b = export[o].begun
        OBVIOUS
      <4>2. IsApproved(c, R, b)' = IsApproved(c, R, b)
        BY <1>a, SameApproval
      <4> QED
        BY <3>1, <4>1, <4>2 DEF IsApproved
    <3> QED
      BY <3>1, <3>2, <3>3, <3>4 DEF Carries
  <2> QED
    BY <1>0, <2>1 DEF ApprovalInv
<1>k. registered' = registered => Kept
  <2>1. ASSUME NEW d \in registered
        PROVE  d.begun <= Len(feedback') /\ IsApproved(d.criteria, d.records, d.begun)'
    <3>1. d.begun <= Len(feedback) /\ IsApproved(d.criteria, d.records, d.begun)
      BY DEF ApprovalInv
    <3> QED
      BY <1>a, <3>1, SameApproval DEF StoreUnchanged
  <2> QED
    BY <2>1
<1>i. NoExport.at = "idle"
  BY DEF NoExport
<1>1. CASE BeginExport(e)
  <2>1. /\ Same(e) /\ export'[e].at = "exists" /\ export'[e].begun = Len(feedback)
        /\ registered' = registered /\ feedback' = feedback
    BY <1>1, <1>a, BeginMoves DEF BeginExport, StoreUnchanged
  <2> QED
    BY <1>0, <1>c, <1>k, <2>1 DEF Carries
<1>2. CASE CheckDataset(e) \/ CheckPaths(e)
  <2>1. export[e].at \in {"exists", "paths"} /\ registered' = registered
        /\ (Go(e, "idle") \/ Proceed(e))
    BY <1>2 DEF CheckDataset, CheckPaths
  <2>2. /\ Same(e)
        /\ export'[e].at # "idle" =>
            /\ export'[e].begun = export[e].begun
            /\ export'[e].at \in {"paths", "select"}
    BY <1>i, <2>1, GoMoves, ProceedMoves DEF StepAfter
  <2> QED
    BY <1>0, <1>a, <1>b, <1>k, <2>1, <2>2, CarriesOn
<1>3. CASE Select(e)
  <2>1. PICK c \in export[e].criteria :
            /\ export[e].criteria = {c}
            /\ export'[e].records = SelectExportRecords(c)
    BY <1>3, SelectMoves
  <2>2. /\ Same(e) /\ export'[e].at = "write_data"
        /\ export'[e].begun = export[e].begun /\ export'[e].criteria = {c}
        /\ registered' = registered /\ feedback' = feedback
        /\ export[e].at # "idle"
    BY <1>3, <1>a, <2>1, SelectMoves DEF Select, StoreUnchanged
  <2>3. PICK R, b : R = export'[e].records /\ b = export'[e].begun
    OBVIOUS
  <2>4. IsApproved(c, R, b)
    BY <2>1, <2>3, SelectedIsApproved
  <2>5. IsApproved(c, R, b)'
    BY <1>a, <2>4, SameApproval
  <2>6. IsApproved(c, export[e].records, export[e].begun)'
    BY <2>3, <2>5 DEF IsApproved
  <2>7. export'[e].begun <= Len(feedback')
    BY <1>b, <2>2 DEF Carries
  <2> QED
    BY <1>0, <1>k, <2>2, <2>6, <2>7 DEF Carries
<1>4. CASE WriteTemporary(e) \/ Publish(e)
  <2>1. /\ export[e].at \in {"write_data", "write_manifest", "publish_data",
                             "publish_manifest"}
        /\ registered' = registered /\ Proceed(e)
    BY <1>4 DEF WriteTemporary, Publish
  <2>2. /\ Same(e) /\ export'[e].begun = export[e].begun
        /\ export'[e].criteria = export[e].criteria
        /\ export'[e].records = export[e].records
    BY <2>1, ProceedMoves
  <2> QED
    BY <1>0, <1>a, <1>b, <1>k, <2>1, <2>2, CarriesOn
<1>5. CASE Register(e) \/ CutOff(e)
  <2>1. export[e].at \in Steps \cup Cleaning /\ Go(e, "idle")
        /\ (InsertDataset(export[e]) \/ registered' = registered)
    BY <1>5 DEF Register, CutOff, Proceed, StepAfter, Steps
  <2>2. Same(e) /\ export'[e].at = "idle"
    BY <1>i, <2>1, GoMoves DEF Steps, Cleaning
  <2>3. Kept
    BY <1>a, <2>1, InsertsApproved
  <2> QED
    BY <1>0, <2>2, <2>3 DEF Carries
<1>6. CASE ExportFails(e) \/ Unlink(e)
  <2>1. /\ export[e].at \in Steps \cup Cleaning /\ registered' = registered
        /\ \E at \in {"idle"} \cup Cleaning : Go(e, at)
    BY <1>6 DEF ExportFails, Unlink, Cleaning, CleaningStep
  <2>2. PICK at \in {"idle"} \cup Cleaning : Go(e, at)
    BY <2>1
  <2>3. at \in {"idle", "exists", "paths"} \cup Active
        /\ export[e].at \notin {"idle", "exists", "paths", "select"}
    BY <2>1 DEF Active, Steps, Cleaning
  <2>4. /\ Same(e)
        /\ export'[e].at # "idle" =>
            /\ export'[e].begun = export[e].begun
            /\ export'[e].criteria = export[e].criteria
            /\ export'[e].records = export[e].records
    BY <1>i, <2>2, <2>3, GoMoves
  <2> QED
    BY <1>0, <1>a, <1>b, <1>k, <2>1, <2>3, <2>4, CarriesOn
<1> QED
  BY <1>1, <1>2, <1>3, <1>4, <1>5, <1>6 DEF ExportStep

LEMMA ApprovalStep ==
    ExperienceTypeOK /\ ExperienceTypeOK' /\ ApprovalInv /\ [Next]_vars => ApprovalInv'
<1> SUFFICES ASSUME ExperienceTypeOK, ExperienceTypeOK', ApprovalInv, [Next]_vars
             PROVE  ApprovalInv'
  OBVIOUS
<1>1. ASSUME NEW r \in Runs, RecordRunSummary(r)
      PROVE  ApprovalInv'
  <2>1. feedback' = feedback /\ UNCHANGED <<export, registered>>
        /\ \A q \in DOMAIN runs : q \in DOMAIN runs' /\ runs'[q] = runs[q]
    BY <1>1 DEF RecordRunSummary
  <2> QED
    BY <2>1, MoreFeedback, StoreGrows
<1>2. ASSUME NEW r \in Runs, AddHumanFeedback(r)
      PROVE  ApprovalInv'
  <2>1. UNCHANGED <<runs, export, registered>>
    BY <1>2 DEF AddHumanFeedback
  <2>2. FeedbackGrows
    BY <1>2, FeedbackIsTyped, MoreFeedback
  <2> QED
    BY <2>1, <2>2, StoreGrows
<1>3. ASSUME NEW e \in Exporters, ExportStep(e)
      PROVE  ApprovalInv'
  BY <1>3, ExportStepApproval
<1>4. CASE AssessCandidatePromotion \/ UNCHANGED vars
  <2>1. UNCHANGED <<runs, feedback, export, registered>>
    BY <1>4 DEF AssessCandidatePromotion, vars
  <2> QED
    BY <2>1, MoreFeedback, StoreGrows
<1> QED
  BY <1>1, <1>2, <1>3, <1>4 DEF Next

LEMMA InitApproval == Init => ApprovalInv
<1> SUFFICES ASSUME Init PROVE ApprovalInv
  OBVIOUS
<1>1. \A e \in Exporters : export[e].at = "idle"
  BY DEF Init, NoExport
<1>2. registered = {}
  BY DEF Init
<1> QED
  BY <1>1, <1>2 DEF ApprovalInv, Carries

LEMMA ApprovalHolds == Spec => []ApprovalInv
  BY InitApproval, ApprovalStep, ExperienceTypeCorrect, PTL DEF Spec

\* Whatever is said while exports are under way, a registered dataset holds no
\* run that had been taken back when its export began.
THEOREM ExportsHoldWhatIsApproved == Spec => []WithdrawnIsNotExported
<1>1. ApprovalInv => WithdrawnIsNotExported
  BY DEF ApprovalInv, IsApproved, WithdrawnIsNotExported
<1> QED
  BY <1>1, ApprovalHolds, PTL

-----------------------------------------------------------------------------
(* Promotions *)

\* Datasets and feedback are only added.
LEMMA OnlyAdded ==
    ASSUME ExperienceTypeOK, [Next]_vars
    PROVE  registered \subseteq registered'
<1>1. ASSUME NEW e \in Exporters, ExportStep(e)
      PROVE  registered \subseteq registered'
  BY <1>1 DEF ExportStep, BeginExport, CheckDataset, CheckPaths, Select,
              WriteTemporary, Publish, Register, ExportFails, Unlink, CutOff,
              InsertDataset
<1>2. ASSUME NEW r \in Runs, RecordRunSummary(r) \/ AddHumanFeedback(r)
      PROVE  registered \subseteq registered'
  BY <1>2 DEF RecordRunSummary, AddHumanFeedback
<1>3. CASE AssessCandidatePromotion \/ UNCHANGED vars
  BY <1>3 DEF AssessCandidatePromotion, vars
<1> QED
  BY <1>1, <1>2, <1>3 DEF Next

LEMMA NoReasons ==
    ASSUME NEW d, NEW gate, Reasons(d, gate) = {}
    PROVE  /\ d.records # {}
           /\ MetricReasons(gate) = {}
           /\ gate.safe
           /\ gate.approval = "APPROVE"
<1>1. /\ MetricReasons(gate) = {}
      /\ {reason \in {"dataset_empty"} : d.records = {}} = {}
      /\ {reason \in {"safety_check_failed"} : ~gate.safe} = {}
      /\ {reason \in {"explicit_approval"} : gate.approval # "APPROVE"} = {}
  BY DEF Reasons
<1> QED
  BY <1>1

LEMMA PromotionStep == ExperienceTypeOK /\ PromotionInv /\ [Next]_vars => PromotionInv'
<1> SUFFICES ASSUME ExperienceTypeOK, PromotionInv, [Next]_vars
             PROVE  PromotionInv'
  OBVIOUS
<1>1. CASE AssessCandidatePromotion
  <2>1. PICK d \in registered, gate \in GateInputs :
            audit' = audit \cup
                {[version |-> d.version, promoted |-> Reasons(d, gate) = {},
                  gate |-> IF Reasons(d, gate) = {} THEN {gate} ELSE {}]}
    BY <1>1 DEF AssessCandidatePromotion
  <2>2. ASSUME NEW a \in audit', a \notin audit, a.promoted
        PROVE  /\ d.version = a.version /\ d.records # {}
               /\ \A g \in a.gate :
                    MetricReasons(g) = {} /\ g.safe /\ g.approval = "APPROVE"
                    /\ g \in GateInputs
    <3>1. a = [version |-> d.version, promoted |-> Reasons(d, gate) = {},
               gate |-> IF Reasons(d, gate) = {} THEN {gate} ELSE {}]
      BY <2>1, <2>2
    <3>2. Reasons(d, gate) = {}
      BY <2>2, <3>1
    <3>3. a.version = d.version /\ a.gate = {gate}
      BY <3>1, <3>2
    <3> QED
      BY <3>2, <3>3, NoReasons
  <2>3. registered' = registered
    BY <1>1 DEF AssessCandidatePromotion
  <2>4. \A g : MetricReasons(g)' = MetricReasons(g)
    BY DEF MetricReasons
  <2> QED
    BY <2>2, <2>3, <2>4 DEF PromotionInv, MetricReasons, GateInputs
<1>2. CASE audit' = audit
  <2>1. registered \subseteq registered'
    BY OnlyAdded
  <2> QED
    BY <1>2, <2>1 DEF PromotionInv, MetricReasons, GateInputs
<1>3. ASSUME NEW e \in Exporters, ExportStep(e)
      PROVE  audit' = audit
  BY <1>3, ExportStepTypes DEF StoreUnchanged
<1>4. ASSUME NEW r \in Runs, RecordRunSummary(r) \/ AddHumanFeedback(r)
      PROVE  audit' = audit
  BY <1>4 DEF RecordRunSummary, AddHumanFeedback
<1> QED
  BY <1>1, <1>2, <1>3, <1>4 DEF Next, vars

LEMMA MetricIsGood ==
    ASSUME NEW gate \in GateInputs, MetricReasons(gate) = {}
    PROVE  /\ gate.candidate # 0
           /\ \/ gate.direction = "higher" /\ gate.candidate >= gate.baseline
              \/ gate.direction = "lower" /\ gate.candidate <= gate.baseline
<1>1. gate.direction # "none"
  BY DEF MetricReasons
<1>2. gate.candidate # 0
  BY <1>1 DEF MetricReasons
<1>3. ~(\/ gate.direction = "higher" /\ gate.candidate < gate.baseline
        \/ gate.direction = "lower" /\ gate.candidate > gate.baseline)
  BY <1>1, <1>2 DEF MetricReasons
<1>4. gate.candidate \in Int /\ gate.baseline \in Int
      /\ gate.direction \in {"higher", "lower", "none"}
  BY DEF GateInputs
<1> QED
  BY <1>1, <1>2, <1>3, <1>4

\* Nothing is promoted but on a dataset with a run whose use a human approved,
\* and past the approval, the safety checks and the metric of its own gate.
THEOREM PromotionsRestOnApproval == Spec => []PromotionsAreEarned
<1>1. Init => PromotionInv
  BY DEF Init, PromotionInv
<1>2. Spec => []PromotionInv
  BY <1>1, PromotionStep, ExperienceTypeCorrect, PTL DEF Spec
<1>3. PromotionInv /\ ApprovalInv => PromotionsAreEarned
  <2> SUFFICES ASSUME PromotionInv, ApprovalInv, NEW a \in audit, a.promoted
               PROVE  /\ \E d \in registered :
                           /\ d.version = a.version
                           /\ \E i \in DOMAIN feedback :
                                /\ feedback[i].run \in d.records
                                /\ d.criteria.purpose \in feedback[i].uses
                      /\ \A gate \in a.gate :
                           /\ gate.safe /\ gate.approval = "APPROVE"
                           /\ gate.candidate # 0
                           /\ \/ /\ gate.direction = "higher"
                                 /\ gate.candidate >= gate.baseline
                              \/ /\ gate.direction = "lower"
                                 /\ gate.candidate <= gate.baseline
    BY DEF PromotionsAreEarned
  <2>1. PICK d \in registered : d.version = a.version /\ d.records # {}
    BY DEF PromotionInv
  <2>2. PICK r \in d.records : TRUE
    BY <2>1
  <2>3. PICK i \in FeedbackOf(r) : Approves(i, d.criteria)
    BY DEF ApprovalInv, IsApproved
  <2>4. /\ i \in DOMAIN feedback /\ feedback[i].run \in d.records
        /\ d.criteria.purpose \in feedback[i].uses
    BY <2>3 DEF FeedbackOf, Approves
  <2>5. \A gate \in a.gate : gate \in GateInputs /\ MetricReasons(gate) = {}
                             /\ gate.safe /\ gate.approval = "APPROVE"
    BY DEF PromotionInv
  <2> QED
    BY <2>1, <2>4, <2>5, MetricIsGood
<1> QED
  BY <1>2, <1>3, ApprovalHolds, PTL

-----------------------------------------------------------------------------
(* The files of a version that is not contested *)

\* What every step of an export keeps.
Grows ==
    /\ contested \subseteq contested'
    /\ abandoned \subseteq abandoned'
    /\ registered \subseteq registered'

\* No row of version v is added.
NoRow(v) == \A d \in registered' : d.version = v => d \in registered

LEMMA OthersStay ==
    ASSUME NEW e \in Exporters, Same(e), NEW o \in Exporters \ {e}, NEW v
    PROVE  /\ IsAt(o, v)' <=> IsAt(o, v)
           /\ file'[v] = file[v] /\ IsAt(o, v) =>
                FilesAt(export[o])' = FilesAt(export[o])
<1>1. export'[o] = export[o]
  BY DEF Same
<1>2. ASSUME file'[v] = file[v], export[o].version = v
      PROVE  FilesAt(export[o])' = FilesAt(export[o])
  BY <1>1, <1>2 DEF FilesAt, Absent
<1> QED
  BY <1>1, <1>2 DEF IsAt

\* A version that e is not at, before or after.
LEMMA VersionUnaffected ==
    ASSUME FilesInv, Grows, NEW e \in Exporters, Same(e),
           NEW v \in Versions \ contested', NoRow(v), file'[v] = file[v],
           ~IsAt(e, v), ~IsAt(e, v)'
    PROVE  FilesOK(v)'
<1>1. FilesOK(v)
  BY DEF FilesInv, Grows
<1>2. \A o \in Exporters : IsAt(o, v)' <=> IsAt(o, v)
  BY OthersStay
<1>3. \A o \in Exporters : IsAt(o, v) => FilesAt(export[o])' = FilesAt(export[o])
  BY OthersStay
<1>4. IsRegistered(v)' = IsRegistered(v)
  BY DEF IsRegistered, NoRow, Grows
<1>5. \A d \in registered' : d.version = v => Published(d)'
  BY <1>1 DEF FilesOK, NoRow, Published
<1>6. \A o \in Exporters : IsAt(o, v)' => FilesAt(export[o])' /\ ~IsRegistered(v)'
  BY <1>1, <1>2, <1>3, <1>4 DEF FilesOK
<1>7. \/ IsRegistered(v)'
      \/ v \in abandoned'
      \/ \E o \in Exporters : IsAt(o, v)'
      \/ file'[v] = NoFiles
  BY <1>1, <1>2, <1>4 DEF FilesOK, Grows
<1>8. \A i, o \in Exporters : IsAt(i, v)' /\ IsAt(o, v)' => i = o
  BY <1>1, <1>2 DEF FilesOK
<1> QED
  BY <1>5, <1>6, <1>7, <1>8 DEF FilesOK

\* The version that e alone is at after the step.
LEMMA VersionWorkedOn ==
    ASSUME FilesInv, Grows, NEW e \in Exporters, Same(e),
           NEW v \in Versions \ contested', NoRow(v),
           \A o \in Exporters \ {e} : ~IsAt(o, v), ~IsRegistered(v),
           IsAt(e, v)', FilesAt(export[e])'
    PROVE  FilesOK(v)'
<1>1. \A o \in Exporters : IsAt(o, v)' <=> o = e
  BY OthersStay
<1>2. ~IsRegistered(v)'
  BY DEF IsRegistered, NoRow
<1>3. \A d \in registered' : d.version # v
  BY <1>2 DEF IsRegistered
<1>4. \A o \in Exporters : IsAt(o, v)' => FilesAt(export[o])' /\ ~IsRegistered(v)'
  BY <1>1, <1>2
<1> QED
  BY <1>1, <1>3, <1>4 DEF FilesOK

\* The version that e alone was at and no longer is.
LEMMA VersionLeft ==
    ASSUME FilesInv, Grows, NEW e \in Exporters, Same(e),
           NEW v \in Versions \ contested', IsAt(e, v), ~IsAt(e, v)',
           \/ NoRow(v) /\ (v \in abandoned' \/ file'[v] = NoFiles)
           \/ \E d \in registered' :
                /\ d.version = v
                /\ Published(d)'
                /\ \A c \in registered' : c.version = v => c \in registered \/ c = d
    PROVE  FilesOK(v)'
<1>1. FilesOK(v)
  BY DEF FilesInv, Grows
<1>2. \A o \in Exporters : ~IsAt(o, v)'
  BY <1>1, OthersStay DEF FilesOK
<1>3. \A d \in registered : d.version # v
  BY <1>1 DEF FilesOK, IsRegistered
<1>4. CASE NoRow(v) /\ (v \in abandoned' \/ file'[v] = NoFiles)
  BY <1>2, <1>3, <1>4 DEF FilesOK, NoRow
<1>5. CASE \E d \in registered' :
                /\ d.version = v
                /\ Published(d)'
                /\ \A c \in registered' : c.version = v => c \in registered \/ c = d
  <2>1. IsRegistered(v)' /\ \A c \in registered' : c.version = v => Published(c)'
    BY <1>3, <1>5 DEF IsRegistered, Published
  <2> QED
    BY <1>2, <2>1 DEF FilesOK
<1> QED
  BY <1>4, <1>5

LEMMA NoExportIsIdle == NoExport.at = "idle"
  BY DEF NoExport

LEMMA NotActive == {"idle", "exists", "paths"} \cap Active = {}
  BY DEF Active, Steps, Cleaning

\* A step of e at its version leaves the others alone.
LEMMA OtherVersion ==
    ASSUME FilesInv, Grows, NEW e \in Exporters, Same(e),
           NEW v \in Versions \ contested', v # export[e].version,
           NoRow(v), file'[v] = file[v],
           export'[e].at = "idle" \/ export'[e].version = export[e].version
    PROVE  FilesOK(v)'
<1>1. ~IsAt(e, v) /\ ~IsAt(e, v)'
  BY NotActive DEF IsAt
<1> QED
  BY <1>1, VersionUnaffected

\* What e knows when it is alone at its version.
LEMMA AloneAt ==
    ASSUME FilesInv, NEW e \in Exporters, NEW v \in Versions \ contested,
           IsAt(e, v)
    PROVE  /\ \A o \in Exporters \ {e} : ~IsAt(o, v)
           /\ ~IsRegistered(v)
           /\ FilesAt(export[e])
  BY DEF FilesInv, FilesOK

LEMMA BeginFiles ==
    ASSUME ExperienceTypeOK, FilesInv, NEW e \in Exporters,
           NEW v \in Versions \ contested',
           BeginExport(e) \/ CheckDataset(e)
    PROVE  FilesOK(v)'
<1>1. /\ UNCHANGED <<file, registered, contested, abandoned>>
      /\ export[e].at \in {"idle", "exists"}
  BY DEF BeginExport, CheckDataset
<1>2. Same(e) /\ export'[e].at \in {"idle", "exists", "paths"}
  <2>1. CASE BeginExport(e)
    BY <2>1, BeginMoves
  <2>2. CASE CheckDataset(e)
    <3>1. export[e].at = "exists" /\ (Go(e, "idle") \/ Proceed(e))
      BY <2>2 DEF CheckDataset
    <3>2. CASE Go(e, "idle")
      BY <3>1, <3>2, GoMoves, NoExportIsIdle
    <3>3. CASE Proceed(e)
      BY <3>1, <3>3, ProceedMoves DEF StepAfter
    <3> QED
      BY <3>1, <3>2, <3>3
  <2> QED
    BY <2>1, <2>2
<1>3. ~IsAt(e, v) /\ ~IsAt(e, v)'
  BY <1>1, <1>2, NotActive DEF IsAt
<1> QED
  BY <1>1, <1>2, <1>3, VersionUnaffected DEF Grows, NoRow

\* The check of the paths: what it finds tells that the version is not
\* registered, and a version that another export is at becomes contested.
LEMMA CheckPathsFiles ==
    ASSUME ExperienceTypeOK, FilesInv, NEW e \in Exporters,
           NEW v \in Versions \ contested', CheckPaths(e)
    PROVE  FilesOK(v)'
<1>1. /\ UNCHANGED <<file, registered, abandoned>>
      /\ contested \subseteq contested'
      /\ export[e].at = "paths"
  BY DEF CheckPaths
<1>2. Grows /\ NoRow(v) /\ file'[v] = file[v] /\ ~IsAt(e, v)
  BY <1>1, NotActive DEF Grows, NoRow, IsAt
<1>3. CASE Go(e, "idle")
  <2>1. Same(e) /\ export'[e].at = "idle"
    BY <1>1, <1>3, GoMoves, NoExportIsIdle
  <2>2. ~IsAt(e, v)'
    BY <2>1, NotActive DEF IsAt
  <2> QED
    BY <1>2, <2>1, <2>2, VersionUnaffected
<1>4. CASE ~Go(e, "idle")
  <2>1. /\ Proceed(e)
        /\ file[export[e].version]["data"] = NoFile
        /\ file[export[e].version]["manifest"] = NoFile
        /\ contested' =
            IF \E o \in Exporters \ {e} :
                    /\ export[o].version = export[e].version
                    /\ export[o].at \notin {"idle", "exists", "paths"}
            THEN contested \cup {export[e].version} ELSE contested
    BY <1>4 DEF CheckPaths
  <2>2. /\ Same(e) /\ export'[e].at = "select"
        /\ export'[e].version = export[e].version
    BY <1>1, <2>1, ProceedMoves DEF StepAfter
  <2>3. CASE v # export[e].version
    BY <1>2, <2>2, <2>3, OtherVersion
  <2>4. CASE v = export[e].version
    <3>1. \A o \in Exporters \ {e} : ~IsAt(o, v)
      BY <2>1, <2>4, NotActive DEF IsAt
    <3>2. ~IsRegistered(v)
      <4>1. FilesOK(v)
        BY <1>1 DEF FilesInv
      <4>2. \A records : Holding(records) # NoFile
        BY DEF Holding, NoFile
      <4> QED
        BY <2>1, <2>4, <4>1, <4>2 DEF FilesOK, Published, IsRegistered
    <3>3. IsAt(e, v)'
      BY <2>2, <2>4 DEF IsAt, Active
    <3>4. FilesAt(export[e])'
      BY <1>1, <2>1, <2>2 DEF FilesAt, Absent
    <3> QED
      BY <1>2, <2>2, <3>1, <3>2, <3>3, <3>4, VersionWorkedOn
  <2> QED
    BY <2>3, <2>4
<1> QED
  BY <1>3, <1>4

\* A step of an export that stays at its version.
LEMMA StaysAtVersion ==
    ASSUME ExperienceTypeOK, FilesInv, NEW e \in Exporters,
           export[e].at \in Active, export'[e].at \in Active,
           export'[e].version = export[e].version, Same(e),
           UNCHANGED <<registered, contested, abandoned>>,
           NEW names, Alone(export[e].version, names),
           NEW v \in Versions \ contested',
           FilesAt(export[e]) => FilesAt(export[e])'
    PROVE  FilesOK(v)'
<1>1. Grows /\ NoRow(v) /\ v \in Versions \ contested
  BY DEF Grows, NoRow
<1>2. CASE v # export[e].version
  BY <1>1, <1>2, OtherVersion DEF Alone
<1>3. CASE v = export[e].version
  <2>1. IsAt(e, v) /\ IsAt(e, v)'
    BY <1>3 DEF IsAt
  <2> QED
    BY <1>1, <2>1, AloneAt, VersionWorkedOn
<1> QED
  BY <1>2, <1>3

LEMMA SelectStepFiles ==
    ASSUME ExperienceTypeOK, FilesInv, NEW e \in Exporters,
           NEW v \in Versions \ contested', Select(e)
    PROVE  FilesOK(v)'
<1>1. /\ export[e].at = "select"
      /\ UNCHANGED <<file, registered, contested, abandoned>>
  BY DEF Select
<1>2. /\ export'[e].at = "write_data" /\ Same(e)
      /\ export'[e].version = export[e].version
  BY SelectMoves
<1>3. export[e].at \in Active /\ export'[e].at \in Active
  BY <1>1, <1>2 DEF Active, Steps
<1>4. Alone(export[e].version, {})
  <2>1. export[e].version \in Versions
    BY <1>1, UnderWay DEF ExportStates
  <2> QED
    BY <1>1, <2>1 DEF Alone, ExperienceTypeOK
<1>5. FilesAt(export[e]) => FilesAt(export[e])'
  BY <1>1, <1>2 DEF FilesAt, Absent
<1> QED
  BY <1>1, <1>2, <1>3, <1>4, <1>5, StaysAtVersion

LEMMA WriteStepFiles ==
    ASSUME ExperienceTypeOK, FilesInv, NEW e \in Exporters,
           NEW v \in Versions \ contested', WriteTemporary(e)
    PROVE  FilesOK(v)'
<1>1. /\ export[e].at \in {"write_data", "write_manifest"}
      /\ UNCHANGED <<registered, contested, abandoned>>
      /\ Proceed(e)
  BY DEF WriteTemporary
<1>2. /\ Same(e)
      /\ export'[e].at = StepAfter(export[e].at)
      /\ export'[e].version = export[e].version
      /\ export'[e].records = export[e].records
  BY <1>1, ProceedMoves
<1>3. export[e].at \in Active /\ export'[e].at \in Active
  BY <1>1, <1>2 DEF Active, Steps, StepAfter
<1>4. /\ Alone(export[e].version, {Written(export[e].at)})
      /\ file'[export[e].version][Written(export[e].at)] = Holding(export[e].records)
  BY WriteFiles
<1>5. ASSUME FilesAt(export[e]) PROVE FilesAt(export[e])'
  <2>1. CASE export[e].at = "write_data"
    <3>1. /\ export'[e].at = "write_manifest"
          /\ file'[export[e].version]["temporary_data"] = Holding(export[e].records)
          /\ Absent(export[e].version, {"data", "manifest"})
      BY <1>2, <1>4, <1>5, <2>1 DEF StepAfter, Written, FilesAt
    <3>2. Absent(export[e].version, {"data", "manifest"})'
      BY <1>2, <1>4, <2>1, <3>1 DEF Absent, Alone, Names, Written
    <3> QED
      BY <1>2, <3>1, <3>2 DEF FilesAt
  <2>2. CASE export[e].at = "write_manifest"
    <3>1. /\ export'[e].at = "publish_data"
          /\ file'[export[e].version]["temporary_manifest"] = Holding(export[e].records)
          /\ file[export[e].version]["temporary_data"] = Holding(export[e].records)
          /\ Absent(export[e].version, {"data", "manifest"})
      BY <1>2, <1>4, <1>5, <2>2 DEF StepAfter, Written, FilesAt
    <3>2. /\ Absent(export[e].version, {"data", "manifest"})'
          /\ file'[export[e].version]["temporary_data"] = Holding(export[e].records)
      BY <1>2, <1>4, <2>2, <3>1 DEF Absent, Alone, Names, Written
    <3> QED
      BY <1>2, <3>1, <3>2 DEF FilesAt
  <2> QED
    BY <1>1, <2>1, <2>2
<1> QED
  BY <1>1, <1>2, <1>3, <1>4, <1>5, StaysAtVersion

LEMMA PublishStepFiles ==
    ASSUME ExperienceTypeOK, FilesInv, NEW e \in Exporters,
           NEW v \in Versions \ contested', Publish(e)
    PROVE  FilesOK(v)'
<1>1. /\ export[e].at \in {"publish_data", "publish_manifest"}
      /\ UNCHANGED <<registered, contested, abandoned>>
      /\ Proceed(e)
  BY DEF Publish
<1>2. /\ Same(e)
      /\ export'[e].at = StepAfter(export[e].at)
      /\ export'[e].version = export[e].version
      /\ export'[e].records = export[e].records
  BY <1>1, ProceedMoves
<1>3. export[e].at \in Active /\ export'[e].at \in Active
  BY <1>1, <1>2 DEF Active, Steps, StepAfter
<1>4. PICK names : Alone(export[e].version, names)
  BY PublishFiles
<1>5. ASSUME FilesAt(export[e]) PROVE FilesAt(export[e])'
  <2>1. CASE export[e].at = "publish_data"
    <3>1. /\ Alone(export[e].version, {"temporary_data", "data"})
          /\ file'[export[e].version]["data"]
                = file[export[e].version]["temporary_data"]
          /\ file'[export[e].version]["temporary_data"] = NoFile
      BY <2>1, PublishFiles
    <3>2. /\ export'[e].at = "publish_manifest"
          /\ file[export[e].version]["temporary_manifest"] = Holding(export[e].records)
          /\ file[export[e].version]["temporary_data"] = Holding(export[e].records)
      BY <1>2, <1>5, <2>1 DEF StepAfter, FilesAt
    <3>3. file'[export[e].version]["temporary_manifest"] = Holding(export[e].records)
      BY <3>1, <3>2 DEF Alone, Names
    <3> QED
      BY <1>2, <3>1, <3>2, <3>3 DEF FilesAt, Absent
  <2>2. CASE export[e].at = "publish_manifest"
    <3>1. /\ Alone(export[e].version, {"temporary_manifest", "manifest"})
          /\ file'[export[e].version]["manifest"]
                = file[export[e].version]["temporary_manifest"]
          /\ file'[export[e].version]["temporary_manifest"] = NoFile
      BY <2>2, PublishFiles
    <3>2. /\ export'[e].at = "register"
          /\ file[export[e].version]["temporary_manifest"] = Holding(export[e].records)
          /\ file[export[e].version]["data"] = Holding(export[e].records)
          /\ file[export[e].version]["temporary_data"] = NoFile
      BY <1>2, <1>5, <2>2 DEF StepAfter, FilesAt, Absent
    <3>3. /\ file'[export[e].version]["data"] = Holding(export[e].records)
          /\ file'[export[e].version]["temporary_data"] = NoFile
      BY <3>1, <3>2 DEF Alone, Names
    <3> QED
      BY <1>2, <3>1, <3>2, <3>3 DEF FilesAt, Absent
  <2> QED
    BY <1>1, <2>1, <2>2
<1> QED
  BY <1>1, <1>2, <1>3, <1>4, <1>5, StaysAtVersion

LEMMA FailStepFiles ==
    ASSUME ExperienceTypeOK, FilesInv, NEW e \in Exporters,
           NEW v \in Versions \ contested', ExportFails(e)
    PROVE  FilesOK(v)'
<1>1. /\ export[e].at \in Steps /\ LeftBehind(export[e])
      /\ UNCHANGED <<registered, contested, abandoned>>
      /\ Go(e, "clean_temporary_data")
  BY DEF ExportFails
<1>2. export[e].at \in Active /\ export[e].at # "idle"
      /\ "clean_temporary_data" \in Active
  BY <1>1 DEF Active, Steps, Cleaning
<1>3. /\ Same(e)
      /\ export'[e].at = "clean_temporary_data"
      /\ export'[e].version = export[e].version
  BY <1>1, <1>2, GoMoves
<1>4. Alone(export[e].version, Names)
  BY <1>1, <1>2, UnderWay, LeftBehindFiles
<1>5. FilesAt(export[e])'
  BY <1>3 DEF FilesAt
<1> QED
  BY <1>1, <1>2, <1>3, <1>4, <1>5, StaysAtVersion

LEMMA UnlinkStepFiles ==
    ASSUME ExperienceTypeOK, FilesInv, NEW e \in Exporters,
           NEW v \in Versions \ contested', Unlink(e)
    PROVE  FilesOK(v)'
<1>1. /\ export[e].at \in Cleaning
      /\ UNCHANGED <<registered, contested, abandoned>>
      /\ Go(e, CleaningStep(export[e].at).next)
  BY DEF Unlink
<1>2. export[e].at \in Active /\ export[e].at # "idle"
  BY <1>1 DEF Active, Cleaning
<1>3. /\ Alone(export[e].version, {CleaningStep(export[e].at).name})
      /\ file'[export[e].version][CleaningStep(export[e].at).name] = NoFile
  BY UnlinkFiles
<1>4. CASE export[e].at # "clean_manifest"
  <2>1. CleaningStep(export[e].at).next \in Cleaning
    BY <1>1, <1>4 DEF CleaningStep, Cleaning
  <2>2. CleaningStep(export[e].at).next \in Active
        /\ CleaningStep(export[e].at).next # "idle"
    BY <2>1 DEF Active, Cleaning
  <2>3. /\ Same(e)
        /\ export'[e].at = CleaningStep(export[e].at).next
        /\ export'[e].version = export[e].version
    BY <1>1, <1>2, <2>2, GoMoves
  <2>4. ASSUME FilesAt(export[e]) PROVE FilesAt(export[e])'
    <3>1. CASE export[e].at = "clean_temporary_data"
      <4>1. /\ export'[e].at = "clean_temporary_manifest"
            /\ file'[export[e].version]["temporary_data"] = NoFile
        BY <1>3, <2>3, <3>1 DEF CleaningStep
      <4> QED
        BY <2>3, <4>1 DEF FilesAt, Absent
    <3>2. CASE export[e].at = "clean_temporary_manifest"
      <4>1. /\ export'[e].at = "clean_data"
            /\ file'[export[e].version]["temporary_manifest"] = NoFile
            /\ Alone(export[e].version, {"temporary_manifest"})
            /\ file[export[e].version]["temporary_data"] = NoFile
        BY <1>3, <2>3, <2>4, <3>2 DEF CleaningStep, FilesAt, Absent
      <4>2. file'[export[e].version]["temporary_data"] = NoFile
        BY <4>1 DEF Alone, Names
      <4> QED
        BY <2>3, <4>1, <4>2 DEF FilesAt, Absent
    <3>3. CASE export[e].at = "clean_data"
      <4>1. /\ export'[e].at = "clean_manifest"
            /\ file'[export[e].version]["data"] = NoFile
            /\ Alone(export[e].version, {"data"})
            /\ file[export[e].version]["temporary_data"] = NoFile
            /\ file[export[e].version]["temporary_manifest"] = NoFile
        BY <1>3, <2>3, <2>4, <3>3 DEF CleaningStep, FilesAt, Absent
      <4>2. /\ file'[export[e].version]["temporary_data"] = NoFile
            /\ file'[export[e].version]["temporary_manifest"] = NoFile
        BY <4>1 DEF Alone, Names
      <4> QED
        BY <2>3, <4>1, <4>2 DEF FilesAt, Absent
    <3> QED
      BY <1>1, <1>4, <3>1, <3>2, <3>3 DEF Cleaning
  <2>5. export'[e].at \in Active
    BY <2>2, <2>3
  <2> QED
    BY <1>1, <1>2, <1>3, <2>3, <2>4, <2>5, StaysAtVersion
<1>5. CASE export[e].at = "clean_manifest"
  <2>1. Go(e, "idle")
    BY <1>1, <1>5 DEF CleaningStep
  <2>2. Same(e) /\ export'[e].at = "idle"
    BY <1>2, <2>1, GoMoves, NoExportIsIdle
  <2>3. Grows /\ NoRow(v) /\ v \in Versions \ contested
    BY <1>1 DEF Grows, NoRow
  <2>4. CASE v # export[e].version
    BY <1>3, <2>2, <2>3, <2>4, OtherVersion DEF Alone
  <2>5. CASE v = export[e].version
    <3>1. IsAt(e, v) /\ ~IsAt(e, v)'
      BY <1>2, <2>2, <2>5, NotActive DEF IsAt
    <3>2. FilesAt(export[e])
      BY <2>3, <3>1, AloneAt
    <3>3. /\ file[v]["temporary_data"] = NoFile
          /\ file[v]["temporary_manifest"] = NoFile
          /\ file[v]["data"] = NoFile
      BY <1>5, <2>5, <3>2 DEF FilesAt, Absent
    <3>4. Alone(v, {"manifest"}) /\ file'[v]["manifest"] = NoFile
      BY <1>3, <1>5, <2>5 DEF CleaningStep
    <3>5. \A n \in Names : file'[v][n] = NoFile
      BY <3>3, <3>4 DEF Alone, Names
    <3>6. file'[v] = NoFiles
      BY <3>4, <3>5 DEF Alone, NoFiles
    <3> QED
      BY <2>2, <2>3, <3>1, <3>6, VersionLeft
  <2> QED
    BY <2>4, <2>5
<1> QED
  BY <1>4, <1>5

\* The commit of the row, whether the process then goes on or not.
LEMMA InsertStepFiles ==
    ASSUME ExperienceTypeOK, FilesInv, NEW e \in Exporters,
           NEW v \in Versions \ contested',
           export[e].at = "register", InsertDataset(export[e]),
           Go(e, "idle"), UNCHANGED <<file, contested>>,
           abandoned \subseteq abandoned'
    PROVE  FilesOK(v)'
<1>1. PICK c \in export[e].criteria : registered' = registered \cup
            {[version |-> export[e].version, criteria |-> c,
              records |-> export[e].records, begun |-> export[e].begun]}
  BY DEF InsertDataset
<1>2. Same(e) /\ export'[e].at = "idle" /\ export[e].at \in Active
  BY GoMoves, NoExportIsIdle DEF Active, Steps
<1>3. Grows /\ v \in Versions \ contested
  BY <1>1 DEF Grows
<1>4. CASE v # export[e].version
  <2>1. NoRow(v)
    BY <1>1, <1>4 DEF NoRow
  <2> QED
    BY <1>2, <1>3, <1>4, <2>1, OtherVersion
<1>5. CASE v = export[e].version
  <2>1. IsAt(e, v) /\ ~IsAt(e, v)'
    BY <1>2, <1>5, NotActive DEF IsAt
  <2>2. FilesAt(export[e])
    BY <1>3, <2>1, AloneAt
  <2>3. /\ file[v]["data"] = Holding(export[e].records)
        /\ file[v]["manifest"] = Holding(export[e].records)
    BY <1>5, <2>2 DEF FilesAt
  <2> DEFINE d == [version |-> export[e].version, criteria |-> c,
                   records |-> export[e].records, begun |-> export[e].begun]
  <2>4. PICK row : row = d
    OBVIOUS
  <2>5. /\ row \in registered' /\ row.version = v
        /\ row.records = export[e].records
        /\ \A b \in registered' : b.version = v => b \in registered \/ b = row
    BY <1>1, <1>5, <2>4
  <2>6. Published(row)'
    BY <2>3, <2>5 DEF Published
  <2> QED
    BY <1>2, <1>3, <2>1, <2>5, <2>6, VersionLeft
<1> QED
  BY <1>4, <1>5

LEMMA CutOffFiles ==
    ASSUME ExperienceTypeOK, FilesInv, NEW e \in Exporters,
           NEW v \in Versions \ contested', CutOff(e)
    PROVE  FilesOK(v)'
<1>1. /\ export[e].at \in Steps \cup Cleaning /\ Go(e, "idle")
      /\ abandoned' = abandoned \cup {export[e].version}
      /\ contested' = contested
  BY DEF CutOff
<1>2. CASE LeftBehind(export[e]) /\ UNCHANGED registered
  <2>1. Grows /\ NoRow(v) /\ v \in Versions \ contested
    BY <1>1, <1>2 DEF Grows, NoRow
  <2>2. export[e].at \in Active /\ export[e].at # "idle"
    BY <1>1 DEF Active, Steps, Cleaning
  <2>3. Same(e) /\ export'[e].at = "idle"
    BY <1>1, <2>2, GoMoves, NoExportIsIdle
  <2>4. Alone(export[e].version, Names)
    BY <1>2, <2>2, UnderWay, LeftBehindFiles
  <2>5. CASE v # export[e].version
    BY <2>1, <2>3, <2>4, <2>5, OtherVersion DEF Alone
  <2>6. CASE v = export[e].version
    <3>1. IsAt(e, v) /\ ~IsAt(e, v)' /\ v \in abandoned'
      BY <1>1, <2>2, <2>3, <2>6, NotActive DEF IsAt
    <3> QED
      BY <2>1, <2>3, <3>1, VersionLeft
  <2> QED
    BY <2>5, <2>6
<1>3. CASE export[e].at = "register" /\ InsertDataset(export[e]) /\ UNCHANGED file
  BY <1>1, <1>3, InsertStepFiles
<1> QED
  BY <1>2, <1>3 DEF CutOff

LEMMA ExportStepFiles ==
    ASSUME ExperienceTypeOK, FilesInv, NEW e \in Exporters, ExportStep(e),
           NEW v \in Versions \ contested'
    PROVE  FilesOK(v)'
<1>1. CASE Register(e)
  <2>1. /\ export[e].at = "register" /\ InsertDataset(export[e]) /\ Go(e, "idle")
        /\ UNCHANGED <<file, contested, abandoned>>
    BY <1>1 DEF Register, Proceed, StepAfter
  <2> QED
    BY <2>1, InsertStepFiles
<1> QED
  BY <1>1, BeginFiles, CheckPathsFiles, SelectStepFiles, WriteStepFiles,
     PublishStepFiles, FailStepFiles, UnlinkStepFiles, CutOffFiles DEF ExportStep

LEMMA FilesStep == ExperienceTypeOK /\ FilesInv /\ [Next]_vars => FilesInv'
<1> SUFFICES ASSUME ExperienceTypeOK, FilesInv, [Next]_vars
             PROVE  FilesInv'
  OBVIOUS
<1>1. ASSUME NEW e \in Exporters, ExportStep(e)
      PROVE  FilesInv'
  BY <1>1, ExportStepFiles DEF FilesInv
<1>2. CASE UNCHANGED <<file, registered, export, contested, abandoned>>
  BY <1>2 DEF FilesInv, FilesOK, IsAt, FilesAt, Absent, Published, IsRegistered
<1>3. ASSUME NEW r \in Runs, RecordRunSummary(r) \/ AddHumanFeedback(r)
      PROVE  UNCHANGED <<file, registered, export, contested, abandoned>>
  BY <1>3 DEF RecordRunSummary, AddHumanFeedback
<1>4. CASE AssessCandidatePromotion \/ UNCHANGED vars
  BY <1>2, <1>4 DEF AssessCandidatePromotion, vars
<1> QED
  BY <1>1, <1>2, <1>3, <1>4 DEF Next

LEMMA InitFiles == Init => FilesInv
<1> SUFFICES ASSUME Init PROVE FilesInv
  OBVIOUS
<1>1. \A e \in Exporters, v \in Versions : ~IsAt(e, v)
  BY NoExportIsIdle, NotActive DEF Init, IsAt
<1>2. registered = {} /\ \A v \in Versions : file[v] = NoFiles
  BY DEF Init
<1> QED
  BY <1>1, <1>2 DEF FilesInv, FilesOK

\* A version that no two exports were at together has the files of its dataset
\* once it is registered, and none before, but for an export that is under way
\* or was cut off.
THEOREM FilesFollowTheRegister == Spec => []RegisteredIsPublished
<1>1. Spec => []FilesInv
  BY InitFiles, FilesStep, ExperienceTypeCorrect, PTL DEF Spec
<1>2. FilesInv => RegisteredIsPublished
  BY DEF FilesInv, FilesOK, RegisteredIsPublished, Published, IsAt
<1> QED
  BY <1>1, <1>2, PTL

================================================================================
