-------------------------- MODULE ApplicationProofs --------------------------
(***************************************************************************)
(* Theorems about Application for any matches, workers, profiles, resumes  *)
(* and number of runs.                                                     *)
(***************************************************************************)
EXTENDS Application, TLAPS

(* The shape of a run: before its resume is written, and from then on.      *)
EarlyStages == {"sheet", "extract", "resume"}
LateStages == {"again", "letter", "plain", "covered", "cover", "delete", "deleteCovered",
               "insert", "insertCovered"}
Early == [at : EarlyStages, m : Matches, n : 1..MaxRuns, profile : Profiles]
Late == [at : LateStages, m : Matches, n : 1..MaxRuns, profile : Profiles, resume : Resumes,
         attempts : {1, 2}, warnings : SUBSET Warnings, found : SUBSET Lints]
RunType == run \in [Workers -> {Idle} \cup Early \cup Late]

\* A worker that has a resume has its warnings, and past the second attempt it
\* is one to store.
ToStore(r) == Acceptable(r.warnings) \/ r.attempts = 2
Warned ==
    \A w \in Workers : run[w] \in Late =>
        /\ run[w].warnings = ValidateStructuredResume(run[w].resume, run[w].profile.layout)
        /\ run[w].at # "again" => ToStore(run[w])

RowsInv == RunType /\ TypeOK /\ Warned /\ WarningsAreItsOwn

-----------------------------------------------------------------------------
LEMMA Validated ==
    \A r \in Resumes, l \in Layouts : ValidateStructuredResume(r, l) \in SUBSET Warnings
BY DEF ValidateStructuredResume, Warnings

LEMMA StageOf ==
    ASSUME RunType, NEW w \in Workers
    PROVE  /\ run[w].at \in EarlyStages => run[w] \in Early
           /\ run[w].at \in LateStages => run[w] \in Late
           /\ run[w].at \in Stages /\ run[w].n \in 0..MaxRuns
<1>1. run[w] = Idle \/ run[w] \in Early \/ run[w] \in Late
  BY DEF RunType
<1>2. CASE run[w] = Idle
  <2>1. run[w].at = "idle" /\ run[w].n = 0
    BY <1>2 DEF Idle
  <2> QED BY <2>1, RunsAssumption DEF EarlyStages, LateStages, Stages
<1>3. CASE run[w] \in Early
  <2>1. run[w].at \in EarlyStages /\ run[w].n \in 1..MaxRuns
    BY <1>3 DEF Early
  <2> QED BY <1>3, <2>1, RunsAssumption DEF EarlyStages, LateStages, Stages
<1>4. CASE run[w] \in Late
  <2>1. run[w].at \in LateStages /\ run[w].n \in 1..MaxRuns
    BY <1>4 DEF Late
  <2> QED BY <1>4, <2>1, RunsAssumption DEF EarlyStages, LateStages, Stages
<1> QED BY <1>1, <1>2, <1>3, <1>4

\* A step to another stage of the same part keeps all else of the run.
LEMMA GoesKeeps ==
    ASSUME RunType, NEW w \in Workers, NEW s, Goes(w, s),
           \/ run[w] \in Early /\ s \in EarlyStages
           \/ run[w] \in Late /\ s \in LateStages
    PROVE  /\ RunType'
           /\ \A v \in Workers \ {w} : run'[v] = run[v]
           /\ run'[w] = [run[w] EXCEPT !.at = s] /\ run'[w].at = s
           /\ run'[w].m = run[w].m /\ run'[w].n = run[w].n /\ run'[w].profile = run[w].profile
<1>1. run' = [run EXCEPT ![w] = [run[w] EXCEPT !.at = s]]
  BY DEF Goes
<1>2. CASE run[w] \in Early /\ s \in EarlyStages
  BY <1>1, <1>2 DEF RunType, Early
<1>3. CASE run[w] \in Late /\ s \in LateStages
  BY <1>1, <1>3 DEF RunType, Late
<1> QED BY <1>2, <1>3

\* A run that is late after such a step was late before, with the same resume.
LEMMA GoesWarned ==
    ASSUME RunType, Warned, NEW w \in Workers, NEW s, Goes(w, s),
           \/ run[w] \in Early /\ s \in EarlyStages
           \/ run[w] \in Late /\ s \in LateStages /\ run[w].at # "again"
    PROVE  RunType' /\ Warned'
<1>1. RunType' /\ run'[w] = [run[w] EXCEPT !.at = s] /\ \A v \in Workers \ {w} : run'[v] = run[v]
  BY GoesKeeps
<1>2. CASE run[w] \in Early /\ s \in EarlyStages
  <2>1. run'[w].at \in EarlyStages
    BY <1>1, <1>2 DEF Early
  <2>2. run'[w] \notin Late
    BY <2>1 DEF Late, EarlyStages, LateStages
  <2> QED BY <1>1, <2>2 DEF Warned
<1>3. CASE run[w] \in Late /\ run[w].at # "again"
  <2>1. /\ run'[w].warnings = run[w].warnings /\ run'[w].resume = run[w].resume
        /\ run'[w].profile = run[w].profile /\ run'[w].attempts = run[w].attempts
    BY <1>1, <1>3 DEF Late
  <2>2. /\ run'[w].warnings = ValidateStructuredResume(run'[w].resume, run'[w].profile.layout)
        /\ ToStore(run'[w])
    BY <1>3, <2>1 DEF Warned, ToStore
  <2> QED BY <1>1, <2>2 DEF Warned
<1> QED BY <1>2, <1>3

LEMMA StageNext ==
    ASSUME RunType', NEW w \in Workers PROVE run'[w].at \in Stages /\ run'[w].n \in 0..MaxRuns
<1>1. run'[w] = Idle \/ run'[w] \in Early \/ run'[w] \in Late
  BY DEF RunType
<1>2. CASE run'[w] = Idle
  BY <1>2, RunsAssumption DEF Idle, Stages
<1>3. CASE run'[w] \in Early
  BY <1>3, RunsAssumption DEF Early, EarlyStages, Stages
<1>4. CASE run'[w] \in Late
  BY <1>4, RunsAssumption DEF Late, LateStages, Stages
<1> QED BY <1>1, <1>2, <1>3, <1>4

\* The shape of the state but for the runs.
LEMMA TypeFrom ==
    ASSUME RunType', profile' \in Profiles, sheet' \in [DOMAIN Posting -> 0..MaxRuns],
           files' \in [Keys -> {None} \cup [run : 1..MaxRuns, m : Matches]],
           app' \in [Matches -> {None} \cup Row], started' \in [Matches -> 0..MaxRuns],
           runs' \in 0..MaxRuns, shown' \in [Matches -> 0..MaxRuns]
    PROVE  TypeOK'
<1>1. \A w \in Workers : run'[w].at \in Stages /\ run'[w].n \in 0..MaxRuns
  BY StageNext
<1> QED BY <1>1 DEF TypeOK

LEMMA InitRows == Init => RowsInv
<1> SUFFICES ASSUME Init PROVE RowsInv
  OBVIOUS
<1>1. RunType /\ Warned
  BY DEF Init, RunType, Warned, Idle, Late, LateStages
<1>2. TypeOK
  BY RunsAssumption DEF Init, TypeOK, Idle, Stages
<1>3. WarningsAreItsOwn
  BY DEF Init, WarningsAreItsOwn
<1> QED BY <1>1, <1>2, <1>3 DEF RowsInv

-----------------------------------------------------------------------------
(* One lemma per step of a run.                                             *)

\* The form's answers change nothing else of the run.
LEMMA AnswerKeeps ==
    ASSUME RunType, NEW w \in Workers, AnswerForm(w)
    PROVE  /\ RunType' /\ run[w] \in Late /\ run[w].at # "again"
           /\ run'[w] \in Late /\ run'[w].at \in {"plain", "covered"}
           /\ run'[w].m = run[w].m /\ run'[w].n = run[w].n /\ run'[w].profile = run[w].profile
           /\ run'[w].resume = run[w].resume /\ run'[w].warnings = run[w].warnings
           /\ run'[w].attempts = run[w].attempts
           /\ \A v \in Workers \ {w} : run'[v] = run[v]
<1>1. run[w] \in Late /\ run[w].at # "again"
  BY StageOf DEF AnswerForm, At, LateStages
<1>2. PICK s \in {"plain", "covered"}, found \in SUBSET Lints :
        run' = [run EXCEPT ![w] = [run[w] EXCEPT !.at = s, !.found = found]]
  BY DEF AnswerForm
<1> DEFINE new == [run[w] EXCEPT !.at = s, !.found = found]
<1>3. /\ new \in Late /\ new.at = s
      /\ new.m = run[w].m /\ new.n = run[w].n /\ new.profile = run[w].profile
      /\ new.resume = run[w].resume /\ new.warnings = run[w].warnings
      /\ new.attempts = run[w].attempts
  BY <1>1 DEF Late, LateStages
<1>4. run' = [run EXCEPT ![w] = new]
  BY <1>2
<1> HIDE DEF new
<1>5. RunType' /\ run'[w] = new /\ \A v \in Workers \ {w} : run'[v] = run[v]
  BY <1>3, <1>4 DEF RunType
<1> QED BY <1>1, <1>3, <1>5

LEMMA AnswerRows == ASSUME RowsInv, NEW w \in Workers, AnswerForm(w) PROVE RowsInv'
<1> USE DEF RowsInv
<1>1. RunType' /\ Warned'
  BY AnswerKeeps DEF Warned, ToStore
<1>2. TypeOK'
  BY <1>1, TypeFrom DEF TypeOK, AnswerForm
<1>3. WarningsAreItsOwn'
  BY DEF WarningsAreItsOwn, AnswerForm
<1> QED BY <1>1, <1>2, <1>3

LEMMA FetchRows ==
    ASSUME RowsInv, NEW w \in Workers, NEW m \in Matches, fetchTailorInput(w, m) PROVE RowsInv'
<1> USE DEF RowsInv
<1>1. runs + 1 \in 1..MaxRuns
  BY RunsAssumption DEF TypeOK, fetchTailorInput
<1>2. [at |-> "sheet", m |-> m, n |-> runs + 1, profile |-> profile] \in Early
  BY <1>1 DEF Early, EarlyStages, TypeOK
<1>3. run'[w].at = "sheet"
  BY DEF RunType, fetchTailorInput
<1>4. run'[w] \notin Late
  BY <1>3 DEF Late, LateStages
<1>5. RunType' /\ Warned'
  BY <1>2, <1>4 DEF RunType, Warned, fetchTailorInput
<1>6. TypeOK'
  BY <1>1, <1>5, TypeFrom DEF TypeOK, fetchTailorInput
<1>7. WarningsAreItsOwn'
  BY DEF WarningsAreItsOwn, fetchTailorInput
<1> QED BY <1>5, <1>6, <1>7

LEMMA SheetRows ==
    ASSUME RowsInv, NEW w \in Workers, getJdRequirements(w) \/ upsertJdRequirements(w)
    PROVE  RowsInv'
<1> USE DEF RowsInv
<1>1. run[w] \in Early
  BY StageOf DEF getJdRequirements, upsertJdRequirements, At, EarlyStages
<1>2. PICK s \in EarlyStages : Goes(w, s)
  BY DEF getJdRequirements, upsertJdRequirements, EarlyStages
<1>3. RunType' /\ Warned'
  BY <1>1, <1>2, GoesWarned
<1>4. sheet' \in [DOMAIN Posting -> 0..MaxRuns]
  <2>1. run[w].n \in 0..MaxRuns
    BY StageOf
  <2> QED BY <2>1 DEF TypeOK, getJdRequirements, upsertJdRequirements
<1>5. TypeOK'
  BY <1>3, <1>4, TypeFrom DEF TypeOK, getJdRequirements, upsertJdRequirements
<1>6. WarningsAreItsOwn'
  BY DEF WarningsAreItsOwn, getJdRequirements, upsertJdRequirements
<1> QED BY <1>3, <1>5, <1>6

\* What is written has the warnings of its resume; only a first attempt that is
\* not acceptable is written again.
LEMMA WriteRows ==
    ASSUME RowsInv, NEW w \in Workers, WriteStructuredResume(w) \/ WriteAgain(w)
    PROVE  RowsInv'
<1> USE DEF RowsInv
<1>1. run[w] \in Early \/ run[w] \in Late
  BY StageOf DEF WriteStructuredResume, WriteAgain, At, EarlyStages, LateStages
<1>2. run[w].m \in Matches /\ run[w].n \in 1..MaxRuns /\ run[w].profile \in Profiles
  BY <1>1 DEF Early, Late
<1>3. PICK r \in Resumes, new \in Late :
        /\ run' = [run EXCEPT ![w] = new]
        /\ new.warnings = ValidateStructuredResume(new.resume, new.profile.layout)
        /\ new.at # "again" => ToStore(new)
  <2>1. ASSUME NEW r \in Resumes, NEW k \in {1, 2}
        PROVE  /\ Written(r, w, k) \in Late
               /\ Written(r, w, k).at = "letter" /\ Written(r, w, k).attempts = k
               /\ Written(r, w, k).resume = r /\ Written(r, w, k).profile = run[w].profile
               /\ Written(r, w, k).warnings = ValidateStructuredResume(r, run[w].profile.layout)
    <3>1. ValidateStructuredResume(r, run[w].profile.layout) \in SUBSET Warnings
      BY <1>2, Validated, ProfilesAssumption
    <3> QED BY <1>2, <3>1 DEF Written, Late, LateStages
  <2>2. CASE WriteAgain(w)
    <3>1. PICK r \in Resumes : run' = [run EXCEPT ![w] = Written(r, w, 2)]
      BY <2>2 DEF WriteAgain
    <3> DEFINE new == Written(r, w, 2)
    <3>2. /\ new \in Late /\ new.attempts = 2
          /\ new.warnings = ValidateStructuredResume(new.resume, new.profile.layout)
      BY <2>1
    <3>3. run' = [run EXCEPT ![w] = new]
      BY <3>1
    <3> HIDE DEF new
    <3> QED BY <3>2, <3>3 DEF ToStore
  <2>3. CASE WriteStructuredResume(w)
    <3>1. PICK r \in Resumes :
            run' = [run EXCEPT ![w] =
                      [Written(r, w, 1) EXCEPT !.at = IF Acceptable(Written(r, w, 1).warnings)
                                                      THEN "letter" ELSE "again"]]
      BY <2>3 DEF WriteStructuredResume
    <3> DEFINE old == Written(r, w, 1)
               s == IF Acceptable(old.warnings) THEN "letter" ELSE "again"
               new == [old EXCEPT !.at = s]
    <3>2. old \in Late /\ old.warnings = ValidateStructuredResume(old.resume, old.profile.layout)
      BY <2>1
    <3> HIDE DEF old
    <3>3. s \in LateStages /\ (s # "again" => Acceptable(old.warnings))
      BY DEF LateStages
    <3> HIDE DEF s
    <3>4. /\ new \in Late /\ new.at = s /\ new.warnings = old.warnings
          /\ new.resume = old.resume /\ new.profile = old.profile
      BY <3>2, <3>3 DEF Late
    <3>5. run' = [run EXCEPT ![w] = new]
      BY <3>1 DEF old, s
    <3> HIDE DEF new
    <3> QED BY <3>2, <3>3, <3>4, <3>5 DEF ToStore
  <2> QED BY <2>2, <2>3
<1>4. RunType' /\ Warned'
  BY <1>3 DEF RunType, Warned
<1>5. TypeOK'
  BY <1>4, TypeFrom DEF TypeOK, WriteStructuredResume, WriteAgain
<1>6. WarningsAreItsOwn'
  BY DEF WarningsAreItsOwn, WriteStructuredResume, WriteAgain
<1> QED BY <1>4, <1>5, <1>6

\* Later steps before the row is inserted.
LEMMA LateRows ==
    ASSUME RowsInv, NEW w \in Workers,
           uploadResumePDF(w) \/ uploadCoverLetterPDF(w) \/ DeleteRow(w)
    PROVE  RowsInv'
<1> USE DEF RowsInv
<1>1. run[w] \in Late /\ run[w].at # "again"
  BY StageOf DEF uploadResumePDF, uploadCoverLetterPDF, DeleteRow, At, LateStages
<1>2. PICK s \in LateStages : Goes(w, s)
  BY DEF uploadResumePDF, uploadCoverLetterPDF, DeleteRow, LateStages
<1>3. RunType' /\ Warned'
  BY <1>1, <1>2, GoesWarned
<1>4. run[w].m \in Matches /\ run[w].n \in 1..MaxRuns
  BY <1>1 DEF Late
<1>5. files' \in [Keys -> {None} \cup [run : 1..MaxRuns, m : Matches]]
  BY <1>4 DEF TypeOK, uploadResumePDF, uploadCoverLetterPDF, DeleteRow, Put
<1>6. app' = app \/ app' = [app EXCEPT ![run[w].m] = None]
  BY DEF uploadResumePDF, uploadCoverLetterPDF, DeleteRow
<1>7. TypeOK'
  BY <1>3, <1>5, <1>6, TypeFrom
     DEF TypeOK, uploadResumePDF, uploadCoverLetterPDF, DeleteRow
<1>8. WarningsAreItsOwn'
  BY <1>6 DEF WarningsAreItsOwn, TypeOK
<1> QED BY <1>3, <1>7, <1>8

LEMMA KeysOfRun ==
    ASSUME NEW m \in Matches, NEW p \in Profiles
    PROVE  ResumeKey(p.name, m) \in Keys /\ CoverKey(p.name, m) \in Keys
BY DEF ResumeKey, CoverKey, Keys, Names

LEMMA NewRowType ==
    ASSUME RunType, NEW w \in Workers, run[w] \in Late
    PROVE  NewRow(w) \in Row
<1>1. /\ run[w].m \in Matches /\ run[w].n \in 1..MaxRuns /\ run[w].profile \in Profiles
      /\ run[w].resume \in Resumes /\ run[w].attempts \in {1, 2}
      /\ run[w].warnings \in SUBSET Warnings /\ run[w].found \in SUBSET Lints
  BY DEF Late
<1>2. run[w].profile.layout \in Layouts
  BY <1>1, ProfilesAssumption
<1> QED BY <1>1, <1>2, KeysOfRun DEF NewRow, Row

LEMMA InsertRows ==
    ASSUME RowsInv, NEW w \in Workers, InsertRow(w) PROVE RowsInv'
<1> USE DEF RowsInv
<1>1. run[w] \in Late /\ run[w].at # "again"
  BY StageOf DEF InsertRow, LateStages
<1>2. RunType' /\ Warned'
  <2>1. Idle \notin Late
    BY DEF Idle, Late, LateStages
  <2> QED BY <2>1 DEF RunType, Warned, InsertRow
<1>3. NewRow(w) \in Row /\ run[w].m \in Matches
  BY <1>1, NewRowType DEF Late
<1>4. LET warnings == ValidateStructuredResume(NewRow(w).resume, NewRow(w).layout)
      IN  /\ NewRow(w).warnings = warnings \cup NewRow(w).answers
          /\ Acceptable(warnings) \/ NewRow(w).attempts = 2
  BY <1>1 DEF Warned, ToStore, NewRow
<1>5. app' = [app EXCEPT ![run[w].m] = NewRow(w)]
  BY DEF InsertRow
<1>6. TypeOK'
  BY <1>2, <1>3, <1>5, TypeFrom DEF TypeOK, InsertRow
<1>7. WarningsAreItsOwn'
  BY <1>3, <1>4, <1>5 DEF WarningsAreItsOwn, TypeOK
<1> QED BY <1>2, <1>6, <1>7

LEMMA FailRows ==
    ASSUME RowsInv, NEW w \in Workers, RunFails(w) PROVE RowsInv'
<1> USE DEF RowsInv
<1>1. RunType' /\ Warned'
  <2>1. Idle \notin Late
    BY DEF Idle, Late, LateStages
  <2> QED BY <2>1 DEF RunType, Warned, RunFails
<1>2. TypeOK'
  BY <1>1, TypeFrom DEF TypeOK, RunFails
<1> QED BY <1>1, <1>2 DEF WarningsAreItsOwn, RunFails

-----------------------------------------------------------------------------
(* The user's requests.                                                     *)

Requests ==
    \/ SubmitProfile \/ GetApplications
    \/ \E m \in Matches, sent \in BOOLEAN : PatchApplicationMarkSent(m, sent)

\* A mark changes nothing else of a row.
LEMMA MarkKeeps ==
    ASSUME TypeOK, NEW m \in Matches, NEW sent \in BOOLEAN, PatchApplicationMarkSent(m, sent)
    PROVE  /\ app' \in [Matches -> {None} \cup Row]
           /\ \A k \in Matches : app[k] = None <=> app'[k] = None
           /\ \A k \in Matches : app[k] # None =>
                /\ app'[k].run = app[k].run /\ app'[k].file = app[k].file
                /\ app'[k].covers = app[k].covers /\ app'[k].warnings = app[k].warnings
                /\ app'[k].resume = app[k].resume /\ app'[k].layout = app[k].layout
                /\ app'[k].attempts = app[k].attempts /\ app'[k].answers = app[k].answers
<1>1. CASE app' = app
  BY <1>1 DEF TypeOK
<1>2. CASE app[m].run = shown[m] /\ app' = [app EXCEPT ![m].sent = sent]
  <2>1. app[m] \in Row
    <3>1. app[m] # None
      BY <1>2 DEF PatchApplicationMarkSent, None
    <3> QED BY <3>1 DEF TypeOK
  <2>2. [app[m] EXCEPT !.sent = sent] \in Row
    BY <2>1 DEF Row
  <2>3. \A row \in Row : row # None
    <3>1. \A row \in Row : row.run \in 1..MaxRuns
      BY DEF Row
    <3> QED BY <3>1, RunsAssumption DEF None
  <2>4. app' = [app EXCEPT ![m] = [app[m] EXCEPT !.sent = sent]]
    BY <1>2
  <2>5. LET new == [app[m] EXCEPT !.sent = sent]
        IN  /\ new.run = app[m].run /\ new.file = app[m].file
            /\ new.covers = app[m].covers /\ new.warnings = app[m].warnings
            /\ new.resume = app[m].resume /\ new.layout = app[m].layout
            /\ new.attempts = app[m].attempts /\ new.answers = app[m].answers
    BY <2>1 DEF Row
  <2> QED BY <2>1, <2>2, <2>3, <2>4, <2>5 DEF TypeOK
<1> QED BY <1>1, <1>2 DEF PatchApplicationMarkSent

LEMMA RequestRows == ASSUME RowsInv, Requests PROVE RowsInv'
<1> USE DEF RowsInv
<1>1. run' = run
  BY DEF Requests, SubmitProfile, GetApplications, PatchApplicationMarkSent
<1>2. RunType' /\ Warned'
  BY <1>1 DEF RunType, Warned
<1>3. CASE SubmitProfile
  BY <1>2, <1>3, TypeFrom DEF SubmitProfile, TypeOK, WarningsAreItsOwn
<1>4. CASE GetApplications
  <2>1. \A m \in Matches : app[m].run \in 0..MaxRuns
    <3>1. None.run = 0 /\ \A row \in Row : row.run \in 1..MaxRuns
      BY DEF None, Row
    <3> QED BY <3>1, RunsAssumption DEF TypeOK
  <2> QED BY <1>2, <1>4, <2>1, TypeFrom DEF GetApplications, TypeOK, WarningsAreItsOwn
<1>5. ASSUME NEW m \in Matches, NEW sent \in BOOLEAN, PatchApplicationMarkSent(m, sent)
      PROVE  RowsInv'
  <2>1. TypeOK'
    BY <1>2, <1>5, MarkKeeps, TypeFrom DEF TypeOK, PatchApplicationMarkSent
  <2>2. WarningsAreItsOwn'
    BY <1>5, MarkKeeps DEF WarningsAreItsOwn
  <2> QED BY <1>2, <2>1, <2>2
<1> QED BY <1>3, <1>4, <1>5 DEF Requests

LEMMA RowsStep == RowsInv /\ [Next]_vars => RowsInv'
<1> SUFFICES ASSUME RowsInv, [Next]_vars PROVE RowsInv'
  OBVIOUS
<1>1. CASE UNCHANGED vars
  BY <1>1 DEF vars, RowsInv, RunType, TypeOK, Warned, ToStore, WarningsAreItsOwn
<1>2. CASE Next
  BY <1>2, FetchRows, SheetRows, WriteRows, AnswerRows, LateRows, InsertRows, FailRows,
     RequestRows
     DEF Next, Requests
<1> QED BY <1>1, <1>2

-----------------------------------------------------------------------------

\* For any profiles, resumes and overlapping runs: the warnings that are stored
\* with an application are those of the resume and of the answers stored with it,
\* and no resume is stored that failed its checks and was not written again.
THEOREM RowsAreChecked == Spec => []RowInv
<1>1. RowsInv => RowInv
  BY DEF RowsInv, RowInv
<1> QED BY <1>1, InitRows, RowsStep, PTL DEF Spec

\* A sheet that is stored, and that no run is about to replace, stays, whatever
\* the lock does.
THEOREM SheetsSettle == Spec => SheetSettles
<1> DEFINE Settled(j) == sheet[j] # 0 /\ \A w \in Workers : At(w, "extract") => Job[run[w].m] # j
           Stays(j) == sheet'[j] = sheet[j] /\ \A w \in Workers :
                          ~At(w, "extract") /\ run'[w].at = "extract" => Job[run[w].m] # j
<1>1. ASSUME RowsInv, [Next]_vars, NEW j \in DOMAIN Posting, Settled(j)
      PROVE  Stays(j)
  <2> USE <1>1 DEF RowsInv
  <2>1. CASE run' = run /\ sheet' = sheet
    BY <2>1 DEF At
  <2>2. ASSUME NEW v \in Workers, run'[v].at # "extract", sheet' = sheet,
               \A w \in Workers \ {v} : run'[w] = run[w]
        PROVE  Stays(j)
    BY <2>2 DEF At
  <2>3. ASSUME NEW v \in Workers, upsertJdRequirements(v) PROVE Stays(j)
    <3>1. run[v] \in Early
      BY <2>3, StageOf DEF upsertJdRequirements, At, EarlyStages
    <3>2. run'[v].at = "resume" /\ \A w \in Workers \ {v} : run'[w] = run[w]
      BY <2>3, <3>1, GoesKeeps DEF upsertJdRequirements, EarlyStages
    <3>3. sheet'[j] = sheet[j]
      BY <2>3 DEF upsertJdRequirements, TypeOK
    <3> QED BY <3>2, <3>3 DEF At
  <2>4. ASSUME NEW v \in Workers, getJdRequirements(v) PROVE Stays(j)
    <3>1. run[v] \in Early
      BY <2>4, StageOf DEF getJdRequirements, At, EarlyStages
    <3>2. PICK s \in {"extract", "resume"} :
             Goes(v, s) /\ (s = "extract" => sheet[Job[run[v].m]] = 0)
      BY <2>4 DEF getJdRequirements
    <3>3. run'[v].at = s /\ \A w \in Workers \ {v} : run'[w] = run[w]
      BY <3>1, <3>2, GoesKeeps DEF EarlyStages
    <3> QED BY <2>4, <3>2, <3>3 DEF At, getJdRequirements
  <2>5. ASSUME NEW v \in Workers,
               uploadResumePDF(v) \/ uploadCoverLetterPDF(v) \/ DeleteRow(v)
        PROVE  Stays(j)
    <3>1. run[v] \in Late
      BY <2>5, StageOf DEF uploadResumePDF, uploadCoverLetterPDF, DeleteRow, At,
         LateStages
    <3>2. PICK s \in LateStages : Goes(v, s)
      BY <2>5 DEF uploadResumePDF, uploadCoverLetterPDF, DeleteRow, LateStages
    <3>3. run'[v].at = s /\ \A w \in Workers \ {v} : run'[w] = run[w]
      BY <3>1, <3>2, GoesKeeps
    <3>4. sheet' = sheet
      BY <2>5 DEF uploadResumePDF, uploadCoverLetterPDF, DeleteRow
    <3> QED BY <2>2, <3>3, <3>4 DEF LateStages
  <2>6. ASSUME NEW v \in Workers, WriteStructuredResume(v) \/ WriteAgain(v) PROVE Stays(j)
    <3>1. run'[v].at # "extract"
      <4>1. \A r \in Resumes : Written(r, v, 1).at = "letter" /\ Written(r, v, 2).at = "letter"
        BY DEF Written
      <4>2. ASSUME NEW r \in Resumes, NEW s \in {"letter", "again"}
            PROVE  [Written(r, v, 1) EXCEPT !.at = s].at = s
        BY DEF Written
      <4>3. PICK r \in Resumes, s \in {"letter", "again"} :
               \/ run' = [run EXCEPT ![v] = [Written(r, v, 1) EXCEPT !.at = s]]
               \/ run' = [run EXCEPT ![v] = Written(r, v, 2)]
        BY <2>6 DEF WriteStructuredResume, WriteAgain
      <4> QED BY <4>1, <4>2, <4>3 DEF RunType
    <3> QED BY <2>2, <2>6, <3>1 DEF WriteStructuredResume, WriteAgain, RunType
  <2>7. ASSUME NEW v \in Workers, InsertRow(v) \/ RunFails(v) PROVE Stays(j)
    <3>1. run'[v].at # "extract"
      BY <2>7 DEF InsertRow, RunFails, Idle, RunType
    <3> QED BY <2>2, <2>7, <3>1 DEF InsertRow, RunFails, RunType
  <2>8. ASSUME NEW v \in Workers, NEW m \in Matches, fetchTailorInput(v, m) PROVE Stays(j)
    <3>1. run'[v].at # "extract"
      BY <2>8 DEF fetchTailorInput, RunType
    <3> QED BY <2>2, <2>8, <3>1 DEF fetchTailorInput, RunType
  <2>11. ASSUME NEW v \in Workers, AnswerForm(v) PROVE Stays(j)
    <3>1. run'[v].at # "extract" /\ \A w \in Workers \ {v} : run'[w] = run[w]
      BY <2>11, AnswerKeeps
    <3> QED BY <2>2, <2>11, <3>1 DEF AnswerForm
  <2>9. CASE Requests
    BY <2>1, <2>9 DEF Requests, SubmitProfile, GetApplications, PatchApplicationMarkSent
  <2>10. CASE UNCHANGED vars
    BY <2>1, <2>10 DEF vars
  <2> HIDE DEF Stays
  <2> QED BY <2>3, <2>4, <2>5, <2>6, <2>7, <2>8, <2>9, <2>10, <2>11 DEF Next, Requests
<1>2. RowsInv /\ [Next]_vars =>
        [\A j \in DOMAIN Posting :
          /\ sheet[j] # 0
          /\ \A w \in Workers : At(w, "extract") => Job[run[w].m] # j
          => sheet'[j] = sheet[j] /\ \A w \in Workers :
                ~At(w, "extract") /\ run'[w].at = "extract" => Job[run[w].m] # j]_vars
  BY <1>1
<1> QED BY <1>2, InitRows, RowsStep, PTL DEF Spec, SheetSettles

-----------------------------------------------------------------------------
(* The PDFs.  While the lock holds a match has one run at a time, its latest,*)
(* so that what a run has uploaded is still there when it inserts its row.  *)

OfMatch(key, m) == key \in Keys /\ key[3] = Posting[Job[m]]
InStore(key, m, n) ==
    /\ OfMatch(key, m) /\ files[key] # None
    /\ Alone(m) => files[key] = [run |-> n, m |-> m]

Numbered ==
    /\ \A m \in Matches : started[m] <= runs /\ (app[m] # None => app[m].run <= started[m])
    /\ \A w \in Workers : run[w] # Idle => run[w].n = started[run[w].m]
    /\ \A v, w \in Workers : v # w /\ run[v] # Idle /\ run[w] # Idle => run[v].m # run[w].m

ResumeStages == {"cover", "delete", "deleteCovered", "insert", "insertCovered"}
CoverStages == {"deleteCovered", "insertCovered"}
UploadedBy(w) ==
    LET r == run[w] IN
    /\ r.at \in ResumeStages => InStore(ResumeKey(r.profile.name, r.m), r.m, r.n)
    /\ r.at \in CoverStages => InStore(CoverKey(r.profile.name, r.m), r.m, r.n)
Uploaded == \A w \in Workers : UploadedBy(w)

\* What PdfBacksRow says of one file of a match.
Backs(key, m) ==
    /\ OfMatch(key, m) /\ files[key] # None
    /\ Alone(m) => /\ files[key].m = m /\ files[key].run >= app[m].run
                   /\ started[m] = app[m].run => files[key].run = app[m].run
Backed ==
    \A m \in Matches : app[m] # None =>
        \A key \in {app[m].file} \cup app[m].covers : Backs(key, m)

FilesInv == RowsInv /\ Numbered /\ Uploaded /\ Backed

LEMMA KeyOfMatch ==
    ASSUME NEW m \in Matches, NEW p \in Profiles
    PROVE  OfMatch(ResumeKey(p.name, m), m) /\ OfMatch(CoverKey(p.name, m), m)
BY KeysOfRun DEF OfMatch, ResumeKey, CoverKey

LEMMA BusyRun ==
    ASSUME RunType, NEW w \in Workers, run[w] # Idle
    PROVE  /\ run[w].m \in Matches /\ run[w].n \in 1..MaxRuns /\ run[w].profile \in Profiles
           /\ run[w].at # "idle"
BY DEF RunType, Early, Late, EarlyStages, LateStages

LEMMA InitFiles == Init => FilesInv
<1> SUFFICES ASSUME Init PROVE FilesInv
  OBVIOUS
<1>1. Numbered /\ Backed
  BY RunsAssumption DEF Init, Numbered, Backed
<1>2. Uploaded
  BY DEF Init, Uploaded, UploadedBy, Idle, ResumeStages, CoverStages
<1> QED BY <1>1, <1>2, InitRows DEF FilesInv

\* A worker that goes on within its run, or ends it, leaves the numbers alone.
LEMMA NumberedKeeps ==
    ASSUME FilesInv, RunType', NEW w \in Workers, UNCHANGED <<started, runs>>,
           \A v \in Workers \ {w} : run'[v] = run[v],
           \/ run'[w] = Idle
           \/ run[w] # Idle /\ run'[w].m = run[w].m /\ run'[w].n = run[w].n,
           \A m \in Matches : app'[m] # None => app'[m].run <= started[m]
    PROVE  Numbered'
BY DEF FilesInv, Numbered

\* An upload leaves the PDFs of other runs and of every row as they should be.
LEMMA PutKeeps ==
    ASSUME FilesInv, NEW w \in Workers, run[w] \in Late, NEW CONSTANT m0, NEW CONSTANT n0,
           run[w].m = m0, run[w].n = n0,
           NEW CONSTANT key, OfMatch(key, m0), Put(key, w), UNCHANGED <<app, started>>
    PROVE  /\ Backed'
           /\ \A k, m, n : m \in Matches /\ m # m0 /\ InStore(k, m, n) => InStore(k, m, n)'
           /\ \A k : InStore(k, m0, n0) => InStore(k, m0, n0)'
           /\ InStore(key, m0, n0)'
<1> DEFINE new == [run |-> n0, m |-> m0]
<1>1. m0 \in Matches /\ n0 \in 1..MaxRuns /\ run[w] # Idle
  BY DEF Late, LateStages, Idle
<1>2. new # None /\ new.run = n0 /\ new.m = m0
  BY DEF None
<1>3. \A k \in Keys : files'[k] = IF k = key THEN new ELSE files[k]
  BY DEF FilesInv, RowsInv, TypeOK, Put, OfMatch
<1> HIDE DEF new
<1>4. \A k : \A m \in Matches : m # m0 /\ Alone(m) /\ OfMatch(k, m) => k # key
  BY <1>1 DEF Alone, OfMatch
<1>5. \A k, m, n : m \in Matches /\ m # m0 /\ InStore(k, m, n) => InStore(k, m, n)'
  BY <1>2, <1>3, <1>4 DEF InStore, OfMatch, Alone
<1>6. \A k : InStore(k, m0, n0) => InStore(k, m0, n0)'
  BY <1>2, <1>3 DEF InStore, OfMatch, Alone, new
<1>7. InStore(key, m0, n0)'
  BY <1>2, <1>3 DEF InStore, OfMatch, Alone, new
<1>8. ASSUME NEW m \in Matches, app[m] # None, NEW k \in {app[m].file} \cup app[m].covers
      PROVE  Backs(k, m)'
  <2>1. Backs(k, m)
    BY <1>8 DEF FilesInv, Backed
  <2>2. CASE k # key
    BY <1>3, <2>1, <2>2 DEF Backs, OfMatch, Alone
  <2>3. CASE k = key /\ m # m0
    BY <1>2, <1>3, <1>4, <2>1, <2>3 DEF Backs, OfMatch, Alone
  <2>4. CASE k = key /\ m = m0
    <3>1. n0 = started[m] /\ app[m].run <= started[m]
      BY <1>1, <1>8, <2>4 DEF FilesInv, Numbered
    <3>2. app[m].run \in 1..MaxRuns
      BY <1>8 DEF FilesInv, RowsInv, TypeOK, Row
    <3> QED BY <1>1, <1>2, <1>3, <2>1, <2>4, <3>1, <3>2, RunsAssumption DEF Backs, OfMatch, Alone
  <2> QED BY <2>2, <2>3, <2>4
<1>9. Backed'
  BY <1>8 DEF Backed
<1> QED BY <1>5, <1>6, <1>7, <1>9

\* A worker that stores and removes nothing.
LEMMA QuietKeeps ==
    ASSUME FilesInv, RunType', NEW w \in Workers, UNCHANGED <<files, app, started, runs>>,
           \A v \in Workers \ {w} : run'[v] = run[v],
           \/ run'[w].at \in EarlyStages \cup {"again", "letter", "plain", "covered"}
              /\ run[w] # Idle /\ run'[w].m = run[w].m /\ run'[w].n = run[w].n
           \/ run'[w] = Idle
    PROVE  Numbered' /\ Uploaded' /\ Backed'
<1>1. Numbered'
  BY NumberedKeeps DEF FilesInv, Numbered
<1>2. Backed'
  BY DEF FilesInv, Backed, Backs, OfMatch, Alone
<1>3. UploadedBy(w)'
  BY DEF UploadedBy, EarlyStages, ResumeStages, CoverStages, Idle
<1>4. \A v \in Workers \ {w} : UploadedBy(v)'
  BY DEF FilesInv, Uploaded, UploadedBy, InStore, OfMatch, Alone
<1> QED BY <1>1, <1>2, <1>3, <1>4 DEF Uploaded

LEMMA FetchFiles ==
    ASSUME LockHolds, FilesInv, RowsInv',
           NEW w \in Workers, NEW m \in Matches, fetchTailorInput(w, m)
    PROVE  FilesInv'
<1>1. runs \in Nat /\ started \in [Matches -> Nat]
  BY RunsAssumption DEF FilesInv, RowsInv, TypeOK
<1>2. /\ run'[w].m = m /\ run'[w].n = runs + 1 /\ run'[w].at = "sheet"
      /\ \A v \in Workers \ {w} : run'[v] = run[v] /\ run[v].m # m
  BY DEF FilesInv, RowsInv, RunType, fetchTailorInput
<1>3. /\ \A k \in Matches : started'[k] = IF k = m THEN runs + 1 ELSE started[k]
      /\ runs' = runs + 1 /\ UNCHANGED <<files, app>>
  BY <1>1 DEF fetchTailorInput
<1>4. \A k \in Matches : app[k] # None => app[k].run \in Nat
  BY RunsAssumption DEF FilesInv, RowsInv, TypeOK, Row
<1>5. Numbered'
  <2>1. \A k \in Matches : started'[k] <= runs' /\ (app'[k] # None => app'[k].run <= started'[k])
    BY <1>1, <1>3, <1>4 DEF FilesInv, Numbered
  <2>2. \A v \in Workers : run'[v] # Idle => run'[v].n = started'[run'[v].m]
    BY <1>2, <1>3, BusyRun DEF FilesInv, Numbered, RowsInv
  <2>3. \A u, v \in Workers : u # v /\ run'[u] # Idle /\ run'[v] # Idle => run'[u].m # run'[v].m
    BY <1>2 DEF FilesInv, Numbered
  <2> QED BY <2>1, <2>2, <2>3 DEF Numbered
<1>6. Uploaded'
  BY <1>2, <1>3 DEF FilesInv, Uploaded, UploadedBy, InStore, OfMatch, Alone, ResumeStages, CoverStages
<1>7. Backed'
  <2>1. ASSUME NEW k \in Matches, app[k] # None PROVE started'[k] = app[k].run => started[k] = app[k].run
    BY <1>1, <1>3, <1>4, <2>1 DEF FilesInv, Numbered
  <2> QED BY <1>3, <2>1 DEF FilesInv, Backed, Backs, OfMatch, Alone
<1> QED BY <1>5, <1>6, <1>7 DEF FilesInv

LEMMA QuietFiles ==
    ASSUME FilesInv, RowsInv', NEW w \in Workers,
           \/ getJdRequirements(w) \/ upsertJdRequirements(w) \/ WriteStructuredResume(w)
           \/ WriteAgain(w) \/ AnswerForm(w) \/ RunFails(w)
    PROVE  FilesInv'
<1>0. RunType
  BY DEF FilesInv, RowsInv
<1> DEFINE Calm == \/ /\ run'[w].at \in EarlyStages \cup {"again", "letter", "plain", "covered"}
                      /\ run[w] # Idle /\ run'[w].m = run[w].m /\ run'[w].n = run[w].n
                   \/ run'[w] = Idle
           Others == \A v \in Workers \ {w} : run'[v] = run[v]
<1>1. ASSUME getJdRequirements(w) \/ upsertJdRequirements(w) PROVE Calm /\ Others
  <2>1. run[w] \in Early /\ run[w] # Idle
    BY <1>0, <1>1, StageOf DEF getJdRequirements, upsertJdRequirements, At, EarlyStages, Idle
  <2>2. PICK s \in EarlyStages : Goes(w, s)
    BY <1>1 DEF getJdRequirements, upsertJdRequirements, EarlyStages
  <2> QED BY <1>0, <2>1, <2>2, GoesKeeps
<1>2. ASSUME AnswerForm(w) PROVE Calm /\ Others
  <2>1. run[w] # Idle
    BY <1>0, <1>2, AnswerKeeps DEF Late, LateStages, Idle
  <2> QED BY <1>0, <1>2, <2>1, AnswerKeeps
<1>3. ASSUME WriteStructuredResume(w) \/ WriteAgain(w) PROVE Calm /\ Others
  <2>1. run[w] # Idle
    BY <1>3 DEF WriteStructuredResume, WriteAgain, At, Idle
  <2>2. PICK r \in Resumes, s \in {"letter", "again"} :
           \/ run' = [run EXCEPT ![w] = [Written(r, w, 1) EXCEPT !.at = s]]
           \/ run' = [run EXCEPT ![w] = Written(r, w, 2)]
    BY <1>3 DEF WriteStructuredResume, WriteAgain
  <2>3. LET x == [Written(r, w, 1) EXCEPT !.at = s]
        IN  x.at = s /\ x.m = run[w].m /\ x.n = run[w].n
    BY DEF Written
  <2>4. LET x == Written(r, w, 2)
        IN  x.at = "letter" /\ x.m = run[w].m /\ x.n = run[w].n
    BY DEF Written
  <2>5. Others
    BY <1>0, <2>2 DEF RunType
  <2>6. Calm
    BY <2>1, <2>2, <2>3, <2>4, <1>0 DEF RunType
  <2> QED BY <2>5, <2>6
<1>4. ASSUME RunFails(w) PROVE Calm /\ Others
  BY <1>0, <1>4 DEF RunFails, RunType
<1>5. UNCHANGED <<files, app, started, runs>>
  BY DEF getJdRequirements, upsertJdRequirements, WriteStructuredResume, WriteAgain,
     AnswerForm, RunFails
<1>6. Calm /\ Others
  BY <1>1, <1>2, <1>3, <1>4
<1>7. RunType'
  BY DEF RowsInv
<1>8. Numbered' /\ Uploaded' /\ Backed'
  BY <1>5, <1>6, <1>7, QuietKeeps
<1> QED BY <1>8 DEF FilesInv

\* The uploads and the DELETE.
LEMMA LateFiles ==
    ASSUME FilesInv, RowsInv', NEW w \in Workers,
           uploadResumePDF(w) \/ uploadCoverLetterPDF(w) \/ DeleteRow(w)
    PROVE  FilesInv'
<1> USE DEF RowsInv
<1>0. RowsInv /\ Numbered /\ Uploaded /\ Backed
  BY DEF FilesInv
<1>1. run[w] \in Late /\ run[w] # Idle
  BY <1>0, StageOf DEF uploadResumePDF, uploadCoverLetterPDF, DeleteRow, At, LateStages, Idle
<1>2. PICK s \in ResumeStages :
        /\ Goes(w, s)
        /\ uploadResumePDF(w) => s \in {"delete", "cover"}
        /\ uploadCoverLetterPDF(w) => s = "deleteCovered"
        /\ DeleteRow(w) => (s \in CoverStages <=> run[w].at \in CoverStages)
  BY DEF uploadResumePDF, uploadCoverLetterPDF, DeleteRow, At, ResumeStages, CoverStages
<1>3. /\ run'[w].at = s /\ run'[w].m = run[w].m /\ run'[w].n = run[w].n
      /\ run'[w].profile = run[w].profile
      /\ \A v \in Workers \ {w} : run'[v] = run[v]
  BY <1>0, <1>1, <1>2, GoesKeeps DEF ResumeStages, LateStages
<1>4. UNCHANGED <<started, runs>>
  BY DEF uploadResumePDF, uploadCoverLetterPDF, DeleteRow
<1>5. app' = app \/ app' = [app EXCEPT ![run[w].m] = None]
  BY DEF uploadResumePDF, uploadCoverLetterPDF, DeleteRow
<1>6. \A m \in Matches : app'[m] = app[m] \/ app'[m] = None
  BY <1>0, <1>5 DEF TypeOK
<1>7. Numbered'
  BY <1>0, <1>1, <1>3, <1>4, <1>6, NumberedKeeps DEF Numbered
<1>8. CASE DeleteRow(w)
  <2>1. UNCHANGED files
    BY <1>8 DEF DeleteRow
  <2>2. Backed'
    BY <1>0, <1>4, <1>6, <2>1 DEF Backed, Backs, OfMatch, Alone
  <2>3. run[w].at \in ResumeStages
    BY <1>8 DEF DeleteRow, ResumeStages
  <2>4. UploadedBy(w)'
    BY <1>0, <1>2, <1>3, <1>8, <2>1, <2>3 DEF Uploaded, UploadedBy, InStore, OfMatch, Alone
  <2>5. \A v \in Workers \ {w} : UploadedBy(v)'
    BY <1>0, <1>3, <2>1 DEF Uploaded, UploadedBy, InStore, OfMatch, Alone
  <2> QED BY <1>7, <2>2, <2>4, <2>5 DEF FilesInv, Uploaded
<1>9. CASE uploadResumePDF(w) \/ uploadCoverLetterPDF(w)
  <2>1. PICK m0 \in Matches, n0 \in 1..MaxRuns, p0 \in Profiles :
           run[w].m = m0 /\ run[w].n = n0 /\ run[w].profile = p0
    BY <1>1 DEF Late
  <2>2. PICK k \in {ResumeKey(p0.name, m0), CoverKey(p0.name, m0)} :
           /\ Put(k, w)
           /\ \/ s \in {"delete", "cover"} /\ k = ResumeKey(p0.name, m0)
              \/ s = "deleteCovered" /\ run[w].at = "cover" /\ k = CoverKey(p0.name, m0)
    <3>1. CASE uploadResumePDF(w)
      BY <1>2, <2>1, <3>1 DEF uploadResumePDF
    <3>2. CASE uploadCoverLetterPDF(w)
      BY <1>2, <2>1, <3>2 DEF uploadCoverLetterPDF, At
    <3> QED BY <1>9, <3>1, <3>2
  <2>3. OfMatch(k, m0)
    BY KeyOfMatch
  <2>4. UNCHANGED <<app, started>>
    BY <1>9 DEF uploadResumePDF, uploadCoverLetterPDF
  <2>5. /\ Backed'
        /\ \A x, m, n : m \in Matches /\ m # m0 /\ InStore(x, m, n) => InStore(x, m, n)'
        /\ \A x : InStore(x, m0, n0) => InStore(x, m0, n0)'
        /\ InStore(k, m0, n0)'
    BY <1>1, <2>1, <2>2, <2>3, <2>4, PutKeeps
  <2>6. run'[w].m = m0 /\ run'[w].n = n0 /\ run'[w].profile = p0
    BY <1>3, <2>1
  <2>7. UploadedBy(w)'
    <3>1. CASE s \in {"delete", "cover"} /\ k = ResumeKey(p0.name, m0)
      BY <1>3, <2>5, <2>6, <3>1 DEF UploadedBy, CoverStages
    <3>2. CASE s = "deleteCovered" /\ run[w].at = "cover" /\ k = CoverKey(p0.name, m0)
      <4>1. InStore(ResumeKey(p0.name, m0), m0, n0)
        BY <1>0, <2>1, <3>2 DEF Uploaded, UploadedBy, ResumeStages
      <4> QED BY <1>3, <2>5, <2>6, <3>2, <4>1 DEF UploadedBy
    <3> QED BY <2>2, <3>1, <3>2
  <2>8. ASSUME NEW v \in Workers \ {w} PROVE UploadedBy(v)'
    <3>1. run'[v] = run[v]
      BY <1>3
    <3>2. CASE run[v] = Idle
      BY <3>1, <3>2 DEF UploadedBy, Idle, ResumeStages, CoverStages
    <3>3. CASE run[v] # Idle
      <4>1. run[v].m \in Matches /\ run[v].m # m0
        BY <1>0, <1>1, <2>1, <3>3, BusyRun DEF Numbered
      <4>2. UploadedBy(v)
        BY <1>0 DEF Uploaded
      <4> QED BY <2>5, <3>1, <4>1, <4>2 DEF UploadedBy
    <3> QED BY <3>2, <3>3
  <2> QED BY <1>7, <2>5, <2>7, <2>8 DEF FilesInv, Uploaded
<1> QED BY <1>8, <1>9

LEMMA InsertFiles ==
    ASSUME FilesInv, RowsInv', NEW w \in Workers, InsertRow(w) PROVE FilesInv'
<1> USE DEF RowsInv
<1>0. RowsInv /\ Numbered /\ Uploaded /\ Backed
  BY DEF FilesInv
<1>1. run[w] \in Late /\ run[w] # Idle
  BY <1>0, StageOf DEF InsertRow, LateStages, Idle
<1>2. PICK m0 \in Matches, n0 \in 1..MaxRuns, p0 \in Profiles :
         run[w].m = m0 /\ run[w].n = n0 /\ run[w].profile = p0
  BY <1>1 DEF Late
<1>3. PICK row :
        /\ app' = [app EXCEPT ![m0] = row] /\ row.run = n0 /\ row.file = ResumeKey(p0.name, m0)
        /\ row.covers = IF At(w, "insertCovered") THEN {CoverKey(p0.name, m0)} ELSE {}
  <2>1. app' = [app EXCEPT ![m0] = NewRow(w)]
    BY <1>2 DEF InsertRow
  <2>2. /\ NewRow(w).run = n0 /\ NewRow(w).file = ResumeKey(p0.name, m0)
        /\ NewRow(w).covers = IF At(w, "insertCovered") THEN {CoverKey(p0.name, m0)} ELSE {}
    BY <1>2 DEF NewRow
  <2> QED BY <2>1, <2>2
<1>4. \A key \in {row.file} \cup row.covers : InStore(key, m0, n0)
  BY <1>0, <1>2, <1>3 DEF InsertRow, Uploaded, UploadedBy, At, ResumeStages, CoverStages
<1>5. /\ run'[w] = Idle /\ \A v \in Workers \ {w} : run'[v] = run[v]
      /\ UNCHANGED <<files, started, runs>>
  BY <1>0 DEF InsertRow, RunType
<1>6. \A m \in Matches : app'[m] = IF m = m0 THEN row ELSE app[m]
  BY <1>0, <1>3 DEF TypeOK
<1>7. n0 = started[m0]
  BY <1>0, <1>1, <1>2 DEF Numbered
<1>8. started \in [Matches -> Nat] /\ n0 \in Nat
  BY <1>0, RunsAssumption DEF TypeOK
<1>9. Numbered'
  <2>1. \A m \in Matches : app'[m] # None => app'[m].run <= started[m]
    BY <1>0, <1>3, <1>6, <1>7, <1>8 DEF Numbered
  <2> QED BY <1>5, <2>1, NumberedKeeps
<1>10. Uploaded'
  <2>1. UploadedBy(w)'
    BY <1>5 DEF UploadedBy, Idle, ResumeStages, CoverStages
  <2>2. \A v \in Workers \ {w} : UploadedBy(v)'
    BY <1>0, <1>5 DEF Uploaded, UploadedBy, InStore, OfMatch, Alone
  <2> QED BY <2>1, <2>2 DEF Uploaded
<1>11. Backed'
  <2>1. ASSUME NEW key \in {row.file} \cup row.covers PROVE Backs(key, m0)'
    <3>1. InStore(key, m0, n0)
      BY <1>4
    <3>2. Alone(m0) => files[key].run = n0 /\ files[key].m = m0
      BY <3>1 DEF InStore
    <3> QED BY <1>3, <1>5, <1>6, <1>7, <1>8, <3>1, <3>2 DEF InStore, Backs, OfMatch, Alone
  <2>2. ASSUME NEW m \in Matches \ {m0}, app[m] # None,
               NEW key \in {app[m].file} \cup app[m].covers
        PROVE  Backs(key, m)'
    BY <1>0, <1>5, <1>6, <2>2 DEF Backed, Backs, OfMatch, Alone
  <2> QED BY <1>6, <2>1, <2>2 DEF Backed
<1> QED BY <1>9, <1>10, <1>11 DEF FilesInv

LEMMA RequestFiles == ASSUME FilesInv, RowsInv', Requests PROVE FilesInv'
<1>0. RowsInv /\ TypeOK /\ Numbered /\ Uploaded /\ Backed
  BY DEF FilesInv, RowsInv
<1>1. UNCHANGED <<run, files, started, runs>>
  BY DEF Requests, SubmitProfile, GetApplications, PatchApplicationMarkSent
<1>2. \A m \in Matches :
        /\ app'[m] # None => app[m] # None
        /\ app[m] # None => /\ app'[m].run = app[m].run /\ app'[m].file = app[m].file
                            /\ app'[m].covers = app[m].covers
  <2>1. CASE app' = app
    BY <2>1
  <2>2. ASSUME NEW m \in Matches, NEW sent \in BOOLEAN, PatchApplicationMarkSent(m, sent)
        PROVE  \A k \in Matches :
                 /\ app'[k] # None => app[k] # None
                 /\ app[k] # None => /\ app'[k].run = app[k].run /\ app'[k].file = app[k].file
                                     /\ app'[k].covers = app[k].covers
    BY <1>0, <2>2, MarkKeeps
  <2> QED BY <2>1, <2>2 DEF Requests, SubmitProfile, GetApplications
<1>3. Numbered' /\ Uploaded' /\ Backed'
  BY <1>0, <1>1, <1>2
     DEF Numbered, Uploaded, UploadedBy, InStore, Backed, Backs, OfMatch, Alone
<1> QED BY <1>3 DEF FilesInv

LEMMA FilesStep == LockHolds /\ FilesInv /\ [Next]_vars => FilesInv'
<1> SUFFICES ASSUME LockHolds, FilesInv, [Next]_vars PROVE FilesInv'
  OBVIOUS
<1>1. RowsInv'
  BY RowsStep DEF FilesInv
<1>2. CASE UNCHANGED vars
  BY <1>1, <1>2 DEF vars, FilesInv, Numbered, Uploaded, UploadedBy, InStore, Backed, Backs, OfMatch, Alone
<1>3. CASE Next
  BY <1>1, <1>3, FetchFiles, QuietFiles, LateFiles, InsertFiles, RequestFiles DEF Next, Requests
<1> QED BY <1>2, <1>3

\* For any matches and profiles, however runs overlap and fail: while the lock
\* admits one run of a match at a time the PDFs that an application names are in
\* the storage, and its match's if no other match of the user has the same
\* company and title; they are its own until a later run of the match starts.
THEOREM PdfsAreBacked == Spec => []PdfBacksRow
<1>1. CASE LockHolds
  <2>1. FilesInv => PdfBacksRow
    BY DEF FilesInv, Backed, Backs, PdfBacksRow
  <2>2. FilesInv /\ [Next]_vars => FilesInv'
    BY <1>1, FilesStep
  <2> QED BY <2>1, <2>2, InitFiles, PTL DEF Spec
<1>2. CASE ~LockHolds
  <2>1. PdfBacksRow
    BY <1>2 DEF PdfBacksRow
  <2> QED BY <2>1, PTL
<1> QED BY <1>1, <1>2
=============================================================================
