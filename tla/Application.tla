---------------------------- MODULE Application ----------------------------
(***************************************************************************)
(* What TailorMatch leaves behind: the posting's requirement sheet, the    *)
(* PDFs in object storage and the row of tailored_applications, and what   *)
(* the user's requests read of them.  TailorWorker has the queue, the lock *)
(* and the retries around it, FormAnswers the answers in the middle,       *)
(* MatchPolicy the gate at its start.                                      *)
(*                                                                         *)
(* A run is numbered when it starts, and what it writes carries the        *)
(* number.  A file's key has the applicant's name and the posting's        *)
(* company and title, and nothing that tells two matches apart.            *)
(***************************************************************************)
EXTENDS Integers, Sequences, FiniteSets

CONSTANTS
    Matches, Workers,
    Job,          \* match -> job
    Posting,      \* job -> company and title as a file name shows them
    CoverField,   \* jobs whose form has a file field for the cover letter
    Embedded,     \* jobs with an embedding
    Profiles,     \* profiles: a name and a resume layout
    Resumes,      \* resumes the model may write
    Lints,        \* what the last check of a form's answers may find
    LockHolds,    \* the Redis lock outlives every run
    MaxRuns       \* bound: runs in all

ASSUME JobAssumption == DOMAIN Job = Matches /\ \A m \in Matches : Job[m] \in DOMAIN Posting
ASSUME RunsAssumption == MaxRuns \in Nat /\ LockHolds \in BOOLEAN
ASSUME NoMatchAssumption == "none" \notin Matches

VARIABLES
    profile,   \* user_profiles.profile
    sheet,     \* job -> the run whose jd_requirements_json is stored, or 0
    files,     \* key -> the run whose PDF is stored, and its match
    app,       \* match -> row of tailored_applications
    run,       \* worker -> the run it is at
    started,   \* match -> its latest run
    runs,      \* runs started
    shown      \* match -> the row the browser shows, by its run, or 0

vars == <<profile, sheet, files, app, run, started, runs, shown>>

None == [run |-> 0]
Idle == [at |-> "idle", m |-> "none", n |-> 0]
ResumeKey(name, m) == <<"resumes", name, Posting[Job[m]]>>
CoverKey(name, m) == <<"cover-letters", name, Posting[Job[m]]>>
Names == {p.name : p \in Profiles}
Keys == {"resumes", "cover-letters"} \X Names \X {Posting[Job[m]] : m \in Matches}

-----------------------------------------------------------------------------
(* The resume and its checks.  A resume is the parts it has, its roles and  *)
(* its projects; an entry is what it names, company, role or title, and its *)
(* bullets; a bullet is whether it has text and cites the profile.          *)

Layouts == {"employment_led", "hybrid", "project_only"}
ASSUME ProfilesAssumption == \A p \in Profiles : p.layout \in Layouts
minRecent(layout) == [employment_led |-> 4, hybrid |-> 2, project_only |-> 0][layout]
minProject(layout) == IF layout = "employment_led" THEN 2 ELSE 3
minOther(layout) == IF layout = "project_only" THEN 0 ELSE 2

Parts == {"name", "contact", "skills"}
Warnings == Parts \cup {"education", "nothing", "employers", "company", "role", "short",
                        "text", "sourceRef"}

\* Projects without a title are not looked at.
Titled(r) == {i \in DOMAIN r.projects : "title" \in r.projects[i].has}
Checked(r) == {r.roles[i] : i \in DOMAIN r.roles} \cup {r.projects[i] : i \in Titled(r)}

ValidateStructuredResume(r, layout) ==
    (Parts \ r.parts)
    \cup {w \in {"education"} : layout # "employment_led" /\ "education" \notin r.parts}
    \cup {w \in {"nothing"} : r.roles = <<>> /\ r.projects = <<>>}
    \cup {w \in {"employers"} : layout = "project_only" /\ r.roles # <<>>}
    \cup {w \in {"company", "role"} : \E i \in DOMAIN r.roles : w \notin r.roles[i].has}
    \cup {w \in {"short"} :
            \/ \E i \in DOMAIN r.roles : Len(r.roles[i].bullets) <
                   IF i = 1 THEN minRecent(layout) ELSE minOther(layout)
            \/ \E i \in Titled(r) : Len(r.projects[i].bullets) < minProject(layout)}
    \cup {w \in {"text", "sourceRef"} :
            \E entry \in Checked(r) : \E b \in DOMAIN entry.bullets : w \notin entry.bullets[b]}
Acceptable(warnings) == warnings \subseteq {"sourceRef"}

-----------------------------------------------------------------------------
(* One run of TailorMatch.                                                  *)

At(w, stage) == run[w].at = stage
Goes(w, stage) == run' = [run EXCEPT ![w].at = stage]

Init ==
    /\ profile \in Profiles
    /\ sheet = [j \in DOMAIN Posting |-> 0]
    /\ files = [k \in Keys |-> None]
    /\ app = [m \in Matches |-> None]
    /\ run = [w \in Workers |-> Idle]
    /\ started = [m \in Matches |-> 0] /\ runs = 0
    /\ shown = [m \in Matches |-> 0]

\* The profile is read once, at the start.
fetchTailorInput(w, m) ==
    /\ At(w, "idle") /\ runs < MaxRuns
    /\ LockHolds => \A v \in Workers : run[v].m # m
    /\ runs' = runs + 1 /\ started' = [started EXCEPT ![m] = runs + 1]
    /\ run' = [run EXCEPT ![w] =
                 [at |-> "sheet", m |-> m, n |-> runs + 1, profile |-> profile]]
    /\ UNCHANGED <<profile, sheet, files, app, shown>>

\* mutant: the stored sheet is not looked at
getJdRequirementsAnew(w) ==
    /\ At(w, "sheet") /\ Goes(w, "extract")
    /\ UNCHANGED <<profile, sheet, files, app, started, runs, shown>>

getJdRequirements(w) ==
    /\ At(w, "sheet")
    /\ Goes(w, IF sheet[Job[run[w].m]] = 0 THEN "extract" ELSE "resume")
    /\ UNCHANGED <<profile, sheet, files, app, started, runs, shown>>

upsertJdRequirements(w) ==
    /\ At(w, "extract")
    /\ sheet' = [sheet EXCEPT ![Job[run[w].m]] = run[w].n]
    /\ Goes(w, "resume")
    /\ UNCHANGED <<profile, files, app, started, runs, shown>>

Written(r, w, attempts) ==
    [at |-> "letter", m |-> run[w].m, n |-> run[w].n, profile |-> run[w].profile,
     resume |-> r, attempts |-> attempts, found |-> {},
     warnings |-> ValidateStructuredResume(r, run[w].profile.layout)]

\* Without an embedding of the job the query for the evidence fails.
WriteStructuredResume(w) ==
    /\ At(w, "resume") /\ Job[run[w].m] \in Embedded
    /\ \E r \in Resumes :
          run' = [run EXCEPT ![w] =
            [Written(r, w, 1) EXCEPT !.at = IF Acceptable(Written(r, w, 1).warnings)
                                            THEN "letter" ELSE "again"]]
    /\ UNCHANGED <<profile, sheet, files, app, started, runs, shown>>

\* mutant: the warnings of the first attempt are kept
WriteAgainOldWarnings(w) ==
    /\ At(w, "again")
    /\ \E r \in Resumes :
          run' = [run EXCEPT ![w] = [Written(r, w, 2) EXCEPT !.warnings = run[w].warnings]]
    /\ UNCHANGED <<profile, sheet, files, app, started, runs, shown>>

\* The second attempt is taken as it is, and so are its warnings.
WriteAgain(w) ==
    /\ At(w, "again")
    /\ \E r \in Resumes : run' = [run EXCEPT ![w] = Written(r, w, 2)]
    /\ UNCHANGED <<profile, sheet, files, app, started, runs, shown>>

\* The letter, which is uploaded where the form has a field for it, and the
\* form's answers.  The answers are checked, and once more after those that
\* failed were asked again; what the last check found is kept with the warnings.
AnswerForm(w) ==
    /\ At(w, "letter")
    /\ \E blank \in BOOLEAN, found \in SUBSET Lints :
          run' = [run EXCEPT ![w] = [@ EXCEPT
             !.at = IF blank \/ Job[run[w].m] \notin CoverField THEN "plain" ELSE "covered",
             !.found = found]]
    /\ UNCHANGED <<profile, sheet, files, app, started, runs, shown>>

Put(key, w) == files' = [files EXCEPT ![key] = [run |-> run[w].n, m |-> run[w].m]]

uploadResumePDF(w) ==
    /\ run[w].at \in {"plain", "covered"}
    /\ Put(ResumeKey(run[w].profile.name, run[w].m), w)
    /\ Goes(w, IF At(w, "plain") THEN "delete" ELSE "cover")
    /\ UNCHANGED <<profile, sheet, app, started, runs, shown>>

\* mutant: a failed upload is not noticed
uploadCoverLetterPDFUnchecked(w) ==
    /\ At(w, "cover")
    /\ files' = files \/ Put(CoverKey(run[w].profile.name, run[w].m), w)
    /\ Goes(w, "deleteCovered")
    /\ UNCHANGED <<profile, sheet, app, started, runs, shown>>

uploadCoverLetterPDF(w) ==
    /\ At(w, "cover")
    /\ Put(CoverKey(run[w].profile.name, run[w].m), w)
    /\ Goes(w, "deleteCovered")
    /\ UNCHANGED <<profile, sheet, app, started, runs, shown>>

DeleteRow(w) ==
    /\ run[w].at \in {"delete", "deleteCovered"}
    /\ app' = [app EXCEPT ![run[w].m] = None]
    /\ Goes(w, IF At(w, "delete") THEN "insert" ELSE "insertCovered")
    /\ UNCHANGED <<profile, sheet, files, started, runs, shown>>

NewRow(w) ==
    LET name == run[w].profile.name IN
    [run |-> run[w].n, resume |-> run[w].resume, answers |-> run[w].found,
     warnings |-> run[w].warnings \cup run[w].found,
     layout |-> run[w].profile.layout, attempts |-> run[w].attempts, sent |-> FALSE,
     file |-> ResumeKey(name, run[w].m),
     covers |-> IF At(w, "insertCovered") THEN {CoverKey(name, run[w].m)} ELSE {}]

InsertRow(w) ==
    /\ run[w].at \in {"insert", "insertCovered"}
    /\ app' = [app EXCEPT ![run[w].m] = NewRow(w)]
    /\ run' = [run EXCEPT ![w] = Idle]
    /\ UNCHANGED <<profile, sheet, files, started, runs, shown>>

\* An error of a model, the renderer, the storage or the database, or a crash.
RunFails(w) ==
    /\ ~At(w, "idle")
    /\ run' = [run EXCEPT ![w] = Idle]
    /\ UNCHANGED <<profile, sheet, files, app, started, runs, shown>>

-----------------------------------------------------------------------------
(* The user's requests.                                                     *)

SubmitProfile ==
    /\ \E p \in Profiles \ {profile} : profile' = p
    /\ UNCHANGED <<sheet, files, app, run, started, runs, shown>>

GetApplications ==
    /\ shown' = [m \in Matches |-> app[m].run]
    /\ UNCHANGED <<profile, sheet, files, app, run, started, runs>>

\* By the id of the row shown; when it was replaced no row is changed, and the
\* answer is the same.
PatchApplicationMarkSent(m, sent) ==
    /\ shown[m] # 0
    /\ app' = IF app[m].run = shown[m] THEN [app EXCEPT ![m].sent = sent] ELSE app
    /\ UNCHANGED <<profile, sheet, files, run, started, runs, shown>>

\* The query selects 25 columns and the scan takes 23, so that reading a row
\* that is there fails.
GetTailoredApplicationByID(m) == IF app[m].run # shown[m] THEN "not found" ELSE "error"

\* What either download answers, which changes nothing: the handlers go on to the
\* storage, with the match's id for the resume and the row's file name for the
\* letter, only after they have the row.
Download(m) == IF GetTailoredApplicationByID(m) = "not found" THEN "404" ELSE "500"

Next ==
    \/ \E w \in Workers :
         \/ \E m \in Matches : fetchTailorInput(w, m)
         \/ getJdRequirements(w) \/ upsertJdRequirements(w)
         \/ WriteStructuredResume(w) \/ WriteAgain(w) \/ AnswerForm(w)
         \/ uploadResumePDF(w) \/ uploadCoverLetterPDF(w)
         \/ DeleteRow(w) \/ InsertRow(w) \/ RunFails(w)
    \/ SubmitProfile \/ GetApplications
    \/ \E m \in Matches, sent \in BOOLEAN : PatchApplicationMarkSent(m, sent)

Spec == Init /\ [][Next]_vars

-----------------------------------------------------------------------------
(* Properties.                                                              *)

Row == [run : 1..MaxRuns, resume : Resumes, answers : SUBSET Lints,
        warnings : SUBSET (Warnings \cup Lints),
        layout : Layouts, attempts : {1, 2}, sent : BOOLEAN,
        file : Keys, covers : SUBSET Keys]
Stages == {"idle", "sheet", "extract", "resume", "again", "letter", "plain", "covered",
           "cover", "delete", "deleteCovered", "insert", "insertCovered"}

\* The state's shape.
TypeOK ==
    /\ profile \in Profiles /\ sheet \in [DOMAIN Posting -> 0..MaxRuns]
    /\ files \in [Keys -> {None} \cup [run : 1..MaxRuns, m : Matches]]
    /\ app \in [Matches -> {None} \cup Row]
    /\ \A w \in Workers : run[w].at \in Stages /\ run[w].n \in 0..MaxRuns
    /\ started \in [Matches -> 0..MaxRuns] /\ runs \in 0..MaxRuns
    /\ shown \in [Matches -> 0..MaxRuns]

\* No other match of the user has a posting of the same company and title.
Alone(m) == \A k \in Matches \ {m} : Posting[Job[k]] # Posting[Job[m]]

\* The PDFs an application refers to are in the storage, they are its match's,
\* and they show that very application unless a later run of the match has
\* started: a run uploads before it replaces the row, and may fail in between.
\* (Of two matches with the same company and title either may have replaced the
\* other's PDFs: the key does not tell them apart, tailor.go:263.)
PdfBacksRow ==
    LockHolds => \A m \in Matches : app[m] # None =>
        \A key \in {app[m].file} \cup app[m].covers :
            /\ files[key] # None
            /\ Alone(m) => /\ files[key].m = m /\ files[key].run >= app[m].run
                           /\ started[m] = app[m].run => files[key].run = app[m].run

\* The warnings stored with an application are those of the resume it holds, for
\* the layout of the profile it was written from, and what the check found in
\* the answers it holds, before the documents were put in (tailor.go:84); and a
\* resume that is not acceptable was written again before it was accepted.
WarningsAreItsOwn ==
    \A m \in Matches : app[m] # None =>
        LET warnings == ValidateStructuredResume(app[m].resume, app[m].layout)
        IN  /\ app[m].warnings = warnings \cup app[m].answers
            /\ Acceptable(warnings) \/ app[m].attempts = 2

\* With the shape of the state, marks on replaced rows included.
RowInv == TypeOK /\ WarningsAreItsOwn

\* A posting's requirement sheet stays what it is once it is stored and no run
\* that found none is still extracting one: a repeated run does not pay for it
\* again, and all later applications for the job rest on the same sheet.
SheetSettles ==
    [][\A j \in DOMAIN Posting :
          /\ sheet[j] # 0
          /\ \A w \in Workers : At(w, "extract") => Job[run[w].m] # j
          => sheet'[j] = sheet[j] /\ \A w \in Workers :
                ~At(w, "extract") /\ run'[w].at = "extract" => Job[run[w].m] # j]_vars

\* "Download resume PDF with friendly filename via API proxy"
\* (src/frontend/src/lib/applicationsApi.ts:101): the download of an application
\* that is there is never answered with an internal error.
DownloadServed ==
    \A m \in Matches : shown[m] # 0 /\ shown[m] = app[m].run => Download(m) # "500"
=============================================================================
