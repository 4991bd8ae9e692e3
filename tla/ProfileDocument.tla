-------------------------- MODULE ProfileDocument --------------------------
(***************************************************************************)
(* The rules that a profile document obeys: what the form derives before   *)
(* it submits (prepareProfileForSubmit.ts), what the server derives before *)
(* it stores (profilemode), what a resume's analysis writes over           *)
(* (handlers/resume.go), and when each side takes a document for complete. *)
(* ProfileWizard has the timing of saves and answers; here they are single *)
(* steps, and the documents are looked into.                               *)
(*                                                                         *)
(* Roles and projects are "full" (both fields the rules ask for), "part"   *)
(* or "blank".  Education, links, stories but one, motivations and the     *)
(* like, which no rule here depends on, are left out.                      *)
(***************************************************************************)
EXTENDS Integers, Sequences, Positions

CONSTANTS
    Analyses,    \* what the model may read out of a resume
    NewProjects, NewRoles,   \* states of what the user adds
    NoForm,
    MaxEdits, MaxVisits, MaxResumes   \* bounds

States == {"full", "part", "blank"}
Years == {"", "0-1", "1-3", "3-5"}
Seniorities == {"", "junior", "senior"}
Paid == {"", "none", "internship_only", "full_time"}
Modes == {"early", "transitional", "experienced"}
Layouts == {"project_only", "hybrid", "employment_led"}
Majors == {"us", "ca"}
Countries == Majors \cup {"uk"}

Project == [id : Nat, state : States]
Part ==   \* of the text: an uploaded resume, by its number, or a compiled one
    [resume : Nat \ {0}] \cup
    [resume : {0}, skills : {"", "own", "tools"}, tools : BOOLEAN,
     work : Seq(States), projects : Seq(Project)]
Document ==
    [years : Years, seniority : Seniorities, paid : Paid, mode : Modes \cup {""},
     layout : Layouts \cup {""}, filled : {"no", "all"}, tools : BOOLEAN,
     skills : {"", "own", "tools"}, career : {"", "own", "roles", "headline"},
     needs : BOOLEAN, visa : {"", "need_sponsorship", "citizen_pr"},
     markets : SUBSET Majors, countries : SUBSET Countries, work : Seq(States),
     projects : Seq(Project), featured : Nat,
     text : Seq(Part), flags : {"own", "reset"}, stamp : BOOLEAN]
\* What the model reads out of a resume: projects have no ids yet.
Reading ==
    [years : Years, seniority : Seniorities, career : {"", "own"}, skills : {"", "own"},
     tools : BOOLEAN, work : Seq(States), projects : Seq([id : {0}, state : States]),
     failed : BOOLEAN]

ASSUME BoundsAssumption == MaxEdits \in Nat /\ MaxVisits \in Nat /\ MaxResumes \in Nat
ASSUME AnalysesAssumption == \A a \in Analyses : a \in Reading /\ ~a.failed
ASSUME AddedAssumption == NewProjects \subseteq States /\ NewRoles \subseteq States
ASSUME NoFormAssumption == NoForm \notin Document

VARIABLES
    row,      \* user_profiles.profile
    form,     \* the wizard's draft, or NoForm
    loaded,   \* the open form was loaded with derived fields
    call,     \* a resume's analysis under way
    embed,    \* the last submit queued an embed job
    writer,   \* who wrote row: a form first loaded ("fresh") or with derived
              \* fields ("pinned"), a resume's handler ("resume"), or nobody
    latest,   \* the last resume the form heard of
    excused,  \* the user left a form that was not saved, or before an answer
    edits, visits, resumes, nextId

vars == <<row, form, loaded, call, embed, writer, latest, excused, edits, visits, resumes, nextId>>

NoCall == [at |-> "none"]

-----------------------------------------------------------------------------
(* Modes and layouts.                                                       *)

DeriveProfileMode(d) ==
    IF d.paid = "full_time" \/ d.years = "3-5" THEN "experienced"
    ELSE IF d.seniority = "senior" /\ d.years \notin {"0-1", ""} THEN "experienced"
    ELSE IF d.years = "1-3" THEN "transitional" ELSE "early"

DeriveResumeLayout(d) ==
    CASE d.paid = "none" -> "project_only"
      [] d.paid = "internship_only" -> "hybrid"
      [] OTHER -> "employment_led"

HasFull(items) == \E i \in DOMAIN items : items[i] = "full"
PaidFor(d, worked) ==
    IF d.paid # "" THEN d.paid
    ELSE CASE d.years = "3-5" -> "full_time"
           [] d.years = "0-1" -> "none"
           [] d.years = "1-3" -> IF worked THEN "full_time" ELSE "internship_only"
           [] OTHER -> ""

\* What is left without the blank ones, in order.
Roles(work) == Picked(work, {i \in DOMAIN work : work[i] # "blank"})
Named(projects) == Picked(projects, {i \in DOMAIN projects : projects[i].state # "blank"})

\* The featured project goes first.
Featured(d) == {i \in DOMAIN d.projects : d.projects[i].id = d.featured}
reorderFeaturedProject(d) ==
    IF d.featured = 0 \/ Featured(d) = {} THEN d.projects
    ELSE LET k == First(Featured(d))
         IN  [i \in DOMAIN d.projects |->
                IF i = 1 THEN d.projects[k]
                ELSE IF i <= k THEN d.projects[i - 1] ELSE d.projects[i]]

(* The text: compiled parts and resumes, of which the first is read first.  *)

Compiled(d) ==
    [resume |-> 0, skills |-> d.skills, tools |-> d.tools,
     work |-> IF DeriveResumeLayout(d) = "hybrid" THEN Roles(d.work) ELSE <<>>,
     projects |-> Named(d.projects)]
Nothing(part) ==
    part.skills = "" /\ ~part.tools /\ part.work = <<>> /\ part.projects = <<>>

\* mutant: an uploaded resume is replaced
CompileReplacing(d) ==
    IF DeriveResumeLayout(d) = "employment_led" /\ d.text # <<>> THEN d.text
    ELSE IF Nothing(Compiled(d)) THEN d.text ELSE <<Compiled(d)>>

\* What is there already is taken for the uploaded resume, compiled or not.
CompileResumePlainText(d) ==
    IF DeriveResumeLayout(d) = "employment_led" /\ d.text # <<>> THEN d.text
    ELSE IF Nothing(Compiled(d)) THEN d.text ELSE <<Compiled(d)>> \o d.text

-----------------------------------------------------------------------------
(* What the server derives before it stores.                                *)

FromWork(d) == IF d.career # "" THEN d.career
               ELSE IF HasFull(d.work) THEN "roles"
               ELSE IF d.filled # "no" THEN "headline" ELSE ""

\* mutant: somebody who may work somewhere is taken for a citizen
VisaByCountries(d) ==
    IF d.visa # "" THEN d.visa
    ELSE IF d.needs /\ d.countries = {} THEN "need_sponsorship" ELSE "citizen_pr"

Visa(d) == IF d.visa # "" THEN d.visa ELSE IF d.needs THEN "need_sponsorship" ELSE "citizen_pr"

enrichLeanProfile(d) ==
    [d EXCEPT !.skills = IF @ = "" /\ d.tools THEN "tools" ELSE @,
              !.career = FromWork(d), !.visa = Visa(d),
              !.projects = reorderFeaturedProject(d)]

\* mutant: mode and layout are not derived again
NormalizeOnce(d) ==
    LET e == enrichLeanProfile([d EXCEPT
               !.paid = PaidFor(d, HasFull(d.work)),
               !.mode = DeriveProfileMode(d), !.layout = DeriveResumeLayout(d)])
    IN  [e EXCEPT !.text = CompileResumePlainText(e)]

NormalizeProfileJSON(d) ==
    LET p == [d EXCEPT !.paid = PaidFor(d, HasFull(d.work))]
        e == enrichLeanProfile([p EXCEPT !.mode = DeriveProfileMode(p),
                                         !.layout = DeriveResumeLayout(p)])
    IN  [e EXCEPT !.text = CompileResumePlainText(e)]

featuredProjectComplete(d) ==
    \E i \in DOMAIN d.projects :
        d.projects[i].state = "full" /\ d.featured \in {0, d.projects[i].id}

\* mutant: only the two countries the form asks for first count
ProfileCompleteMajors(d) ==
    /\ d.filled # "no" /\ d.years # "" /\ d.seniority # "" /\ d.tools
    /\ d.countries \cap Majors # {} /\ featuredProjectComplete(d)
    /\ CompileResumePlainText(d) # <<>>

ProfileComplete(d) ==
    /\ d.filled # "no" /\ d.years # "" /\ d.seniority # "" /\ d.tools
    /\ d.countries # {} /\ featuredProjectComplete(d)
    /\ CompileResumePlainText(d) # <<>>

-----------------------------------------------------------------------------
(* The client's rules.                                                      *)

\* The index of the project the form shows as featured, or 0.
getFeaturedProject(d) ==
    LET found == IF d.featured # 0 THEN Featured(d)
                 ELSE {i \in DOMAIN d.projects : d.projects[i].state = "full"}
    IN  IF found = {} THEN 0 ELSE First(found)

hasWorkAuthorizationAnswered(d) == d.markets # {} \/ d.needs \/ d.countries # {}
isApplicantProfileComplete(d) ==
    /\ d.text # <<>> /\ d.filled = "all" /\ d.years # "" /\ d.seniority # "" /\ d.tools
    /\ hasWorkAuthorizationAnswered(d)
    /\ getFeaturedProject(d) # 0 /\ d.projects[getFeaturedProject(d)].state = "full"

\* mutant: the mode is that of the draft as it was
prepareUnpaid(d) ==
    LET i == getFeaturedProject(d)
        p == [d EXCEPT !.featured = IF i = 0 THEN @ ELSE d.projects[i].id,
                       !.paid = PaidFor(d, HasFull(d.work)), !.visa = Visa(d),
                       !.skills = IF @ = "" /\ d.tools THEN "tools" ELSE @,
                       !.career = FromWork(d), !.stamp = TRUE]
    IN  [p EXCEPT !.projects = reorderFeaturedProject(p),
                  !.mode = DeriveProfileMode(d), !.layout = DeriveResumeLayout(d)]

prepareProfileForSubmit(d) ==
    LET i == getFeaturedProject(d)
        p == [d EXCEPT !.featured = IF i = 0 THEN @ ELSE d.projects[i].id,
                       !.paid = PaidFor(d, HasFull(d.work)), !.visa = Visa(d),
                       !.skills = IF @ = "" /\ d.tools THEN "tools" ELSE @,
                       !.career = FromWork(d), !.stamp = TRUE]
    IN  [p EXCEPT !.projects = reorderFeaturedProject(p),
                  !.mode = DeriveProfileMode(p), !.layout = DeriveResumeLayout(p)]

Blank == [id |-> 0, state |-> "blank"]
WithIds(projects) ==
    [i \in DOMAIN projects |->
        IF projects[i].id = 0 THEN [projects[i] EXCEPT !.id = nextId + i] ELSE projects[i]]

\* A stored or answered profile as a draft.  With one to three years, paid work
\* is told from the narrative here, and from the roles everywhere else.
normalizeProfileDraftFromUnknown(d) ==
    LET paid == PaidFor(d, d.career # "")
        some == IF d.projects = <<>> THEN <<Blank>> ELSE d.projects
        two == IF Len(some) < 2 /\ paid \in {"none", "internship_only"}
               THEN Append(some, Blank) ELSE some
    IN  [d EXCEPT !.paid = paid, !.projects = WithIds(two),
                  !.work = IF @ = <<>> THEN <<"blank">> ELSE @]
UsedIds(d) == nextId' = nextId + Len(normalizeProfileDraftFromUnknown(d).projects)

Or(new, old, none) == IF new = none THEN old ELSE new
mergeParsedProfile(draft, parsed) ==
    LET work == Roles(parsed.work)
        projects == Named(parsed.projects)
    IN  [draft EXCEPT
           !.years = Or(parsed.years, @, ""), !.seniority = Or(parsed.seniority, @, ""),
           !.career = Or(parsed.career, @, ""), !.skills = Or(parsed.skills, @, ""),
           !.text = Or(parsed.text, @, <<>>), !.tools = @ \/ parsed.tools,
           !.work = Or(work, @, <<>>), !.projects = Or(projects, @, <<>>),
           !.featured = IF @ = 0 /\ projects # <<>> THEN projects[1].id ELSE @]

readMajorMarketAuth(d, market) ==
    IF market \in d.markets \cup d.countries THEN "yes"
    ELSE IF d.needs THEN "needs_sponsorship" ELSE ""
applyMajorMarketAuth(d, market, value) ==
    LET of == [m \in Majors |-> IF m = market THEN value ELSE readMajorMarketAuth(d, m)]
        yes == {m \in Majors : of[m] = "yes"}
    IN  [d EXCEPT !.markets = yes, !.countries = (@ \ Majors) \cup yes,
                  !.needs = \E m \in Majors : of[m] = "needs_sponsorship"]

-----------------------------------------------------------------------------
(* What a resume's handler makes of an analysis.                            *)

\* Entries without company and role are dropped, unless no other is left.
normalizeParsedWorkEntries(work) ==
    IF Roles(work) = <<>> THEN work ELSE Roles(work)

\* mutant: an empty list is merged like any other
mergeEmptyLists(seen, a, n) ==
    [seen EXCEPT
       !.years = Or(a.years, @, ""), !.seniority = Or(a.seniority, @, ""),
       !.career = Or(a.career, @, ""), !.skills = Or(a.skills, @, ""),
       !.tools = @ \/ a.tools, !.work = normalizeParsedWorkEntries(a.work),
       !.projects = a.projects,
       !.needs = @ /\ ~a.failed, !.flags = IF a.failed THEN "reset" ELSE @,
       !.text = <<[resume |-> n]>>]

\* A failed analysis leaves strings and lists empty, which are skipped, but its
\* booleans are values.
mergeParsedProfileMaps(seen, a, n) ==
    [seen EXCEPT
       !.years = Or(a.years, @, ""), !.seniority = Or(a.seniority, @, ""),
       !.career = Or(a.career, @, ""), !.skills = Or(a.skills, @, ""),
       !.tools = @ \/ a.tools, !.work = Or(normalizeParsedWorkEntries(a.work), @, <<>>),
       !.projects = Or(a.projects, @, <<>>),
       !.needs = @ /\ ~a.failed, !.flags = IF a.failed THEN "reset" ELSE @,
       !.text = <<[resume |-> n]>>]

fallbackProfile ==
    [years |-> "", seniority |-> "", career |-> "", skills |-> "", tools |-> FALSE,
     work |-> <<>>, projects |-> <<>>, failed |-> TRUE]

-----------------------------------------------------------------------------

Empty ==
    [years |-> "", seniority |-> "", paid |-> "", mode |-> "", layout |-> "",
     filled |-> "no", tools |-> FALSE, skills |-> "", career |-> "", needs |-> FALSE,
     visa |-> "", markets |-> {}, countries |-> {}, work |-> <<>>, projects |-> <<>>,
     featured |-> 0, text |-> <<>>, flags |-> "own", stamp |-> FALSE]

Init ==
    /\ row = Empty /\ form = NoForm /\ loaded = FALSE
    /\ call = NoCall /\ embed = FALSE /\ writer = "none"
    /\ latest = 0 /\ excused = FALSE
    /\ edits = 0 /\ visits = 0 /\ resumes = 0 /\ nextId = 0

Load ==
    /\ form = NoForm /\ visits < MaxVisits /\ visits' = visits + 1
    /\ form' = normalizeProfileDraftFromUnknown(row) /\ UsedIds(row)
    /\ loaded' = (row.visa # "" \/ form'.paid # "")
    /\ UNCHANGED <<row, call, embed, writer, latest, excused, edits, resumes>>

AddProject(state) ==
    [form EXCEPT !.projects = Append(@, [id |-> nextId + 1, state |-> state]),
                 !.featured = nextId + 1]
Edit ==
    /\ form # NoForm /\ edits < MaxEdits /\ edits' = edits + 1
    /\ \/ \E y \in Years \ {"", form.years} : form' = [form EXCEPT !.years = y]
       \/ form.filled # "all" /\ form' = [form EXCEPT !.filled = "all", !.tools = TRUE,
                                                      !.seniority = Or(@, "junior", "")]
       \/ \E m \in Majors, v \in {"yes", "needs_sponsorship"} :
             form' = applyMajorMarketAuth(form, m, v)
       \/ form' = [form EXCEPT !.countries = form.markets \cup ({"uk"} \ @)]
       \/ \E s \in NewRoles \ {form.work[1]} : form' = [form EXCEPT !.work = <<s>>]
       \/ \E s \in NewProjects : Len(form.projects) < 3 /\ form' = AddProject(s)
       \/ \E i \in DOMAIN form.projects :
             form.projects[i].id # form.featured
             /\ form' = [form EXCEPT !.featured = form.projects[i].id]
    /\ nextId' = IF Len(form'.projects) > Len(form.projects) THEN nextId + 1 ELSE nextId
    /\ UNCHANGED <<row, loaded, call, embed, writer, latest, excused, visits, resumes>>

Writes(d) ==
    /\ row' = NormalizeProfileJSON(d)
    /\ writer' = IF loaded THEN "pinned" ELSE "fresh"
PutProfile ==
    /\ form # NoForm /\ Writes(form)
    /\ UNCHANGED <<form, loaded, call, embed, latest, excused, edits, visits, resumes, nextId>>

\* The stamp is set by both sides and kept by both; the form is left.
PostProfileSubmit ==
    /\ form # NoForm /\ isApplicantProfileComplete(form)
    /\ Writes(prepareProfileForSubmit(form))
    /\ embed' = ProfileComplete(row')
    /\ form' = NoForm /\ excused' = (excused \/ call # NoCall)
    /\ UNCHANGED <<loaded, call, latest, edits, visits, resumes, nextId>>

Leave ==
    /\ form # NoForm /\ form' = NoForm
    /\ excused' = (excused \/ call # NoCall \/ row # NormalizeProfileJSON(form))
    /\ UNCHANGED <<row, loaded, call, embed, writer, latest, edits, visits, resumes, nextId>>

\* The pasted text's handler reads the profile before the analysis, that of the
\* uploaded file after it; draft is the form's at the time.
PostResume(kind) ==
    /\ form # NoForm /\ call = NoCall /\ resumes < MaxResumes
    /\ resumes' = resumes + 1
    /\ call' = [at |-> "analysis", kind |-> kind, draft |-> form, visit |-> visits,
                seen |-> IF kind = "parse" THEN row ELSE Empty]
    /\ UNCHANGED <<row, form, loaded, embed, writer, latest, excused, edits, visits, nextId>>

analyzeResumeWithAI(a) ==
    /\ call.at = "analysis"
    /\ call' = [at |-> "write", kind |-> call.kind, draft |-> call.draft, visit |-> call.visit,
                seen |-> IF call.kind = "parse" THEN call.seen ELSE row, found |-> a]
    /\ UNCHANGED <<row, form, loaded, embed, writer, latest, excused, edits, visits, resumes, nextId>>

ResumeStored ==
    /\ call.at = "write"
    /\ row' = mergeParsedProfileMaps(call.seen, call.found, resumes)
    /\ writer' = "resume"
    /\ call' = [at |-> "answer", draft |-> call.draft, visit |-> call.visit, profile |-> row']
    /\ UNCHANGED <<form, loaded, embed, latest, excused, edits, visits, resumes, nextId>>

\* The answer is merged into the draft as it was, and the result into the draft
\* as it is.
Parsed ==
    mergeParsedProfile(form, mergeParsedProfile(call.draft,
        normalizeProfileDraftFromUnknown(call.profile)))
ResumeAnswered ==
    /\ call.at = "answer" /\ call' = NoCall
    /\ IF form # NoForm /\ call.visit = visits
       THEN form' = Parsed /\ UsedIds(call.profile) /\ latest' = resumes
       ELSE UNCHANGED <<form, nextId, latest>>
    /\ UNCHANGED <<row, loaded, embed, writer, excused, edits, visits, resumes>>

Next ==
    \/ Load \/ Edit \/ PutProfile \/ PostProfileSubmit \/ Leave
    \/ \E kind \in {"parse", "upload"} : PostResume(kind)
    \/ \E a \in Analyses \cup {fallbackProfile} : analyzeResumeWithAI(a)
    \/ ResumeStored \/ ResumeAnswered

Spec == Init /\ [][Next]_vars

-----------------------------------------------------------------------------
(* Properties.                                                              *)

\* The state's shape; an open form has a role and a project to fill in.
TypeOK ==
    /\ row \in Document /\ form \in Document \cup {NoForm}
    /\ form # NoForm => form.work # <<>> /\ form.projects # <<>>
    /\ call.at \in {"none", "analysis", "write", "answer"}
    /\ writer \in {"none", "fresh", "pinned", "resume"}
    /\ loaded \in BOOLEAN /\ embed \in BOOLEAN /\ excused \in BOOLEAN
    /\ latest \in 0..resumes /\ resumes \in 0..MaxResumes
    /\ edits \in 0..MaxEdits /\ visits \in 0..MaxVisits /\ nextId \in Nat

\* The stored layout is that of the stored paid work, whoever wrote last, and so
\* is the mode unless a resume's handler did, which derives nothing: the resume
\* of an application and the score it was matched with rest on the same targets.
DerivedFits ==
    /\ row.layout \in {"", DeriveResumeLayout(row)}
    /\ writer \in {"fresh", "pinned"} =>
         row.layout # "" /\ row.mode = DeriveProfileMode(row)

\* With the shape of the documents, which every merge and reload must keep.
DerivedInv == TypeOK /\ DerivedFits

\* A document saved by a form that was opened without derived fields says of
\* visa and paid work what its answers say, however often they were changed.
\* (A form opened later carries the derived values back as if they had been
\* entered, and a changed answer no longer reaches them: compile.go:313.)
AnswersAgree ==
    writer = "fresh" =>
        /\ row.visa = "need_sponsorship" <=> row.needs
        /\ row.paid = PaidFor([row EXCEPT !.paid = ""], HasFull(row.work))

\* The server stores a prepared profile as the form prepared it but for the
\* text, and a stored one, sent again, as it is but for the text, which stays
\* too where employment leads: the rules of the two sides agree, and saving
\* again settles.
SettledBy(d) == NormalizeProfileJSON(d) = [d EXCEPT !.text = CompileResumePlainText(d)]
NormalizeSettles ==
    /\ form # NoForm => SettledBy(prepareProfileForSubmit(form))
    /\ writer \in {"fresh", "pinned"} =>
         /\ SettledBy(row)
         /\ row.layout = "employment_led" => NormalizeProfileJSON(row) = row

\* The newest resume that the form heard of ends the text of the open form, and
\* of the stored document once the form is left, whatever was compiled in front
\* of it, saved while it was analysed, or failed to be read out of it.
EndsWith(d, n) == d.text # <<>> /\ d.text[Len(d.text)] = [resume |-> n]
ResumeIsKept ==
    latest # 0 /\ call = NoCall /\ ~excused =>
        EndsWith(IF form # NoForm THEN form ELSE row, latest)

\* A submit, which the form makes only of a profile it takes for complete, is
\* queued for matching exactly when it names a country the user may work in:
\* in all else the two rules of completion agree (compile.go:461).
CompletionAgrees == [][PostProfileSubmit => (embed' <=> row'.countries # {})]_vars

\* What a resume's handler stores lacks nothing that the profile it read had,
\* but for full roles lost to a list of blank ones; of a failed analysis only the
\* text, the need for sponsorship and the flags remain.  Nor does its answer
\* empty what the form holds by then, whatever the user typed meanwhile.
Filled(d) ==
    {f \in {"years", "seniority", "career", "skills", "paid", "visa"} : d[f] # ""}
        \cup {f \in {"work", "projects", "text"} : d[f] # <<>>}
AnalysisOnlyFills ==
    [][/\ ResumeStored =>
            /\ Filled(call.seen) \subseteq Filled(row')
            /\ row'.stamp = call.seen.stamp /\ row'.countries = call.seen.countries
            /\ call.found.failed =>
                 row' = [call.seen EXCEPT !.text = row'.text, !.needs = FALSE, !.flags = "reset"]
       /\ ResumeAnswered /\ form # NoForm => Filled(form) \subseteq Filled(form')
      ]_vars
=============================================================================
