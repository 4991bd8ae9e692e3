---------------------------- MODULE FormAnswers ----------------------------
(***************************************************************************)
(* How the tailorer fills one application form: classify the fields, route *)
(* each to an answerer by rules and by the language model's intents,       *)
(* answer, check the answers, ask again for what failed, and put the       *)
(* documents in.  The model is an environment that may say anything, say   *)
(* it of the wrong field, more than once or not at all, or fail.           *)
(*                                                                         *)
(* A label is the set of the patterns it matches and an option the set of  *)
(* the fragments it contains.  A value is a kind and what it is of.        *)
(***************************************************************************)
EXTENDS Integers, Sequences, FiniteSets, Positions

CONSTANTS
    Forms,       \* forms: sequences of fields
    Profiles,    \* profiles, as far as forms ask about them
    Intents,     \* what the model may say a field is for
    MaxRetries,  \* retries of a form; the code's constant is 3
    MaxRerouted, \* bound: sure fields the model's intents also speak of
    MaxRows      \* bound: rows of the model's answer for a batch

FormField ==
    [label : STRING, words : SUBSET STRING, type : STRING, required : BOOLEAN,
     options : Seq([text : STRING, has : SUBSET STRING])]
\* The subjects a select is answered on: the profile's answer to each but the
\* third is the fragment its facts call for, or "none".
Subjects == <<"latinAmerican", "timeZone", "workAuth", "stackYears", "noticePeriod",
              "compensation", "salary", "homeRegion", "saasProduct", "cloudCertification">>
Profile ==
    [facts : SUBSET STRING, visa : STRING, arrangement : STRING, needs : BOOLEAN,
     inUS : BOOLEAN, inCanada : BOOLEAN, relocate : BOOLEAN, english : Seq(STRING),
     says : [{Subjects[i] : i \in DOMAIN Subjects} \ {"workAuth"} -> STRING]]

ASSUME FormsAssumption ==
    /\ Forms \subseteq Seq(FormField)
    /\ \A f \in Forms : \A p, q \in DOMAIN f : f[p].label = f[q].label => p = q
ASSUME ProfilesAssumption == Profiles \subseteq Profile
ASSUME RetriesAssumption == MaxRetries \in Nat /\ MaxRerouted \in Nat /\ MaxRows \in Nat

VARIABLES
    stage,     \* what is done next
    form, profile,
    letter,    \* the cover letter written before the form: its text, or Blank
    routes,    \* per position: strategy, expected format, confident
    rows,      \* the rows of the model's answer for the batch, in its order
    answers,   \* per position: the value
    todo,      \* positions to be asked again: links, then duplicated links
    retried,   \* successful retries
    tried,     \* positions a retry was attempted for
    lints      \* failures of the last check: pairs of rule and position

vars == <<stage, form, profile, letter, routes, rows, answers, todo, retried, tried, lints>>

-----------------------------------------------------------------------------
(* Labels and classes.                                                      *)

filePatterns == {"resume"}
identityPatterns == {"name", "firstName", "lastName", "fullName", "email", "phone",
                     "linkedin", "github", "portfolio", "website", "url"}
eeoPatterns == {"eeo"}
locationPatterns == {"location", "remote", "workAuthorization", "authorizedToWork"}
githubDescribePatterns == {"describe", "contribution"}
behavioralPatterns == {"tellUs", "experienceWith"}
proseQuestionPatterns == {"describe", "tellUs", "why"}
clearIdentityPatterns == {"firstName", "lastName", "fullName", "email", "phone", "mobile",
                          "linkedin", "portfolio", "currentCompany", "twitter"}
complianceLabelPatterns == {"sponsorship", "exportControl", "clearance", "visa",
                            "workAuthorization", "authorizedToWork", "onsiteOffice"}

matchAny(f, patterns) == f.words \cap patterns # {}

isGitHubDescribeQuestion(f) == "github" \in f.words /\ matchAny(f, githubDescribePatterns)
isGitHubLinkQuestion(f) == "github" \in f.words /\ ~isGitHubDescribeQuestion(f)
isClearIdentityLabel(f) ==
    /\ ~matchAny(f, proseQuestionPatterns) /\ ~isGitHubDescribeQuestion(f)
    /\ isGitHubLinkQuestion(f) \/ matchAny(f, clearIdentityPatterns)

ClassifyFormField(f) ==
    IF "coverLetter" \in f.words
      THEN IF f.type = "file" THEN "cover_letter" ELSE "cover_letter_text"
    ELSE IF f.type = "file" \/ matchAny(f, filePatterns) THEN "file"
    ELSE IF matchAny(f, eeoPatterns) THEN "eeo"
    ELSE IF isGitHubDescribeQuestion(f)
      THEN IF f.type = "textarea" THEN "long_text" ELSE "behavioral"
    ELSE IF matchAny(f, identityPatterns) THEN "identity"
    ELSE IF f.type = "select" THEN "select"
    ELSE IF matchAny(f, locationPatterns) THEN "location"
    ELSE IF matchAny(f, behavioralPatterns) THEN "behavioral"
    ELSE IF f.type = "textarea" THEN "long_text" ELSE "short_text"

-----------------------------------------------------------------------------
(* Routes.                                                                  *)

Strategy == {"skip_cover_text", "deterministic", "compliance_select", "behavioral",
             "batch_llm", "needs_intent"}
Prose == {"prose_short", "prose_long"}
Format == {"none", "skip", "url", "identity", "location", "yes_no", "select_option",
           "empty_ok"} \cup Prose
Route == [strategy : Strategy, format : Format, confident : BOOLEAN]

identityFormat(f) ==
    IF isGitHubLinkQuestion(f) \/ "url" \in f.words THEN "url" ELSE "identity"
proseFormat(f) ==
    IF (f.type = "textarea" \/ ClassifyFormField(f) = "long_text")
       /\ ~isGitHubDescribeQuestion(f)
      THEN "prose_long" ELSE "prose_short"
yesNoOptions(f) == \A t \in {"yes", "no"} : \E o \in DOMAIN f.options : f.options[o].text = t

Sure(strategy, format) == [strategy |-> strategy, format |-> format, confident |-> TRUE]
Unsure == [strategy |-> "needs_intent", format |-> "none", confident |-> FALSE]

resolveRuleRoute(f) ==
    LET class == ClassifyFormField(f)
        identity == isClearIdentityLabel(f)
        prose == isGitHubDescribeQuestion(f) \/ matchAny(f, proseQuestionPatterns)
                 \/ matchAny(f, behavioralPatterns)
    IN  CASE class \in {"file", "cover_letter"} -> Sure("deterministic", "skip")
          [] class = "cover_letter_text" -> Sure("skip_cover_text", "skip")
          [] class = "eeo" -> Sure("deterministic", "empty_ok")
          [] class = "location" -> Sure("deterministic", "location")
          [] class \in {"identity", "short_text"} /\ identity ->
                Sure("deterministic", identityFormat(f))
          [] class = "short_text" /\ ~identity /\ matchAny(f, locationPatterns) ->
                Sure("deterministic", "location")
          [] class = "select" /\ matchAny(f, complianceLabelPatterns) ->
                Sure("compliance_select",
                     IF yesNoOptions(f) THEN "yes_no" ELSE "select_option")
          [] class = "behavioral" \/ (class = "long_text" /\ prose) ->
                Sure("behavioral", proseFormat(f))
          [] OTHER -> Unsure

\* The model's answer for one field: a format ("none": one the code does not
\* know), a strategy, and whether its name speaks of prose.
Intent == [format : Format \ {"skip"}, strategy : Strategy, prose : BOOLEAN]
ASSUME IntentsAssumption == Intents \subseteq Intent

mapExpectedFormat(f, intent) ==
    IF intent.format # "none" THEN intent.format
    ELSE IF f.type = "textarea" THEN "prose_long" ELSE "identity"

applyIntent(f, intent) ==
    LET format == mapExpectedFormat(f, intent)
    IN  IF intent.prose
          THEN Sure("behavioral",
                    IF format \in {"url", "identity"} THEN "prose_short" ELSE format)
        ELSE IF format = "url" /\ intent.strategy = "behavioral"
          THEN Sure("deterministic", format)
        ELSE IF intent.strategy \in {"deterministic", "compliance_select", "behavioral"}
          THEN Sure(intent.strategy, format) ELSE Sure("batch_llm", format)

fallbackAmbiguousRoute(f, route) ==
    LET class == ClassifyFormField(f)
    IN  IF route.confident THEN route
        ELSE IF class \in {"behavioral", "long_text"}
          THEN Sure("behavioral", proseFormat(f))
        ELSE IF class = "select" THEN Sure("compliance_select", "select_option")
        ELSE Sure("batch_llm", "identity")

-----------------------------------------------------------------------------
(* Answers from the profile.                                                *)

Kinds == {"blank", "fact", "link", "option", "fragment", "said", "prose", "placeholder",
          "document"}
Of(kind, what) == [kind |-> kind, of |-> what]
IsValue(v) == v.kind \in Kinds /\ v = Of(v.kind, v.of)
Blank == Of("blank", "")
GithubLink == Of("link", "github")

\* The profile's answer to a question, the first of the facts that it has.
IdentityQuestions == <<
    [words |-> {"firstName"}, facts |-> <<"firstName">>],
    [words |-> {"lastName"}, facts |-> <<"lastName">>],
    [words |-> {"fullName"}, facts |-> <<"fullName">>],
    [words |-> {"email"}, facts |-> <<"email">>],
    [words |-> {"phone", "mobile"}, facts |-> <<"phone">>],
    [words |-> {"linkedin"}, facts |-> <<"linkedin">>],
    [words |-> {"github"}, facts |-> <<"github">>],
    [words |-> {"portfolio", "website"}, facts |-> <<"portfolio", "github">>],
    [words |-> {"currentCompany"}, facts |-> <<"currentCompany">>] >>
LinkFacts == {"linkedin", "github", "portfolio"}

resolveIdentityAnswer(f) ==
    LET asked == {i \in DOMAIN IdentityQuestions :
                    /\ f.words \cap IdentityQuestions[i].words # {}
                    /\ ~(IdentityQuestions[i].words = {"github"} /\ isGitHubDescribeQuestion(f))}
        facts == IdentityQuestions[First(asked)].facts
        known == {i \in DOMAIN facts : facts[i] \in profile.facts}
        fact == facts[First(known)]
    IN  IF asked = {} THEN Blank ELSE IF known = {} THEN Blank
        ELSE Of(IF fact \in LinkFacts THEN "link" ELSE "fact", fact)

resolveLocationAnswer(f) ==
    IF f.words \cap {"workAuthorization", "authorizedToWork"} # {}
      THEN Of("fact", IF profile.visa # "none" THEN profile.visa
                      ELSE IF profile.needs THEN "requiresSponsorship" ELSE "authorizedToWork")
    ELSE IF "remote" \in f.words
      THEN IF profile.arrangement = "none" THEN Blank ELSE Of("fact", profile.arrangement)
    ELSE IF "location" \in profile.facts THEN Of("fact", "location") ELSE Blank

pickOption(f, fragment) ==
    LET hits == {i \in DOMAIN f.options : fragment \in f.options[i].has}
    IN  IF hits = {} THEN Blank ELSE Of("option", f.options[First(hits)].text)
YesIf(f, b) == pickOption(f, IF b THEN "yes" ELSE "no")

AsksAuthorization(f) == f.words \cap {"authorizedToWork", "legalAuthorization"} # {}

\* What the work-authorization questions are answered with, {} for no answer.
inferWorkAuthSelect(f) ==
    IF f.words \cap {"sponsorship", "requireSupport"} # {} THEN {YesIf(f, profile.needs)}
    ELSE IF ~AsksAuthorization(f) THEN {}
    ELSE IF "inUS" \in f.words THEN {YesIf(f, profile.inUS)}
    ELSE IF "inCanada" \in f.words THEN {YesIf(f, profile.inCanada)}
    ELSE IF "thatCountry" \in f.words THEN {pickOption(f, "yes")} ELSE {}

\* The first rule that has an answer; Blank when none has.
FirstOf(candidates) ==
    LET given == {i \in DOMAIN candidates : candidates[i] # Blank}
    IN  IF given = {} THEN Blank ELSE candidates[First(given)]

resolveExportControlsAnswer(f) ==
    IF "exportControl" \notin f.words THEN Blank
    ELSE pickOption(f, IF profile.visa = "need_sponsorship" THEN "noneOfTheAbove"
                       ELSE "usNational")

NeedsByStatus == profile.visa = "need_sponsorship"   \* mutant: the flag is not read
NeedsSponsorship == profile.needs \/ profile.visa = "need_sponsorship"

resolveComplianceSelect(f) ==
    LET early == FirstOf(<<
            resolveExportControlsAnswer(f),
            IF "clearanceEligibility" \in f.words THEN pickOption(f, "eligible") ELSE Blank,
            IF "clearanceLevel" \in f.words THEN pickOption(f, "neverHeld") ELSE Blank>>)
        auth == inferWorkAuthSelect(f)
    IN  IF early # Blank THEN early
        ELSE IF "sponsorship" \in f.words
          THEN YesIf(f, NeedsSponsorship)
        ELSE IF f.words \cap {"workAuthorization", "authorizedToWork"} # {} /\ auth # {}
          THEN CHOOSE v \in auth : TRUE
        ELSE IF "onsiteOffice" \in f.words
                /\ (profile.arrangement \in {"onsite", "flexible"} \/ profile.relocate)
          THEN pickOption(f, "yes") ELSE Blank


\* The subjects that leave a field whose options do not meet the profile's
\* answer to the later ones; the others leave it blank.
PassesOn(subject) ==
    \/ subject \in {"stackYears", "compensation", "homeRegion"}
    \/ subject = "noticePeriod" /\ profile.says[subject] # "immediate"

\* What the profile says on a subject, {} for no answer.  A salary is told
\* whatever the options are.
Told(f, subject) ==
    IF subject = "workAuth" THEN inferWorkAuthSelect(f)
    ELSE IF subject \notin f.words \/ profile.says[subject] = "none" THEN {}
    ELSE IF subject = "salary" THEN {Of("fragment", profile.says[subject])}
    ELSE {pickOption(f, profile.says[subject])} \ {v \in {Blank} : PassesOn(subject)}

\* The profile's English level is looked for among the options of any select,
\* whatever it asks.
resolveInferableSelect(f) ==
    LET english == FirstOf([i \in DOMAIN profile.english |->
                                pickOption(f, profile.english[i])])
        told == {i \in DOMAIN Subjects : Told(f, Subjects[i]) # {}}
    IN  IF f.options = <<>> THEN Blank
        ELSE IF english # Blank THEN english
        ELSE IF told = {} THEN Blank
        ELSE CHOOSE v \in Told(f, Subjects[First(told)]) : TRUE

normalizeSelectValue(f, v) ==
    IF v.kind = "fragment" /\ pickOption(f, v.of) # Blank THEN pickOption(f, v.of) ELSE v

\* A fact that no option meets is returned as it is.
resolveSelectAnswer(f) ==
    LET raw == resolveIdentityAnswer(f)
        option == pickOption(f, raw.of)
    IN  FirstOf(<<resolveComplianceSelect(f), resolveInferableSelect(f),
                  IF raw # Blank /\ option # Blank THEN option ELSE raw>>)

answerDeterministicField(f, route) ==
    LET identity == resolveIdentityAnswer(f)
    IN  IF route.format = "empty_ok" THEN Blank
        ELSE IF identity = Blank /\ route.format = "location"
          THEN resolveLocationAnswer(f) ELSE identity

\* What the batch answers without the model, and which fields it asks about.
BatchAnswer(f) ==
    LET class == ClassifyFormField(f)
        chosen == resolveSelectAnswer(f)
        identity == resolveIdentityAnswer(f)
    IN  CASE class = "identity" -> identity
          [] class = "location" -> resolveLocationAnswer(f)
          [] class = "select" -> IF f.options # <<>> /\ chosen.kind \in {"fact", "link"}
                                   THEN Blank ELSE normalizeSelectValue(f, chosen)
          [] class = "short_text" ->
                IF identity = Blank /\ matchAny(f, locationPatterns)
                  THEN resolveLocationAnswer(f) ELSE identity
          [] OTHER -> Blank
NeedsLLM(f) ==
    /\ ClassifyFormField(f) \notin {"eeo", "identity", "location"}
    /\ BatchAnswer(f) = Blank

-----------------------------------------------------------------------------
(* What the model may say.                                                  *)

P == DOMAIN form
NoIntent == [format |-> "none", strategy |-> "needs_intent", prose |-> FALSE]
\* What the model says for a field, of one of the kinds.
Says(kind, f) ==
    CASE kind \in {"prose", "said"} -> Of(kind, f.label)
      [] kind = "link" -> GithubLink
      [] kind = "fragment" -> IF f.options = <<>> THEN Of("said", f.label) ELSE Of(kind, "yes")
      [] kind = "placeholder" -> Of(kind, "")
      [] kind = "blank" -> Blank
ProseKinds == {"prose", "link", "placeholder", "blank"}

\* A row of the batch's answer: the field at the position it carries and the
\* field that its label names, 0 for none that was asked about, and what it
\* says, of any of them.
BatchKinds == {"blank", "said", "link", "fragment"}
Row(asked) ==
    [position : asked \cup {0}, label : asked \cup {0},
     value : {Says(kind, form[q]) : kind \in BatchKinds, q \in asked}]
BatchRows(asked) == UNION {[1..n -> Row(asked)] : n \in 0..MaxRows}

\* A row is read with the options of the first field that it speaks of.
RowValue(row) ==
    LET fields == {row.position, row.label} \ {0}
    IN  IF fields = {} THEN row.value
        ELSE normalizeSelectValue(form[First(fields)], row.value)

At(said, p) == {i \in DOMAIN said : said[i].position = p}
Naming(said, p) == {i \in DOMAIN said : said[i].label = p}
Last(said, I) == said[CHOOSE i \in I : \A j \in I : i >= j]

\* mutant: the position goes before the label
mergeByPosition(said, p) ==
    IF At(said, p) # {} THEN RowValue(Last(said, At(said, p)))
    ELSE IF Naming(said, p) # {} THEN RowValue(Last(said, Naming(said, p)))
    ELSE resolveInferableSelect(form[p])

\* A row that names the field goes before one at its position, unless it is
\* blank; of several that name it, or stand at its position, the last counts.
mergeBatchAnswers(said, p) ==
    IF Naming(said, p) # {} /\ RowValue(Last(said, Naming(said, p))) # Blank
      THEN RowValue(Last(said, Naming(said, p)))
    ELSE IF At(said, p) # {} THEN RowValue(Last(said, At(said, p)))
    ELSE resolveInferableSelect(form[p])

-----------------------------------------------------------------------------
(* The checks.                                                              *)

Unchecked(p) == routes[p].format \in {"skip", "empty_ok"}
DuplicateUrl(vals, p) ==
    LET same == {q \in P : vals[q] = vals[p]}
    IN  /\ vals[p].kind = "link" /\ Cardinality(same) >= 2
        /\ Cardinality({q \in same : routes[q].format # "url"}) >= 2
        /\ routes[p].format \in Prose

Fails(rule, vals, p) ==
    CASE rule = "required_empty" ->
            form[p].required /\ vals[p] = Blank /\ ~Unchecked(p)
      [] rule = "placeholder_text" -> vals[p].kind = "placeholder" /\ ~Unchecked(p)
      [] rule = "url_in_prose_field" -> vals[p].kind = "link" /\ routes[p].format \in Prose
      [] rule = "duplicate_url_in_prose_field" -> DuplicateUrl(vals, p)
Rules == {"required_empty", "placeholder_text", "url_in_prose_field",
          "duplicate_url_in_prose_field"}

LintFormAnswers(vals) == {l \in Rules \X P : Fails(l[1], vals, l[2])}
Failing(rule, found) == {p \in P : <<rule, p>> \in found}

-----------------------------------------------------------------------------
(* The steps.                                                               *)

Init ==
    /\ form \in Forms /\ profile \in Profiles
    /\ letter \in {Blank, Of("document", "coverText")}
    /\ stage = "route"
    /\ routes = [p \in P |-> Unsure] /\ rows = <<>>
    /\ answers = [p \in P |-> Blank]
    /\ todo = [links |-> {}, doubles |-> {}] /\ retried = 0 /\ tried = {} /\ lints = {}

ResolveFieldRoutes ==
    /\ stage = "route"
    /\ routes' = [p \in P |-> resolveRuleRoute(form[p])]
    /\ stage' = IF \A p \in P : routes'[p].confident THEN "answer" ELSE "intent"
    /\ UNCHANGED <<form, profile, letter, rows, answers, todo, retried, tried, lints>>

\* The model is asked about the unsure fields and shown the whole form; what it
\* says of a sure field is applied too.
BuildFieldIntentMap ==
    /\ stage = "intent"
    /\ \E said \in [P -> Intents \cup {NoIntent}] :
          /\ Cardinality({p \in P : routes[p].confident /\ said[p] # NoIntent}) <= MaxRerouted
          /\ routes' = [p \in P |-> IF said[p] = NoIntent
                                      THEN fallbackAmbiguousRoute(form[p], routes[p])
                                      ELSE applyIntent(form[p], said[p])]
    /\ stage' = "answer"
    /\ UNCHANGED <<form, profile, letter, rows, answers, todo, retried, tried, lints>>

IntentFails ==
    /\ stage = "intent"
    /\ routes' = [p \in P |-> fallbackAmbiguousRoute(form[p], routes[p])]
    /\ stage' = "answer"
    /\ UNCHANGED <<form, profile, letter, rows, answers, todo, retried, tried, lints>>

By(strategy) == {p \in P : routes[p].strategy = strategy}

answerRoutedFields ==
    /\ stage = "answer"
    /\ \E prose \in [By("behavioral") -> ProseKinds] :
          answers' = [p \in P |->
                CASE p \in By("skip_cover_text") -> letter
                  [] p \in By("deterministic") -> answerDeterministicField(form[p], routes[p])
                  [] p \in By("compliance_select") -> resolveSelectAnswer(form[p])
                  [] p \in By("behavioral") -> Says(prose[p], form[p])
                  [] OTHER -> Blank]
    /\ stage' = IF By("batch_llm") = {} THEN "lint" ELSE "batch"
    /\ UNCHANGED <<form, profile, letter, routes, rows, todo, retried, tried, lints>>

answerBatchFields ==
    /\ stage = "batch"
    /\ LET asked == {p \in By("batch_llm") : NeedsLLM(form[p])}
       IN  \E said \in IF asked = {} THEN {<<>>} ELSE BatchRows(asked) :
              /\ rows' = said
              /\ answers' = [p \in P |->
                    IF p \in asked THEN mergeBatchAnswers(said, p)
                    ELSE IF p \in By("batch_llm") THEN BatchAnswer(form[p]) ELSE answers[p]]
    /\ stage' = "lint"
    /\ UNCHANGED <<form, profile, letter, routes, todo, retried, tried, lints>>

\* An error of either answerer gives the whole application up.
AnswerFails ==
    /\ \/ stage = "answer" /\ By("behavioral") # {}
       \/ stage = "batch" /\ \E p \in By("batch_llm") : NeedsLLM(form[p])
    /\ stage' = "failed"
    /\ UNCHANGED <<form, profile, letter, routes, rows, answers, todo, retried, tried, lints>>

Lint ==
    /\ stage = "lint"
    /\ LET found == LintFormAnswers(answers)
       IN  /\ lints' = found
           /\ todo' = [links |-> Failing("url_in_prose_field", found),
                       doubles |-> Failing("duplicate_url_in_prose_field", found)]
           /\ stage' = IF found = {} THEN "finalize" ELSE "retry"
    /\ UNCHANGED <<form, profile, letter, routes, rows, answers, retried, tried>>

\* The failures in the order of the check: the links by position, then the
\* duplicates, whose order is that of a map.
NextUp(t) == IF t.links # {} THEN {First(t.links)} ELSE t.doubles
Without(t, p) == IF t.links # {} THEN [t EXCEPT !.links = @ \ {p}]
                 ELSE [t EXCEPT !.doubles = @ \ {p}]

Retriable == retried < MaxRetries

\* An error or one more link leaves the answer and the count as they are.
RetryFailure ==
    /\ stage = "retry" /\ Retriable
    /\ \E p \in NextUp(todo) :
          /\ routes' = [routes EXCEPT ![p].strategy = "behavioral"]
          /\ todo' = Without(todo, p) /\ tried' = tried \cup {p}
          /\ \/ UNCHANGED <<answers, retried>>
             \/ \E kind \in ProseKinds \ {"link"} :
                   /\ answers' = [answers EXCEPT ![p] = Says(kind, form[p])]
                   /\ retried' = retried + 1
    /\ UNCHANGED <<stage, form, profile, letter, rows, lints>>

\* mutant: the answers are not checked again
RetryEndsUnchecked ==
    /\ stage = "retry" /\ (retried >= MaxRetries \/ NextUp(todo) = {})
    /\ stage' = "finalize"
    /\ UNCHANGED <<form, profile, letter, routes, rows, answers, todo, retried, tried, lints>>

RetryEnds ==
    /\ stage = "retry" /\ (retried >= MaxRetries \/ NextUp(todo) = {})
    /\ lints' = LintFormAnswers(answers)
    /\ stage' = "finalize"
    /\ UNCHANGED <<form, profile, letter, routes, rows, answers, todo, retried, tried>>

\* The documents replace whatever was answered for them.  Only a letter with
\* text is rendered.
FinalizeFormAnswers ==
    /\ stage = "finalize"
    /\ answers' = [p \in P |->
            LET class == ClassifyFormField(form[p])
            IN  IF class = "file" THEN Of("document", "resumePDF")
                ELSE IF class = "cover_letter" /\ letter # Blank THEN Of("document", "coverPDF")
                ELSE IF class \in {"cover_letter", "cover_letter_text"}
                  THEN letter ELSE answers[p]]
    /\ stage' = "done"
    /\ UNCHANGED <<form, profile, letter, routes, rows, todo, retried, tried, lints>>

Next ==
    \/ ResolveFieldRoutes \/ BuildFieldIntentMap \/ IntentFails
    \/ answerRoutedFields \/ answerBatchFields \/ AnswerFails
    \/ Lint \/ RetryFailure \/ RetryEnds \/ FinalizeFormAnswers

Spec == Init /\ [][Next]_vars

-----------------------------------------------------------------------------
(* Properties.                                                              *)

\* The state's shape; a retry never goes past the limit.
TypeOK ==
    /\ stage \in {"route", "intent", "answer", "batch", "lint", "retry", "finalize",
                  "done", "failed"}
    /\ form \in Forms /\ profile \in Profiles /\ IsValue(letter)
    /\ routes \in [P -> Route]
    /\ DOMAIN answers = P /\ \A p \in P : IsValue(answers[p])
    /\ rows \in Seq(Row(P)) /\ Len(rows) <= MaxRows
    /\ todo.links \subseteq P /\ todo.doubles \subseteq P
    /\ retried \in 0..MaxRetries /\ tried \subseteq P /\ lints \subseteq Rules \X P

\* What the model wrote for one field does not end up in another as long as the
\* rows that name the field are its own: they say something of it and carry no
\* other field's position.  If the last of them is not blank, that is its
\* answer, whatever rows stand at its position (the prompt shows the model two
\* numbers for every field, forms.go:290); and it does not get lost, but for
\* what a question about a cover letter is answered with: the letter goes in
\* its place, and may be blank (forms.go:445).  If it is blank, or no row names
\* the field, the rows at its position have to be its own too, and name no
\* other.  Nothing the other rows do matters, whatever they say and however
\* many they are.  A row of another field that is labelled with this one's name
\* does replace its answer (profile_inference.go:458).
Own(i, p) ==
    /\ rows[i].position \in {0, p} /\ rows[i].label \in {0, p}
    /\ rows[i].value.kind = "said" => rows[i].value.of = form[p].label
Named(p) == Naming(rows, p) # {} /\ Last(rows, Naming(rows, p)).value # Blank
IsCoverLetter(f) == ClassifyFormField(f) \in {"cover_letter", "cover_letter_text"}
BelongsTo(p, v) ==
    CASE v.kind \in {"said", "prose"} -> v.of = form[p].label
      [] v.kind = "option" -> \E o \in DOMAIN form[p].options : form[p].options[o].text = v.of
      [] OTHER -> TRUE
AnswerIsItsOwn ==
    stage = "done" =>
        \A p \in P : (\A i \in Naming(rows, p) : Own(i, p)) =>
            /\ Named(p) \/ (\A i \in At(rows, p) : Own(i, p)) => BelongsTo(p, answers[p])
            /\ Named(p) /\ p \notin tried => answers[p] # Blank \/ IsCoverLetter(form[p])

\* An answer that should be prose and is only a link leaves the pipeline when
\* the field was asked again in vain or the retries were used up, and never
\* without a failed check to show for it.
ProseIsNotALink ==
    stage = "done" =>
        \A p \in P :
            routes[p].format \in Prose /\ answers[p].kind = "link" =>
                <<"url_in_prose_field", p>> \in lints /\ (p \in tried \/ retried = MaxRetries)

\* A required field that goes out blank failed the last check, also when a
\* retry blanked it, unless somebody said that it may be blank.  A cover letter
\* is not checked.
BlankIsReported ==
    stage = "done" =>
        \A p \in P :
            /\ form[p].required /\ answers[p] = Blank
            /\ ~IsCoverLetter(form[p])
            => <<"required_empty", p>> \in lints \/ routes[p].format = "empty_ok"

\* What goes out unfit is what was asked again in vain or could not be, and is
\* on record: a retry neither hides a failure nor leaves one unseen.
FailuresAreReported == TypeOK /\ ProseIsNotALink /\ BlankIsReported

\* The questions about sponsorship and authorization are answered by several
\* rules that read different fields of the profile.  For a profile whose visa
\* status says what its flag says they agree with the flags, whether the field
\* was routed by the rules, by the model or to the batch.  A label that asks
\* for something else as well is answered on that, by an earlier rule.
Consistent == profile.visa = "need_sponsorship" => profile.needs
Unambiguous(f) ==
    /\ pickOption(f, "yes") # Blank /\ pickOption(f, "no") # Blank
    /\ pickOption(f, "yes") # pickOption(f, "no")
    /\ \A i \in DOMAIN profile.english : pickOption(f, profile.english[i]) = Blank
ByRule(p) ==
    /\ ClassifyFormField(form[p]) = "select" /\ p \notin tried
    /\ routes[p].strategy \in {"compliance_select", "batch_llm"}
\* What a label may ask for besides, and is answered on first.
AsksAnotherQuestion(f) ==
    matchAny(f, {"exportControl", "clearanceEligibility", "clearanceLevel", "onsiteOffice",
                 "latinAmerican", "timeZone"})
SponsorshipIsTrue ==
    stage = "done" /\ Consistent =>
        \A p \in P : ByRule(p) /\ Unambiguous(form[p]) /\ ~AsksAnotherQuestion(form[p]) =>
            /\ form[p].words \cap {"sponsorship", "requireSupport"} # {} =>
                    answers[p] = YesIf(form[p], profile.needs)
            /\ form[p].words = {"authorizedToWork", "inUS"} =>
                    answers[p] = YesIf(form[p], profile.inUS)
=============================================================================
