-------------------------- MODULE FormAnswersProofs --------------------------
(***************************************************************************)
(* Theorems about FormAnswers for any forms and profiles, any intents and  *)
(* any number of retries, whatever the language model says.                *)
(***************************************************************************)
EXTENDS FormAnswers, FiniteSetTheorems, WellFoundedInduction, TLAPS

-----------------------------------------------------------------------------
(* Positions of a list.                                                     *)

\* A finite set of numbers that is not empty has a least one: what is below a
\* number, in the set, cannot get smaller for ever.
LEMMA LeastElement ==
    ASSUME NEW I, I # {}, IsFiniteSet(I), \A i \in I : i \in Int
    PROVE  First(I) \in I /\ \A j \in I : First(I) <= j
<1> DEFINE UpTo(i) == {j \in I : j <= i}
<1>1. {UpTo(i) : i \in I} \subseteq FiniteSubsetsOf(I) /\ {UpTo(i) : i \in I} # {}
  <2>1. ASSUME NEW i \in I PROVE UpTo(i) \in FiniteSubsetsOf(I)
    <3>1. UpTo(i) \in SUBSET I
      OBVIOUS
    <3>2. IsFiniteSet(UpTo(i))
      BY <3>1, FS_Subset
    <3> QED BY <3>1, <3>2 DEF FiniteSubsetsOf
  <2> HIDE DEF UpTo
  <2> QED BY <2>1
<1>2. PICK S \in {UpTo(i) : i \in I} : \A T \in {UpTo(i) : i \in I} :
           ~(<<T, S>> \in StrictSubsetOrdering(I))
  <2>1. IsWellFoundedOn(StrictSubsetOrdering(I), FiniteSubsetsOf(I))
    BY FS_StrictSubsetOrderingWellFounded
  <2> DEFINE T == {UpTo(i) : i \in I}
             R == StrictSubsetOrdering(I)
             D == FiniteSubsetsOf(I)
  <2>2. T \subseteq D /\ T # {} /\ IsWellFoundedOn(R, D)
    BY <1>1, <2>1
  <2> HIDE DEF T, R, D
  <2>3. \E x \in T : \A y \in T : ~(<<y, x>> \in R)
    BY <2>2, WFMin
  <2> QED BY <2>3 DEF T, R
<1>3. PICK i \in I : S = UpTo(i)
  BY <1>2
<1>4. ASSUME NEW j \in I, j < i PROVE FALSE
  <2>1. UpTo(j) \subseteq S /\ i \in S /\ i \notin UpTo(j)
    BY <1>3, <1>4
  <2>2. UpTo(j) \in SUBSET I /\ S \in SUBSET I
    BY <1>3
  <2> HIDE DEF UpTo
  <2> QED BY <1>2, <2>1, <2>2 DEF StrictSubsetOrdering
<1>5. \A j \in I : i <= j
  BY <1>4
<1> QED BY <1>5 DEF First

LEMMA FirstPosition ==
    ASSUME NEW n \in Nat, NEW I \in SUBSET (1..n), I # {}
    PROVE  First(I) \in I /\ \A j \in I : First(I) <= j
<1>1. IsFiniteSet(1..n)
  BY FS_Interval
<1>2. IsFiniteSet(I)
  BY <1>1, FS_Subset
<1>3. \A i \in I : i \in Int
  OBVIOUS
<1> QED BY <1>2, <1>3, LeastElement

\* A set of positions that is not empty has a last one: the one whose distance
\* from the end is least.
LEMMA LastPosition ==
    ASSUME NEW n \in Nat, NEW I \in SUBSET (1..n), I # {}
    PROVE  LET last == CHOOSE q \in I : \A r \in I : q >= r IN last \in I
<1> DEFINE D == {k \in 1..n : n + 1 - k \in I}
<1>1. D \in SUBSET (1..n) /\ D # {}
  <2>1. PICK i \in I : TRUE
    OBVIOUS
  <2>2. n + 1 - i \in 1..n /\ n + 1 - (n + 1 - i) = i
    OBVIOUS
  <2> QED BY <2>2
<1>2. PICK k \in D : \A j \in D : k <= j
  <2> HIDE DEF D
  <2> QED BY <1>1, FirstPosition
<1>3. n + 1 - k \in I
  BY <1>2
<1>4. ASSUME NEW r \in I PROVE n + 1 - k >= r
  <2>1. n + 1 - r \in D
    <3>1. n + 1 - r \in 1..n /\ n + 1 - (n + 1 - r) = r
      OBVIOUS
    <3> QED BY <3>1
  <2>2. k <= n + 1 - r /\ k \in 1..n
    BY <1>2, <2>1
  <2> QED BY <2>2
<1> QED BY <1>3, <1>4

-----------------------------------------------------------------------------
(* Values.                                                                  *)

LEMMA ValueType ==
    /\ IsValue(Blank) /\ IsValue(GithubLink) /\ GithubLink # Blank /\ Blank.kind = "blank"
    /\ GithubLink.kind = "link"
    /\ \A kind, of : /\ Of(kind, of).kind = kind /\ Of(kind, of).of = of
                     /\ kind \in Kinds => IsValue(Of(kind, of))
                     /\ kind # "blank" => Of(kind, of) # Blank
<1>1. \A kind, of : Of(kind, of).kind = kind /\ Of(kind, of).of = of
  BY DEF Of
<1>2. \A kind, of : kind \in Kinds => IsValue(Of(kind, of))
  BY <1>1 DEF IsValue
<1>3. Blank.kind = "blank" /\ GithubLink.kind = "link"
  BY <1>1 DEF GithubLink, Blank
<1>4. IsValue(Blank) /\ IsValue(GithubLink)
  <2>1. "blank" \in Kinds /\ "link" \in Kinds
    BY DEF Kinds
  <2> QED BY <1>2, <2>1 DEF GithubLink, Blank
<1>5. \A kind, of : kind # "blank" => Of(kind, of) # Blank
  BY <1>1, <1>3
<1> QED BY <1>1, <1>2, <1>3, <1>4, <1>5

\* A picked option is one of the field's.
IsOption(f, v) == \E o \in DOMAIN f.options : v = Of("option", f.options[o].text)

LEMMA OptionType ==
    ASSUME NEW f \in FormField, NEW v, IsOption(f, v)
    PROVE  IsValue(v) /\ v.kind = "option" /\ v # Blank
BY ValueType DEF IsOption, Kinds

LEMMA PickOption ==
    ASSUME NEW f \in FormField, NEW fragment
    PROVE  /\ pickOption(f, fragment) = Blank \/ IsOption(f, pickOption(f, fragment))
           /\ IsValue(pickOption(f, fragment))
           /\ pickOption(f, fragment) # Blank => f.options # <<>>
<1> DEFINE hits == {i \in DOMAIN f.options : fragment \in f.options[i].has}
<1>1. f.options \in Seq([text : STRING, has : SUBSET STRING])
  BY DEF FormField
<1>2. hits \in SUBSET (1..Len(f.options)) /\ Len(f.options) \in Nat
      /\ DOMAIN f.options = 1..Len(f.options)
  BY <1>1
<1>3. hits # {} => First(hits) \in DOMAIN f.options
  <2> HIDE DEF hits
  <2> QED BY <1>2, FirstPosition
<1>4. hits # {} => IsOption(f, Of("option", f.options[First(hits)].text))
  BY <1>3 DEF IsOption
<1>5. pickOption(f, fragment) =
        IF hits = {} THEN Blank ELSE Of("option", f.options[First(hits)].text)
  BY DEF pickOption
<1> HIDE DEF hits
<1>6. pickOption(f, fragment) = Blank \/ IsOption(f, pickOption(f, fragment))
  BY <1>4, <1>5
<1>7. hits # {} => f.options # <<>>
  BY <1>3
<1> QED BY <1>5, <1>6, <1>7, OptionType, ValueType

LEMMA YesIfType ==
    ASSUME NEW f \in FormField, NEW b
    PROVE  /\ YesIf(f, b) = Blank \/ IsOption(f, YesIf(f, b))
           /\ IsValue(YesIf(f, b))
BY PickOption DEF YesIf

\* The first of some values that is not blank is one of them.
LEMMA FirstOfType ==
    ASSUME NEW S, NEW candidates \in Seq(S)
    PROVE  FirstOf(candidates) = Blank \/ FirstOf(candidates) \in S
<1> DEFINE given == {i \in DOMAIN candidates : candidates[i] # Blank}
<1>1. given \in SUBSET (1..Len(candidates)) /\ Len(candidates) \in Nat
      /\ DOMAIN candidates = 1..Len(candidates)
  OBVIOUS
<1>2. given # {} => First(given) \in DOMAIN candidates
  <2> HIDE DEF given
  <2> QED BY <1>1, FirstPosition
<1>3. FirstOf(candidates) = IF given = {} THEN Blank ELSE candidates[First(given)]
  BY DEF FirstOf
<1> HIDE DEF given
<1> QED BY <1>1, <1>2, <1>3

LEMMA FirstOfBlank ==
    ASSUME NEW candidates, \A i \in DOMAIN candidates : candidates[i] = Blank
    PROVE  FirstOf(candidates) = Blank
BY DEF FirstOf

LEMMA FirstOfHead ==
    ASSUME NEW a, NEW b, NEW c, a # Blank
    PROVE  FirstOf(<<a, b, c>>) = a
<1> DEFINE s == <<a, b, c>>
           given == {i \in DOMAIN s : s[i] # Blank}
<1>1. DOMAIN s = 1..3 /\ s[1] = a
  OBVIOUS
<1>2. given \in SUBSET (1..3) /\ 1 \in given
  BY <1>1
<1>3. First(given) = 1
  <2> HIDE DEF given
  <2>1. First(given) \in 1..3 /\ First(given) <= 1
    BY <1>2, FirstPosition
  <2> QED BY <2>1
<1>4. FirstOf(s) = s[First(given)]
  BY <1>2 DEF FirstOf
<1> QED BY <1>1, <1>3, <1>4

LEMMA FirstOfThree ==
    ASSUME NEW S, NEW a \in S, NEW b \in S, NEW c \in S
    PROVE  FirstOf(<<a, b, c>>) = Blank \/ FirstOf(<<a, b, c>>) \in S
<1>1. <<a, b, c>> \in Seq(S)
  OBVIOUS
<1> QED BY <1>1, FirstOfType

\* What the profile answers a field with is an option of the field, a fact, a
\* link, a salary or nothing, and never what the model wrote.
FromProfile(f, v) ==
    IsValue(v) /\ (IsOption(f, v) \/ v.kind \in {"blank", "fact", "link", "fragment"})

LEMMA ProfileValues ==
    ASSUME NEW f
    PROVE  /\ FromProfile(f, Blank)
           /\ \A kind \in {"fact", "link", "fragment"} : \A of : FromProfile(f, Of(kind, of))
<1>1. \A kind \in {"blank", "fact", "link", "fragment"} : kind \in Kinds
  BY DEF Kinds
<1>2. \A kind \in {"fact", "link", "fragment"} : \A of :
        IsValue(Of(kind, of)) /\ Of(kind, of).kind = kind
  BY <1>1, ValueType
<1> QED BY <1>2, ValueType DEF FromProfile

\* The answer of the profile is a fact or a link.
LEMMA IdentityAnswerType ==
    ASSUME NEW f \in FormField PROVE FromProfile(f, resolveIdentityAnswer(f))
<1> DEFINE asked == {i \in DOMAIN IdentityQuestions :
                       /\ f.words \cap IdentityQuestions[i].words # {}
                       /\ ~(IdentityQuestions[i].words = {"github"} /\ isGitHubDescribeQuestion(f))}
           facts == IdentityQuestions[First(asked)].facts
           known == {i \in DOMAIN facts : facts[i] \in profile.facts}
           fact == facts[First(known)]
           kind == IF fact \in LinkFacts THEN "link" ELSE "fact"
<1>1. kind \in {"fact", "link", "fragment"}
  OBVIOUS
<1>2. resolveIdentityAnswer(f) =
        IF asked = {} THEN Blank ELSE IF known = {} THEN Blank ELSE Of(kind, fact)
  BY DEF resolveIdentityAnswer
<1> HIDE DEF asked, known, fact, kind
<1> QED BY <1>1, <1>2, ProfileValues

LEMMA LocationAnswerType ==
    ASSUME NEW f \in FormField PROVE FromProfile(f, resolveLocationAnswer(f))
<1>1. \A of : FromProfile(f, Of("fact", of))
  BY ProfileValues
<1>2. FromProfile(f, Blank)
  BY ProfileValues
<1>3. resolveLocationAnswer(f) = Blank \/ \E of : resolveLocationAnswer(f) = Of("fact", of)
  BY DEF resolveLocationAnswer
<1> QED BY <1>1, <1>2, <1>3

LEMMA WorkAuthType ==
    ASSUME NEW f \in FormField
    PROVE  inferWorkAuthSelect(f) = {} \/ \E b : inferWorkAuthSelect(f) = {YesIf(f, b)}
<1>1. pickOption(f, "yes") = YesIf(f, TRUE)
  BY DEF YesIf
<1> QED BY <1>1 DEF inferWorkAuthSelect

\* What a rule may pick: an option of the field, or nothing.
Picks(f) == {Blank} \cup {Of("option", f.options[o].text) : o \in DOMAIN f.options}

LEMMA PicksType ==
    ASSUME NEW f \in FormField
    PROVE  /\ Blank \in Picks(f)
           /\ \A fragment : pickOption(f, fragment) \in Picks(f)
           /\ \A b : YesIf(f, b) \in Picks(f)
           /\ \A v \in Picks(f) : IsValue(v) /\ (v # Blank => v.kind = "option" /\ IsOption(f, v))
<1>1. \A v : IsOption(f, v) => v \in Picks(f)
  BY DEF IsOption, Picks
<1>2. \A v \in Picks(f) : v = Blank \/ IsOption(f, v)
  BY DEF IsOption, Picks
<1>3. Blank \in Picks(f)
  BY DEF Picks
<1>4. \A fragment : pickOption(f, fragment) \in Picks(f)
  BY <1>1, <1>3, PickOption
<1>5. \A v \in Picks(f) : IsValue(v) /\ (v # Blank => v.kind = "option" /\ IsOption(f, v))
  BY <1>2, OptionType, ValueType
<1> QED BY <1>3, <1>4, <1>5 DEF YesIf

LEMMA ComplianceType ==
    ASSUME NEW f \in FormField PROVE resolveComplianceSelect(f) \in Picks(f)
<1> DEFINE export == resolveExportControlsAnswer(f)
           eligible == IF "clearanceEligibility" \in f.words THEN pickOption(f, "eligible") ELSE Blank
           level == IF "clearanceLevel" \in f.words THEN pickOption(f, "neverHeld") ELSE Blank
           early == FirstOf(<<export, eligible, level>>)
           auth == inferWorkAuthSelect(f)
           chosen == CHOOSE v \in auth : TRUE
<1>1. export \in Picks(f) /\ eligible \in Picks(f) /\ level \in Picks(f)
  BY PicksType DEF resolveExportControlsAnswer
<1>2. early \in Picks(f)
  <2> HIDE DEF export, eligible, level
  <2> QED BY <1>1, PicksType, FirstOfThree
<1>3. auth # {} => chosen \in Picks(f)
  BY WorkAuthType, PicksType
<1>4. resolveComplianceSelect(f) =
        IF early # Blank THEN early
        ELSE IF "sponsorship" \in f.words
          THEN YesIf(f, NeedsSponsorship)
        ELSE IF f.words \cap {"workAuthorization", "authorizedToWork"} # {} /\ auth # {}
          THEN chosen
        ELSE IF "onsiteOffice" \in f.words
                /\ (profile.arrangement \in {"onsite", "flexible"} \/ profile.relocate)
          THEN pickOption(f, "yes") ELSE Blank
  BY DEF resolveComplianceSelect
<1> HIDE DEF early, auth, chosen
<1> QED BY <1>2, <1>3, <1>4, PicksType

LEMMA PicksFromProfile ==
    ASSUME NEW f \in FormField, NEW v \in Picks(f) PROVE FromProfile(f, v)
BY PicksType, ProfileValues DEF FromProfile

LEMMA ToldType ==
    ASSUME NEW f \in FormField, NEW subject, NEW v \in Told(f, subject) PROVE FromProfile(f, v)
<1>1. CASE subject = "workAuth"
  BY <1>1, WorkAuthType, PicksType, PicksFromProfile DEF Told
<1>2. CASE subject # "workAuth"
  <2>1. v = Of("fragment", profile.says[subject]) \/ v = pickOption(f, profile.says[subject])
    BY <1>2 DEF Told
  <2>2. pickOption(f, profile.says[subject]) \in Picks(f)
    BY PicksType
  <2> QED BY <2>1, <2>2, PicksFromProfile, ProfileValues
<1> QED BY <1>1, <1>2

LEMMA InferableType ==
    ASSUME NEW f \in FormField, profile \in Profile
    PROVE  FromProfile(f, resolveInferableSelect(f))
<1> DEFINE levels == [i \in DOMAIN profile.english |-> pickOption(f, profile.english[i])]
           english == FirstOf(levels)
           told == {i \in DOMAIN Subjects : Told(f, Subjects[i]) # {}}
           first == Told(f, Subjects[First(told)])
           chosen == CHOOSE v \in first : TRUE
<1>1. english \in Picks(f)
  <2>1. profile.english \in Seq(STRING)
    BY DEF Profile
  <2>2. Len(profile.english) \in Nat /\ DOMAIN profile.english = 1..Len(profile.english)
    BY <2>1
  <2>3. levels \in [1..Len(profile.english) -> Picks(f)]
    BY <2>2, PicksType
  <2>4. levels \in Seq(Picks(f))
    BY <2>2, <2>3
  <2> HIDE DEF levels
  <2> QED BY <2>4, FirstOfType, PicksType
<1>2. told # {} => FromProfile(f, chosen)
  <2> DEFINE n == 10
  <2>1. n \in Nat /\ told \in SUBSET (1..n)
    BY DEF Subjects
  <2>2. told # {} => First(told) \in told
    <3> HIDE DEF told, n
    <3> QED BY <2>1, FirstPosition
  <2>3. First(told) \in told => first # {}
    OBVIOUS
  <2>4. first # {} => chosen \in first
    OBVIOUS
  <2>5. \A v \in first : FromProfile(f, v)
    BY ToldType
  <2> HIDE DEF told, first, chosen
  <2> QED BY <2>2, <2>3, <2>4, <2>5
<1>3. resolveInferableSelect(f) =
        IF f.options = <<>> THEN Blank
        ELSE IF english # Blank THEN english
        ELSE IF told = {} THEN Blank ELSE chosen
  BY DEF resolveInferableSelect
<1> HIDE DEF english, told, chosen
<1> QED BY <1>1, <1>2, <1>3, PicksFromProfile, ProfileValues

LEMMA NormalizeType ==
    ASSUME NEW f \in FormField, NEW v, IsValue(v)
    PROVE  LET w == normalizeSelectValue(f, v)
           IN  /\ IsValue(w) /\ (v # Blank => w # Blank)
               /\ w = v \/ IsOption(f, w)
BY PickOption DEF normalizeSelectValue

LEMMA SelectType ==
    ASSUME NEW f \in FormField, profile \in Profile
    PROVE  FromProfile(f, resolveSelectAnswer(f))
<1> DEFINE raw == resolveIdentityAnswer(f)
           option == pickOption(f, raw.of)
           last == IF raw # Blank /\ option # Blank THEN option ELSE raw
           compliance == resolveComplianceSelect(f)
           inferable == resolveInferableSelect(f)
           values == {Blank, compliance, inferable, option, raw}
<1>1. compliance \in values /\ inferable \in values /\ last \in values
  OBVIOUS
<1>2. \A v \in values : FromProfile(f, v)
  <2>1. FromProfile(f, compliance)
    BY ComplianceType, PicksFromProfile
  <2>2. FromProfile(f, option)
    BY PicksType, PicksFromProfile
  <2>3. FromProfile(f, inferable) /\ FromProfile(f, raw) /\ FromProfile(f, Blank)
    BY InferableType, IdentityAnswerType, ProfileValues
  <2> HIDE DEF compliance, inferable, option, raw
  <2> QED BY <2>1, <2>2, <2>3
<1>3. resolveSelectAnswer(f) = FirstOf(<<compliance, inferable, last>>)
  BY DEF resolveSelectAnswer
<1>4. Blank \in values
  OBVIOUS
<1> HIDE DEF compliance, inferable, last, values
<1> QED BY <1>1, <1>2, <1>3, <1>4, FirstOfThree

LEMMA AnswerTypes ==
    ASSUME NEW f \in FormField, profile \in Profile
    PROVE  /\ \A route : FromProfile(f, answerDeterministicField(f, route))
           /\ FromProfile(f, BatchAnswer(f))
<1>1. \A route : FromProfile(f, answerDeterministicField(f, route))
  BY IdentityAnswerType, LocationAnswerType, ProfileValues DEF answerDeterministicField
<1>2. FromProfile(f, normalizeSelectValue(f, resolveSelectAnswer(f)))
  BY SelectType, NormalizeType, OptionType DEF FromProfile
<1>3. BatchAnswer(f) \in {Blank, resolveIdentityAnswer(f), resolveLocationAnswer(f),
                          normalizeSelectValue(f, resolveSelectAnswer(f))}
  BY DEF BatchAnswer
<1> QED BY <1>1, <1>2, <1>3, IdentityAnswerType, LocationAnswerType, ProfileValues

\* What the model may say, of a batch's field or as prose.

LEMMA SaysType ==
    ASSUME NEW f \in FormField, NEW kind \in ProseKinds \cup BatchKinds
    PROVE  /\ IsValue(Says(kind, f))
           /\ Says(kind, f).kind \in {"said", "prose"} => Says(kind, f).of = f.label
           /\ Says(kind, f).kind \in {"said", "prose", "link", "fragment", "placeholder", "blank"}
           /\ Says(kind, f).kind = "fragment" => f.options # <<>>
           /\ kind # "link" => Says(kind, f).kind # "link"
<1>1. \A k \in {"said", "prose", "link", "fragment", "placeholder", "blank"} : k \in Kinds
  BY DEF Kinds
<1>2. kind \in {"prose", "said", "link", "fragment", "placeholder", "blank"}
  BY DEF ProseKinds, BatchKinds
<1>3. CASE kind \in {"prose", "said"}
  <2>1. Says(kind, f) = Of(kind, f.label)
    BY <1>3 DEF Says
  <2>2. /\ IsValue(Says(kind, f)) /\ Says(kind, f).kind = kind
        /\ Says(kind, f).of = f.label
    BY <1>1, <1>3, <2>1, ValueType
  <2> QED BY <1>3, <2>2
<1>4. CASE kind = "link"
  BY <1>4, ValueType DEF Says
<1>5. CASE kind = "fragment"
  <2>1. Says(kind, f) = IF f.options = <<>> THEN Of("said", f.label) ELSE Of(kind, "yes")
    BY <1>5 DEF Says
  <2> QED BY <1>1, <1>5, <2>1, ValueType
<1>6. CASE kind = "placeholder"
  <2>1. Says(kind, f) = Of("placeholder", "")
    BY <1>6 DEF Says
  <2>2. IsValue(Says(kind, f)) /\ Says(kind, f).kind = "placeholder"
    BY <1>1, <2>1, ValueType
  <2> QED BY <2>2
<1>7. CASE kind = "blank"
  <2>1. Says(kind, f) = Blank
    BY <1>7 DEF Says
  <2> QED BY <1>7, <2>1, ValueType
<1> QED BY <1>2, <1>3, <1>4, <1>5, <1>6, <1>7

-----------------------------------------------------------------------------
(* Routes.                                                                  *)

SkipsDocument(f, route) ==
    route.format = "skip" => ClassifyFormField(f) = "file" \/ IsCoverLetter(f)

LEMMA SureType ==
    ASSUME NEW strategy \in Strategy, NEW format \in Format
    PROVE  Sure(strategy, format) \in Route /\ Sure(strategy, format).format = format
BY DEF Sure, Route

LEMMA UnsureType == Unsure \in Route /\ Unsure.format = "none"
BY DEF Unsure, Route, Strategy, Format

LEMMA RuleRouteType ==
    ASSUME NEW f \in FormField
    PROVE  resolveRuleRoute(f) \in Route /\ SkipsDocument(f, resolveRuleRoute(f))
<1> DEFINE class == ClassifyFormField(f)
           identity == isClearIdentityLabel(f)
           prose == isGitHubDescribeQuestion(f) \/ matchAny(f, proseQuestionPatterns)
                    \/ matchAny(f, behavioralPatterns)
           choice == IF yesNoOptions(f) THEN "yes_no" ELSE "select_option"
           others == {Sure("deterministic", "empty_ok"), Sure("deterministic", "location"),
                      Sure("deterministic", identityFormat(f)),
                      Sure("compliance_select", choice),
                      Sure("behavioral", proseFormat(f)), Unsure}
<1>1. resolveRuleRoute(f) =
        CASE class \in {"file", "cover_letter"} -> Sure("deterministic", "skip")
          [] class = "cover_letter_text" -> Sure("skip_cover_text", "skip")
          [] class = "eeo" -> Sure("deterministic", "empty_ok")
          [] class = "location" -> Sure("deterministic", "location")
          [] class \in {"identity", "short_text"} /\ identity ->
                Sure("deterministic", identityFormat(f))
          [] class = "short_text" /\ ~identity /\ matchAny(f, locationPatterns) ->
                Sure("deterministic", "location")
          [] class = "select" /\ matchAny(f, complianceLabelPatterns) ->
                Sure("compliance_select", choice)
          [] class = "behavioral" \/ (class = "long_text" /\ prose) ->
                Sure("behavioral", proseFormat(f))
          [] OTHER -> Unsure
  BY DEF resolveRuleRoute
<1>2. class \in {"file", "cover_letter", "cover_letter_text"} =>
        class = "file" \/ IsCoverLetter(f)
  BY DEF IsCoverLetter
<1>3. /\ identityFormat(f) \in Format \ {"skip"} /\ proseFormat(f) \in Format \ {"skip"}
      /\ {"empty_ok", "location", "yes_no", "select_option"} \subseteq Format \ {"skip"}
      /\ {"skip_cover_text", "deterministic", "compliance_select", "behavioral"} \subseteq Strategy
      /\ "skip" \in Format
  BY DEF identityFormat, proseFormat, Format, Prose, Strategy
<1>4. \A r \in others : r \in Route /\ r.format # "skip"
  <2>1. choice \in Format \ {"skip"}
    BY <1>3
  <2>2. \A s \in Strategy, m \in Format \ {"skip"} :
            Sure(s, m) \in Route /\ Sure(s, m).format # "skip"
    BY SureType
  <2> HIDE DEF choice
  <2> QED BY <1>3, <2>1, <2>2, UnsureType
<1>5. \/ /\ class \in {"file", "cover_letter", "cover_letter_text"}
         /\ resolveRuleRoute(f) \in {Sure("deterministic", "skip"), Sure("skip_cover_text", "skip")}
      \/ resolveRuleRoute(f) \in others
  <2> HIDE DEF class, identity, prose, choice
  <2> QED BY <1>1
<1>6. CASE /\ class \in {"file", "cover_letter", "cover_letter_text"}
           /\ resolveRuleRoute(f) \in {Sure("deterministic", "skip"), Sure("skip_cover_text", "skip")}
  <2>1. resolveRuleRoute(f) \in Route
    BY <1>3, <1>6, SureType
  <2>2. SkipsDocument(f, resolveRuleRoute(f))
    <3> HIDE DEF class
    <3>1. class = "file" \/ IsCoverLetter(f)
      BY <1>2, <1>6
    <3> QED BY <3>1 DEF SkipsDocument, class
  <2> QED BY <2>1, <2>2
<1>7. CASE resolveRuleRoute(f) \in others
  <2> HIDE DEF others
  <2> QED BY <1>4, <1>7 DEF SkipsDocument
<1> QED BY <1>5, <1>6, <1>7

LEMMA IntentRouteType ==
    ASSUME NEW f \in FormField, NEW intent \in Intent
    PROVE  applyIntent(f, intent) \in Route /\ SkipsDocument(f, applyIntent(f, intent))
<1> DEFINE format == mapExpectedFormat(f, intent)
<1>1. format \in Format \ {"skip"} /\ "prose_short" \in Format \ {"skip"}
  BY DEF mapExpectedFormat, Intent, Format, Prose
<1>2. intent.strategy \in Strategy
      /\ Strategy = {"skip_cover_text", "deterministic", "compliance_select", "behavioral",
             "batch_llm", "needs_intent"}
  BY DEF Intent, Strategy
<1>3. \A s \in Strategy, m \in Format \ {"skip"} :
          Sure(s, m) \in Route /\ SkipsDocument(f, Sure(s, m))
  BY SureType DEF SkipsDocument
<1>4. \E s \in Strategy, m \in Format \ {"skip"} : applyIntent(f, intent) = Sure(s, m)
  <2> HIDE DEF format
  <2>1. applyIntent(f, intent) =
          IF intent.prose
            THEN Sure("behavioral",
                      IF format \in {"url", "identity"} THEN "prose_short" ELSE format)
          ELSE IF format = "url" /\ intent.strategy = "behavioral"
            THEN Sure("deterministic", format)
          ELSE IF intent.strategy \in {"deterministic", "compliance_select", "behavioral"}
            THEN Sure(intent.strategy, format) ELSE Sure("batch_llm", format)
    BY DEF applyIntent, format
  <2> QED BY <1>1, <1>2, <2>1
<1> QED BY <1>3, <1>4

LEMMA FallbackRouteType ==
    ASSUME NEW f \in FormField, NEW route \in Route, SkipsDocument(f, route)
    PROVE  LET r == fallbackAmbiguousRoute(f, route) IN r \in Route /\ SkipsDocument(f, r)
<1>1. \A s \in Strategy, m \in Format \ {"skip"} :
          Sure(s, m) \in Route /\ SkipsDocument(f, Sure(s, m))
  BY SureType DEF SkipsDocument
<1>2. /\ proseFormat(f) \in Format \ {"skip"}
      /\ {"identity", "select_option"} \subseteq Format \ {"skip"}
      /\ {"behavioral", "compliance_select", "batch_llm"} \subseteq Strategy
  BY DEF proseFormat, Format, Prose, Strategy
<1>3. fallbackAmbiguousRoute(f, route) \in
        {route, Sure("behavioral", proseFormat(f)),
         Sure("compliance_select", "select_option"), Sure("batch_llm", "identity")}
  BY DEF fallbackAmbiguousRoute
<1> QED BY <1>1, <1>2, <1>3

-----------------------------------------------------------------------------
(* The invariants.                                                          *)

\* The letter is there before the form, and the model's rows once the batch is
\* answered; what is skipped is what the documents go into.
ShapeInv ==
    /\ todo \in [links : SUBSET P, doubles : SUBSET P]
    /\ letter \in {Blank, Of("document", "coverText")}
    /\ stage \in {"route", "intent", "answer", "batch"} => rows = <<>>
    /\ \A p \in P : routes[p].format = "skip" =>
          ClassifyFormField(form[p]) = "file" \/ IsCoverLetter(form[p])
Inv == TypeOK /\ ShapeInv

\* A link in a prose field waits to be asked again, or was; and what goes out is
\* what was checked last.
LinkAt(p) == routes[p].format \in Prose /\ answers[p].kind = "link"
CheckedInv ==
    /\ stage = "retry" => \A p \in P : LinkAt(p) => p \in todo.links \cup tried
    /\ stage = "finalize" =>
         /\ lints = LintFormAnswers(answers)
         /\ \A p \in P : LinkAt(p) => p \in tried \/ retried = MaxRetries

\* The answers are their fields' own from the first on, as far as the model's
\* rows allow; before the batch there are none.
Answered == {"lint", "retry", "finalize", "done"}
Good(row, p) ==
    /\ row.position \in {0, p} /\ row.label \in {0, p}
    /\ row.value.kind = "said" => row.value.of = form[p].label
OwnAnswer(p) ==
    (\A i \in Naming(rows, p) : Good(rows[i], p)) =>
        /\ Named(p) \/ (\A i \in At(rows, p) : Good(rows[i], p)) => BelongsTo(p, answers[p])
        /\ Named(p) /\ p \notin tried => answers[p] # Blank \/ IsCoverLetter(form[p])
OwnInv == stage \in Answered \cup {"batch"} => \A p \in P : OwnAnswer(p)

\* The rules' answers about sponsorship and authorization are right from the
\* rules on, and those of the batch's fields from the batch on.
Asked(p) ==
    /\ ClassifyFormField(form[p]) = "select" /\ p \notin tried
    /\ Unambiguous(form[p]) /\ ~AsksAnotherQuestion(form[p])
RightAnswer(f, v) ==
    /\ f.words \cap {"sponsorship", "requireSupport"} # {} => v = YesIf(f, profile.needs)
    /\ f.words = {"authorizedToWork", "inUS"} => v = YesIf(f, profile.inUS)
RuleInv ==
    Consistent => \A p \in P : Asked(p) =>
        /\ routes[p].strategy = "compliance_select" /\ stage \in Answered \cup {"batch"} =>
              RightAnswer(form[p], answers[p])
        /\ routes[p].strategy = "batch_llm" /\ stage \in Answered =>
              RightAnswer(form[p], answers[p])

\* What every step may use of a state.
LEMMA StateType ==
    ASSUME TypeOK
    PROVE  /\ Len(form) \in Nat /\ P = 1..Len(form)
           /\ \A p \in P : form[p] \in FormField
           /\ profile \in Profile
<1> DEFINE FF == FormField
<1>1. form \in Seq(FF) /\ profile \in Profile
  BY FormsAssumption, ProfilesAssumption DEF TypeOK
<1> HIDE DEF FF
<1>2. Len(form) \in Nat /\ P = 1..Len(form) /\ \A p \in P : form[p] \in FF
  BY <1>1 DEF P
<1> QED BY <1>1, <1>2 DEF FF

-----------------------------------------------------------------------------
(* What the batch makes of the model's rows.                                *)

\* The rows of a batch are rows of the form.
LEMMA BatchRowsType ==
    ASSUME NEW asked \in SUBSET P, NEW said,
           said \in IF asked = {} THEN {<<>>} ELSE BatchRows(asked)
    PROVE  said \in Seq(Row(P)) /\ Len(said) <= MaxRows
<1>1. CASE said = <<>>
  BY <1>1, RetriesAssumption
<1>2. CASE said \in BatchRows(asked)
  <2> DEFINE small == Row(asked)
             large == Row(P)
  <2>1. small \subseteq large
    BY DEF Row
  <2>2. PICK n \in 0..MaxRows : said \in [1..n -> small]
    BY <1>2 DEF BatchRows
  <2> HIDE DEF small, large
  <2>3. said \in [1..n -> large] /\ n \in Nat /\ n <= MaxRows
    BY <2>1, <2>2, RetriesAssumption
  <2>4. said \in Seq(large) /\ Len(said) = n
    BY <2>3
  <2> QED BY <2>3, <2>4 DEF large
<1> QED BY <1>1, <1>2

LEMMA RowType ==
    ASSUME TypeOK, NEW row \in Row(P)
    PROVE  /\ row.position \in P \cup {0} /\ row.label \in P \cup {0}
           /\ IsValue(row.value) /\ row.value.kind \notin {"prose", "option"}
<1>1. PICK kind \in BatchKinds, q \in P : row.value = Says(kind, form[q])
  BY DEF Row
<1> DEFINE v == Says(kind, form[q])
<1>2. IsValue(v) /\ v.kind \notin {"prose", "option"}
  <2>1. form[q] \in FormField
    BY StateType
  <2>2. IsValue(v) /\ v.kind \in {"said", "prose", "link", "fragment", "placeholder", "blank"}
    BY <2>1, SaysType
  <2>3. v.kind # "prose"
    <3>1. kind # "prose" /\ kind \in {"said", "link", "fragment", "blank"}
      BY DEF BatchKinds
    <3>2. v = Of("said", form[q].label) \/ v = GithubLink \/ v = Of("fragment", "yes") \/ v = Blank
      BY <3>1 DEF Says
    <3> HIDE DEF v
    <3> QED BY <3>2, ValueType
  <2> HIDE DEF v
  <2> QED BY <2>2, <2>3
<1>3. row.position \in P \cup {0} /\ row.label \in P \cup {0}
  BY DEF Row
<1> HIDE DEF v
<1> QED BY <1>1, <1>2, <1>3 DEF v

\* What a row says is a value, and as blank as what the model wrote; a row that
\* speaks of one field is read with the options of that field.
LEMMA RowValueType ==
    ASSUME TypeOK, NEW row \in Row(P)
    PROVE  /\ IsValue(RowValue(row)) /\ (row.value # Blank => RowValue(row) # Blank)
           /\ \A p \in P : {row.position, row.label} \ {0} = {p} =>
                RowValue(row) = normalizeSelectValue(form[p], row.value)
<1> DEFINE fields == {row.position, row.label} \ {0}
<1>1. RowValue(row) = IF fields = {} THEN row.value
                      ELSE normalizeSelectValue(form[First(fields)], row.value)
  BY DEF RowValue
<1>2. fields \in SUBSET (1..Len(form)) /\ Len(form) \in Nat /\ fields \subseteq P
  BY RowType, StateType
<1>3. fields # {} => First(fields) \in fields /\ First(fields) \in P
  <2> HIDE DEF fields
  <2> QED BY <1>2, FirstPosition
<1>4. IsValue(row.value)
  BY RowType
<1> HIDE DEF fields
<1>5. fields # {} =>
        LET w == normalizeSelectValue(form[First(fields)], row.value)
        IN  IsValue(w) /\ (row.value # Blank => w # Blank)
  <2>1. fields # {} => form[First(fields)] \in FormField
    BY <1>3, StateType
  <2> QED BY <1>4, <2>1, NormalizeType
<1>6. \A p \in P : fields = {p} => RowValue(row) = normalizeSelectValue(form[p], row.value)
  <2>1. \A p : fields = {p} => First(fields) = p
    BY <1>3
  <2> QED BY <1>1, <2>1
<1>7. \A p \in P : {row.position, row.label} \ {0} = {p} => fields = {p}
  BY DEF fields
<1> QED BY <1>1, <1>4, <1>5, <1>6, <1>7

LEMMA KindBelongs ==
    ASSUME NEW p, NEW v, v.kind \notin {"said", "prose", "option"} PROVE BelongsTo(p, v)
BY DEF BelongsTo

LEMMA OptionBelongs ==
    ASSUME NEW p, NEW v, IsOption(form[p], v) PROVE BelongsTo(p, v)
<1>1. PICK o \in DOMAIN form[p].options : v = Of("option", form[p].options[o].text)
  BY DEF IsOption
<1>2. v.kind = "option" /\ v.of = form[p].options[o].text
  BY <1>1, ValueType
<1> QED BY <1>2 DEF BelongsTo

LEMMA ProfileBelongs ==
    ASSUME NEW p, NEW v, FromProfile(form[p], v) PROVE BelongsTo(p, v)
BY KindBelongs, OptionBelongs DEF FromProfile

\* What a field's own row says belongs to the field.
LEMMA GoodRow ==
    ASSUME TypeOK, NEW p \in P, NEW row \in Row(P), Good(row, p),
           row.position = p \/ row.label = p
    PROVE  BelongsTo(p, RowValue(row))
<1> DEFINE w == RowValue(row)
<1>1. {row.position, row.label} \ {0} = {p}
  <2>1. p # 0
    BY StateType
  <2> QED BY <2>1 DEF Good
<1>2. w = normalizeSelectValue(form[p], row.value)
  BY <1>1, RowValueType
<1>3. w = row.value \/ IsOption(form[p], w)
  <2>1. IsValue(row.value) /\ form[p] \in FormField
    BY RowType, StateType
  <2> HIDE DEF w
  <2> QED BY <1>2, <2>1, NormalizeType
<1>4. BelongsTo(p, row.value)
  BY RowType DEF BelongsTo, Good
<1> HIDE DEF w
<1>5. BelongsTo(p, w)
  <2>1. CASE w = row.value
    BY <1>4, <2>1
  <2>2. CASE IsOption(form[p], w)
    BY <2>2, OptionBelongs
  <2> QED BY <1>3, <2>1, <2>2
<1> QED BY <1>5 DEF w

\* The last of some rows is one of them.
LEMMA LastRow ==
    ASSUME NEW R, NEW said \in Seq(R), NEW I \in SUBSET DOMAIN said, I # {}
    PROVE  Last(said, I) \in R /\ \E i \in I : Last(said, I) = said[i]
<1> DEFINE last == CHOOSE i \in I : \A j \in I : i >= j
<1>1. Len(said) \in Nat /\ I \in SUBSET (1..Len(said))
  OBVIOUS
<1>2. last \in I
  BY <1>1, LastPosition
<1>3. Last(said, I) = said[last]
  BY DEF Last
<1> HIDE DEF last
<1> QED BY <1>2, <1>3

\* What goes into a field of the batch is a value; where the rows that name the
\* field are its own it is the field's too, if the last of them is not blank or
\* the rows at its position are its own as well.
LEMMA MergeOwn ==
    ASSUME TypeOK, NEW said \in Seq(Row(P)), NEW p \in P
    PROVE  LET v == mergeBatchAnswers(said, p)
               named == Naming(said, p) # {} /\ Last(said, Naming(said, p)).value # Blank
           IN  /\ IsValue(v)
               /\ (\A i \in Naming(said, p) : Good(said[i], p)) =>
                    /\ named \/ (\A i \in At(said, p) : Good(said[i], p)) => BelongsTo(p, v)
                    /\ named => v # Blank
<1> DEFINE naming == Naming(said, p)
           at == At(said, p)
           byLabel == Last(said, naming)
           byPosition == Last(said, at)
           v == mergeBatchAnswers(said, p)
           inferred == resolveInferableSelect(form[p])
           told == RowValue(byLabel)
           placed == RowValue(byPosition)
           R == Row(P)
<1>1. v = IF naming # {} /\ told # Blank THEN told
          ELSE IF at # {} THEN placed ELSE inferred
  BY DEF mergeBatchAnswers
<1>2. /\ naming \in SUBSET DOMAIN said /\ \A i \in naming : said[i].label = p
      /\ at \in SUBSET DOMAIN said /\ \A i \in at : said[i].position = p
  BY DEF Naming, At
<1>3. said \in Seq(R)
  OBVIOUS
<1>4. naming # {} => byLabel \in R /\ \E i \in naming : byLabel = said[i]
  <2> HIDE DEF naming, R
  <2> QED BY <1>2, <1>3, LastRow
<1>5. at # {} => byPosition \in R /\ \E i \in at : byPosition = said[i]
  <2> HIDE DEF at, R
  <2> QED BY <1>2, <1>3, LastRow
<1>6. FromProfile(form[p], inferred)
  BY StateType, InferableType
<1>7. IsValue(inferred) /\ BelongsTo(p, inferred)
  BY <1>6, ProfileBelongs DEF FromProfile
<1>8. naming # {} => IsValue(told) /\ (byLabel.value # Blank => told # Blank)
  <2> HIDE DEF byLabel, naming
  <2> QED BY <1>4, RowValueType DEF R
<1>9. at # {} => IsValue(placed)
  <2> HIDE DEF byPosition, at
  <2> QED BY <1>5, RowValueType DEF R
<1>10. (\A i \in naming : Good(said[i], p)) /\ naming # {} => BelongsTo(p, told)
  <2> SUFFICES ASSUME \A i \in naming : Good(said[i], p), naming # {}
               PROVE  BelongsTo(p, told)
    OBVIOUS
  <2>1. byLabel \in Row(P) /\ Good(byLabel, p) /\ byLabel.label = p
    <3> HIDE DEF naming, byLabel
    <3> QED BY <1>2, <1>4 DEF R
  <2> HIDE DEF byLabel
  <2> QED BY <2>1, GoodRow
<1>11. (\A i \in at : Good(said[i], p)) /\ at # {} => BelongsTo(p, placed)
  <2> SUFFICES ASSUME \A i \in at : Good(said[i], p), at # {}
               PROVE  BelongsTo(p, placed)
    OBVIOUS
  <2>1. byPosition \in Row(P) /\ Good(byPosition, p) /\ byPosition.position = p
    <3> HIDE DEF at, byPosition
    <3> QED BY <1>2, <1>5 DEF R
  <2> HIDE DEF byPosition
  <2> QED BY <2>1, GoodRow
<1> DEFINE named == naming # {} /\ byLabel.value # Blank
           own == \A i \in at : Good(said[i], p)
<1> HIDE DEF naming, at, byLabel, byPosition, v, inferred, told, placed, own, R
<1>12. IsValue(v)
  BY <1>1, <1>7, <1>8, <1>9
<1>13. (\A i \in naming : Good(said[i], p)) =>
          (named \/ own => BelongsTo(p, v)) /\ (named => v # Blank)
  <2> SUFFICES ASSUME \A i \in naming : Good(said[i], p)
               PROVE  (named \/ own => BelongsTo(p, v)) /\ (named => v # Blank)
    OBVIOUS
  <2>1. CASE naming # {} /\ told # Blank
    BY <1>1, <1>10, <2>1
  <2>2. CASE ~(naming # {} /\ told # Blank)
    <3>1. ~named
      BY <1>8, <2>2
    <3>2. v = IF at # {} THEN placed ELSE inferred
      BY <1>1, <2>2
    <3>3. own => BelongsTo(p, v)
      BY <1>7, <1>11, <3>2 DEF own
    <3> QED BY <3>1, <3>3
  <2> QED BY <2>1, <2>2
<1> QED BY <1>12, <1>13 DEF naming, at, byLabel, v, own

-----------------------------------------------------------------------------
(* The state has its shape.                                                 *)

\* What answers the fields in the first place.
LEMMA RoutedType ==
    ASSUME TypeOK, NEW p \in P, NEW kind \in ProseKinds
    PROVE  /\ FromProfile(form[p], answerDeterministicField(form[p], routes[p]))
           /\ FromProfile(form[p], resolveSelectAnswer(form[p]))
           /\ FromProfile(form[p], BatchAnswer(form[p]))
           /\ IsValue(Says(kind, form[p])) /\ BelongsTo(p, Says(kind, form[p]))
<1>1. form[p] \in FormField /\ profile \in Profile
  BY StateType
<1> DEFINE v == Says(kind, form[p])
<1>2. /\ IsValue(v) /\ v.kind # "option"
      /\ v.kind \in {"said", "prose"} => v.of = form[p].label
  <2>1. /\ IsValue(v)
        /\ v.kind \in {"said", "prose", "link", "fragment", "placeholder", "blank"}
        /\ v.kind \in {"said", "prose"} => v.of = form[p].label
    BY <1>1, SaysType
  <2> HIDE DEF v
  <2> QED BY <2>1
<1> HIDE DEF v
<1>3. BelongsTo(p, v)
  BY <1>2 DEF BelongsTo
<1> QED BY <1>1, <1>2, <1>3, AnswerTypes, SelectType DEF v

\* The rows of a form stay what they are while the form does.
LEMMA RowsSame ==
    ASSUME UNCHANGED form PROVE P' = P /\ Row(P)' = Row(P)
BY DEF P, Row

LEMMA LintType ==
    ASSUME NEW vals
    PROVE  /\ LintFormAnswers(vals) \subseteq Rules \X P
           /\ \A rule \in Rules, p \in P : <<rule, p>> \in LintFormAnswers(vals) <=> Fails(rule, vals, p)
           /\ \A rule, found : Failing(rule, found) \subseteq P
BY DEF LintFormAnswers, Failing

LEMMA WithoutType ==
    ASSUME TypeOK, todo \in [links : SUBSET P, doubles : SUBSET P], NEW p \in NextUp(todo)
    PROVE  /\ p \in P
           /\ Without(todo, p) \in [links : SUBSET P, doubles : SUBSET P]
           /\ todo.links \subseteq Without(todo, p).links \cup {p}
           /\ p \notin Without(todo, p).links
<1>1. todo.links # {} => First(todo.links) \in todo.links
  <2>1. todo.links \in SUBSET (1..Len(form)) /\ Len(form) \in Nat
    BY StateType
  <2> QED BY <2>1, FirstPosition
<1>2. CASE todo.links # {}
  <2>1. p \in todo.links /\ Without(todo, p) = [todo EXCEPT !.links = @ \ {p}]
    BY <1>1, <1>2 DEF NextUp, Without
  <2> QED BY <2>1
<1>3. CASE todo.links = {}
  <2>1. p \in todo.doubles /\ Without(todo, p) = [todo EXCEPT !.doubles = @ \ {p}]
    BY <1>3 DEF NextUp, Without
  <2> QED BY <1>3, <2>1
<1> QED BY <1>2, <1>3

LEMMA RulesAreRoutes ==
    ASSUME TypeOK, NEW p \in P
    PROVE  resolveRuleRoute(form[p]) \in Route /\ SkipsDocument(form[p], resolveRuleRoute(form[p]))
BY StateType, RuleRouteType

LEMMA IntentsAreRoutes ==
    ASSUME Inv, NEW p \in P, NEW said \in Intents \cup {NoIntent}
    PROVE  LET r == IF said = NoIntent THEN fallbackAmbiguousRoute(form[p], routes[p])
                    ELSE applyIntent(form[p], said)
           IN  r \in Route /\ SkipsDocument(form[p], r)
<1>1. form[p] \in FormField
  BY StateType DEF Inv
<1>2. routes[p] \in Route /\ SkipsDocument(form[p], routes[p])
  BY DEF Inv, TypeOK, ShapeInv, SkipsDocument
<1>3. said # NoIntent => said \in Intent
  BY IntentsAssumption
<1> QED BY <1>1, <1>2, <1>3, FallbackRouteType, IntentRouteType

LEMMA TypeInit == Init => Inv
<1> SUFFICES ASSUME Init PROVE Inv
  OBVIOUS
<1>1. \A p \in P : routes[p] = Unsure /\ answers[p] = Blank
  BY DEF Init
<1>2. routes \in [P -> Route] /\ \A p \in P : routes[p].format # "skip"
  BY <1>1, UnsureType DEF Init
<1>3. DOMAIN answers = P /\ \A p \in P : IsValue(answers[p])
  BY <1>1, ValueType DEF Init
<1>4. IsValue(letter)
  <2>1. "document" \in Kinds
    BY DEF Kinds
  <2> QED BY <2>1, ValueType DEF Init
<1>5. rows \in Seq(Row(P)) /\ Len(rows) <= MaxRows
  BY RetriesAssumption DEF Init
<1>6. todo \in [links : SUBSET P, doubles : SUBSET P]
  BY DEF Init
<1>7. retried \in 0..MaxRetries
  BY RetriesAssumption DEF Init
<1>8. TypeOK
  BY <1>2, <1>3, <1>4, <1>5, <1>6, <1>7 DEF Init, TypeOK
<1>9. ShapeInv
  BY <1>2, <1>6 DEF Init, ShapeInv
<1> QED BY <1>8, <1>9 DEF Inv

\* The fields that a step of routing leaves alone, and the routes it gives.
LEMMA RoutesStep ==
    ASSUME Inv, stage' \in {"intent", "answer"}, stage \in {"route", "intent"},
           UNCHANGED <<form, profile, letter, rows, answers, todo, retried, tried, lints>>,
           DOMAIN routes' = P, routes' = [p \in P |-> routes'[p]],
           \A p \in P : routes'[p] \in Route /\ SkipsDocument(form[p], routes'[p])
    PROVE  Inv'
<1>1. P' = P
  BY DEF P
<1>2. TypeOK'
  <2>1. routes' \in [P -> Route]
    OBVIOUS
  <2>2. DOMAIN answers = P /\ \A p \in P : IsValue(answers[p])
    BY DEF Inv, TypeOK
  <2>3. rows \in Seq(Row(P)) /\ Len(rows) <= MaxRows
    BY DEF Inv, TypeOK
  <2> QED BY <1>1, <2>1, <2>2, <2>3, RowsSame DEF Inv, TypeOK
<1>3. ShapeInv'
  BY <1>1 DEF Inv, ShapeInv, SkipsDocument
<1> QED BY <1>2, <1>3 DEF Inv

\* A step that leaves the form and the routes alone and answers.
LEMMA AnswersStep ==
    ASSUME Inv, stage' \in {"batch", "lint", "done"}, stage \in {"answer", "batch", "finalize"},
           UNCHANGED <<form, profile, letter, routes, todo, retried, tried, lints>>,
           stage' = "batch" => rows' = <<>>,
           rows' \in Seq(Row(P)), Len(rows') <= MaxRows,
           DOMAIN answers' = P, \A p \in P : IsValue(answers'[p])
    PROVE  Inv'
<1>1. P' = P
  BY DEF P
<1>2. rows' \in Seq(Row(P)) /\ Len(rows') <= MaxRows
  BY DEF Inv, TypeOK
<1>3. TypeOK'
  BY <1>1, <1>2, RowsSame DEF Inv, TypeOK
<1>4. ShapeInv'
  BY <1>1 DEF Inv, ShapeInv
<1> QED BY <1>3, <1>4 DEF Inv

\* The batch's answers: every field asked about is answered from the rows, and
\* the other fields of the batch from the profile.
LEMMA BatchStep ==
    ASSUME Inv, answerBatchFields
    PROVE  /\ rows' \in Seq(Row(P)) /\ Len(rows') <= MaxRows
           /\ \A p \in P : answers'[p] =
                IF routes[p].strategy # "batch_llm" THEN answers[p]
                ELSE IF NeedsLLM(form[p]) THEN mergeBatchAnswers(rows', p)
                ELSE BatchAnswer(form[p])
           /\ DOMAIN answers' = P
<1> DEFINE asked == {p \in By("batch_llm") : NeedsLLM(form[p])}
<1>1. PICK said \in IF asked = {} THEN {<<>>} ELSE BatchRows(asked) :
         /\ rows' = said
         /\ answers' = [p \in P |->
               IF p \in asked THEN mergeBatchAnswers(said, p)
               ELSE IF p \in By("batch_llm") THEN BatchAnswer(form[p]) ELSE answers[p]]
  BY DEF answerBatchFields
<1>2. asked \in SUBSET P
  BY DEF By
<1>3. \A p \in P : p \in asked <=> routes[p].strategy = "batch_llm" /\ NeedsLLM(form[p])
  BY DEF By
<1>4. \A p \in P : p \in By("batch_llm") <=> routes[p].strategy = "batch_llm"
  BY DEF By
<1> HIDE DEF asked
<1>5. rows' \in Seq(Row(P)) /\ Len(rows') <= MaxRows
  BY <1>1, <1>2, BatchRowsType
<1> QED BY <1>1, <1>3, <1>4, <1>5

\* Only the fields asked about are named.
LEMMA NamedIsAsked ==
    ASSUME Inv, answerBatchFields, NEW p \in P, Naming(rows', p) # {}
    PROVE  routes[p].strategy = "batch_llm" /\ NeedsLLM(form[p])
<1> DEFINE asked == {q \in By("batch_llm") : NeedsLLM(form[q])}
<1>1. rows' \in IF asked = {} THEN {<<>>} ELSE BatchRows(asked)
  BY DEF answerBatchFields
<1>2. PICK i \in DOMAIN rows' : rows'[i].label = p
  BY DEF Naming
<1>3. rows' # <<>>
  BY <1>2
<1>4. PICK n \in 0..MaxRows : rows' \in [1..n -> Row(asked)]
  BY <1>1, <1>3 DEF BatchRows
<1>5. rows'[i].label \in asked \cup {0}
  <2>1. rows'[i] \in Row(asked)
    BY <1>2, <1>4
  <2> HIDE DEF asked
  <2> QED BY <2>1 DEF Row
<1>6. p # 0
  BY StateType DEF Inv
<1> QED BY <1>2, <1>5, <1>6 DEF By

LEMMA AnsweredStep ==
    ASSUME Inv, answerRoutedFields
    PROVE  /\ DOMAIN answers' = P
           /\ \A p \in P :
                /\ IsValue(answers'[p]) /\ BelongsTo(p, answers'[p])
                /\ routes[p].strategy = "compliance_select" =>
                     answers'[p] = resolveSelectAnswer(form[p])
<1>1. PICK prose \in [By("behavioral") -> ProseKinds] :
        answers' = [p \in P |->
              CASE p \in By("skip_cover_text") -> letter
                [] p \in By("deterministic") -> answerDeterministicField(form[p], routes[p])
                [] p \in By("compliance_select") -> resolveSelectAnswer(form[p])
                [] p \in By("behavioral") -> Says(prose[p], form[p])
                [] OTHER -> Blank]
  BY DEF answerRoutedFields
<1>2. ASSUME NEW p \in P
      PROVE  /\ IsValue(answers'[p]) /\ BelongsTo(p, answers'[p])
             /\ routes[p].strategy = "compliance_select" =>
                  answers'[p] = resolveSelectAnswer(form[p])
  <2> DEFINE strategy == routes[p].strategy
             identity == answerDeterministicField(form[p], routes[p])
             select == resolveSelectAnswer(form[p])
             says == Says(prose[p], form[p])
  <2>1. \A s : p \in By(s) <=> strategy = s
    BY DEF By
  <2>2. answers'[p] = CASE p \in By("skip_cover_text") -> letter
                        [] p \in By("deterministic") -> identity
                        [] p \in By("compliance_select") -> select
                        [] p \in By("behavioral") -> says
                        [] OTHER -> Blank
    BY <1>1
  <2> DEFINE Fits(v) == IsValue(v) /\ BelongsTo(p, v)
  <2>3. Fits(identity) /\ Fits(select)
    <3>1. "blank" \in ProseKinds
      BY DEF ProseKinds
    <3>2. FromProfile(form[p], identity) /\ FromProfile(form[p], select)
      BY <3>1, RoutedType DEF Inv
    <3> HIDE DEF identity, select
    <3> QED BY <3>2, ProfileBelongs DEF FromProfile
  <2>4. Fits(letter) /\ Fits(Blank)
    <3>1. letter.kind \in {"document", "blank"} /\ Blank.kind = "blank"
      BY ValueType DEF Inv, ShapeInv
    <3> QED BY <3>1, ValueType, KindBelongs DEF Inv, TypeOK
  <2>5. strategy = "behavioral" => Fits(says)
    <3>1. strategy = "behavioral" => prose[p] \in ProseKinds
      BY <2>1
    <3> QED BY <3>1, RoutedType DEF Inv
  <2> HIDE DEF strategy, identity, select, says, Fits
  <2>6. answers'[p] = CASE strategy = "skip_cover_text" -> letter
                        [] strategy = "deterministic" -> identity
                        [] strategy = "compliance_select" -> select
                        [] strategy = "behavioral" -> says
                        [] OTHER -> Blank
    BY <2>1, <2>2
  <2>7. Fits(answers'[p])
    BY <2>3, <2>4, <2>5, <2>6
  <2>8. strategy = "compliance_select" => answers'[p] = select
    BY <2>6
  <2> QED BY <2>7, <2>8 DEF strategy, select, Fits
<1>3. DOMAIN answers' = P
  BY <1>1
<1> QED BY <1>2, <1>3

LEMMA TypeStep ==
    ASSUME Inv, [Next]_vars PROVE Inv'
<1>1. CASE ResolveFieldRoutes
  <2>1. routes' = [p \in P |-> resolveRuleRoute(form[p])]
    BY <1>1 DEF ResolveFieldRoutes
  <2>2. \A p \in P : routes'[p] \in Route /\ SkipsDocument(form[p], routes'[p])
    BY <2>1, RulesAreRoutes DEF Inv
  <2>3. DOMAIN routes' = P /\ routes' = [p \in P |-> routes'[p]]
    BY <2>1
  <2>4. stage' \in {"intent", "answer"} /\ stage = "route"
    BY <1>1 DEF ResolveFieldRoutes
  <2> QED BY <1>1, <2>2, <2>3, <2>4, RoutesStep DEF ResolveFieldRoutes
<1>2. CASE BuildFieldIntentMap
  <2>1. PICK said \in [P -> Intents \cup {NoIntent}] :
          routes' = [p \in P |-> IF said[p] = NoIntent
                                   THEN fallbackAmbiguousRoute(form[p], routes[p])
                                   ELSE applyIntent(form[p], said[p])]
    BY <1>2 DEF BuildFieldIntentMap
  <2>2. \A p \in P : routes'[p] \in Route /\ SkipsDocument(form[p], routes'[p])
    BY <2>1, IntentsAreRoutes
  <2>3. DOMAIN routes' = P /\ routes' = [p \in P |-> routes'[p]]
    BY <2>1
  <2> QED BY <1>2, <2>2, <2>3, RoutesStep DEF BuildFieldIntentMap
<1>3. CASE IntentFails
  <2>1. routes' = [p \in P |-> fallbackAmbiguousRoute(form[p], routes[p])]
    BY <1>3 DEF IntentFails
  <2>2. \A p \in P : routes'[p] \in Route /\ SkipsDocument(form[p], routes'[p])
    BY <2>1, IntentsAreRoutes
  <2>3. DOMAIN routes' = P /\ routes' = [p \in P |-> routes'[p]]
    BY <2>1
  <2> QED BY <1>3, <2>2, <2>3, RoutesStep DEF IntentFails
<1>4. CASE answerRoutedFields
  <2>1. DOMAIN answers' = P /\ \A p \in P : IsValue(answers'[p])
    BY <1>4, AnsweredStep
  <2>2. rows' = rows /\ rows = <<>> /\ rows \in Seq(Row(P)) /\ Len(rows) <= MaxRows
    BY <1>4 DEF answerRoutedFields, Inv, TypeOK, ShapeInv
  <2> QED BY <1>4, <2>1, <2>2, AnswersStep DEF answerRoutedFields
<1>5. CASE answerBatchFields
  <2>1. rows' \in Seq(Row(P)) /\ Len(rows') <= MaxRows /\ DOMAIN answers' = P
    BY <1>5, BatchStep
  <2>2. \A p \in P : IsValue(answers'[p])
    <3>1. TAKE p \in P
    <3>2. IsValue(answers[p]) /\ TypeOK
      BY DEF Inv, TypeOK
    <3>3. IsValue(BatchAnswer(form[p]))
      BY <3>2, StateType, AnswerTypes DEF FromProfile
    <3>4. IsValue(mergeBatchAnswers(rows', p))
      BY <2>1, <3>2, MergeOwn
    <3> QED BY <1>5, <3>2, <3>3, <3>4, BatchStep
  <2> QED BY <1>5, <2>1, <2>2, AnswersStep DEF answerBatchFields
<1>6. CASE AnswerFails
  <2>1. UNCHANGED <<form, profile, letter, routes, rows, answers, todo, retried, tried, lints>>
        /\ stage' = "failed"
    BY <1>6 DEF AnswerFails
  <2>2. P' = P /\ Row(P)' = Row(P)
    BY <2>1, RowsSame
  <2> QED BY <2>1, <2>2 DEF Inv, TypeOK, ShapeInv
<1>7. CASE Lint
  <2>1. /\ UNCHANGED <<form, profile, letter, routes, rows, answers, retried, tried>>
        /\ stage = "lint" /\ stage' \in {"finalize", "retry"}
        /\ lints' \subseteq Rules \X P
        /\ todo' \in [links : SUBSET P, doubles : SUBSET P]
    BY <1>7, LintType DEF Lint
  <2>2. P' = P /\ Row(P)' = Row(P)
    BY <2>1, RowsSame
  <2>3. todo'.links \subseteq P /\ todo'.doubles \subseteq P
    BY <2>1
  <2> QED BY <2>1, <2>2, <2>3 DEF Inv, TypeOK, ShapeInv
<1>8. CASE RetryFailure
  <2>1. PICK p \in NextUp(todo) :
          /\ routes' = [routes EXCEPT ![p].strategy = "behavioral"]
          /\ todo' = Without(todo, p) /\ tried' = tried \cup {p}
          /\ \/ UNCHANGED <<answers, retried>>
             \/ \E kind \in ProseKinds \ {"link"} :
                   /\ answers' = [answers EXCEPT ![p] = Says(kind, form[p])]
                   /\ retried' = retried + 1
    BY <1>8 DEF RetryFailure
  <2>2. UNCHANGED <<stage, form, profile, letter, rows, lints>> /\ stage = "retry"
        /\ retried < MaxRetries
    BY <1>8 DEF RetryFailure, Retriable
  <2>3. P' = P /\ Row(P)' = Row(P)
    BY <2>2, RowsSame
  <2>4. p \in P /\ todo' \in [links : SUBSET P, doubles : SUBSET P]
    BY <2>1, WithoutType DEF Inv, ShapeInv
  <2>5. todo'.links \subseteq P /\ todo'.doubles \subseteq P
    BY <2>4
  <2>6. routes' \in [P -> Route] /\ \A q \in P : routes'[q].format = routes[q].format
    <3>1. "behavioral" \in Strategy
      BY DEF Strategy
    <3>2. routes \in [P -> Route]
      BY DEF Inv, TypeOK
    <3>3. \A r \in Route : /\ [r EXCEPT !.strategy = "behavioral"] \in Route
                           /\ [r EXCEPT !.strategy = "behavioral"].format = r.format
      BY <3>1 DEF Route
    <3>4. routes' = [q \in P |-> IF q = p THEN [routes[q] EXCEPT !.strategy = "behavioral"]
                                 ELSE routes[q]]
      BY <2>1, <3>2
    <3> QED BY <3>2, <3>3, <3>4
  <2>7. DOMAIN answers' = P /\ \A q \in P : IsValue(answers'[q])
    <3>1. \A kind \in ProseKinds : IsValue(Says(kind, form[p]))
      BY <2>4, RoutedType DEF Inv
    <3> QED BY <2>1, <2>4, <3>1 DEF Inv, TypeOK
  <2>8. retried' \in 0..MaxRetries /\ tried' \subseteq P
    BY <2>1, <2>2, <2>4, RetriesAssumption DEF Inv, TypeOK
  <2>9. TypeOK'
    BY <2>2, <2>3, <2>5, <2>6, <2>7, <2>8 DEF Inv, TypeOK
  <2>10. ShapeInv'
    BY <2>2, <2>3, <2>4, <2>6 DEF Inv, ShapeInv
  <2> QED BY <2>9, <2>10 DEF Inv
<1>9. CASE RetryEnds
  <2>1. UNCHANGED <<form, profile, letter, routes, rows, answers, todo, retried, tried>>
        /\ stage' = "finalize" /\ lints' \subseteq Rules \X P
    BY <1>9, LintType DEF RetryEnds
  <2>2. P' = P /\ Row(P)' = Row(P)
    BY <2>1, RowsSame
  <2> QED BY <2>1, <2>2 DEF Inv, TypeOK, ShapeInv
<1>10. CASE FinalizeFormAnswers
  <2>1. DOMAIN answers' = P
    BY <1>10 DEF FinalizeFormAnswers
  <2>2. \A p \in P : IsValue(answers'[p])
    <3>1. TAKE p \in P
    <3>2. answers'[p] \in {Of("document", "resumePDF"), Of("document", "coverPDF"),
                           letter, answers[p]}
      BY <1>10 DEF FinalizeFormAnswers
    <3>3. IsValue(letter) /\ IsValue(answers[p]) /\ "document" \in Kinds
      BY DEF Inv, TypeOK, Kinds
    <3> QED BY <3>2, <3>3, ValueType
  <2>3. rows' = rows /\ rows \in Seq(Row(P)) /\ Len(rows) <= MaxRows
    BY <1>10 DEF FinalizeFormAnswers, Inv, TypeOK
  <2> QED BY <1>10, <2>1, <2>2, <2>3, AnswersStep DEF FinalizeFormAnswers
<1>11. CASE UNCHANGED vars
  BY <1>11, RowsSame DEF vars, Inv, TypeOK, ShapeInv
<1> QED BY <1>1, <1>2, <1>3, <1>4, <1>5, <1>6, <1>7, <1>8, <1>9, <1>10, <1>11 DEF Next

THEOREM ShapeAlways == Spec => []Inv
BY TypeInit, TypeStep, PTL DEF Spec

-----------------------------------------------------------------------------
(* What is wrong is reported.                                               *)

LEMMA RuleNames ==
    "url_in_prose_field" \in Rules /\ "required_empty" \in Rules
BY DEF Rules

\* What a field that fails is.
LEMMA FailsMeans ==
    ASSUME NEW vals, NEW p
    PROVE  /\ Fails("url_in_prose_field", vals, p) <=>
                vals[p].kind = "link" /\ routes[p].format \in Prose
           /\ Fails("required_empty", vals, p) <=>
                form[p].required /\ vals[p] = Blank /\ ~Unchecked(p)
BY DEF Fails

LEMMA LintSame ==
    ASSUME UNCHANGED <<form, routes, answers>>
    PROVE  LintFormAnswers(answers)' = LintFormAnswers(answers)
BY DEF LintFormAnswers, Fails, DuplicateUrl, Unchecked, P

\* What the documents leave of an answer.
LEMMA FinalAnswer ==
    ASSUME Inv, FinalizeFormAnswers, NEW p \in P
    PROVE  /\ answers'[p] = answers[p] \/ answers'[p].kind \in {"document", "blank"}
           /\ answers'[p] = Blank /\ ~IsCoverLetter(form[p]) =>
                answers[p] = Blank /\ ClassifyFormField(form[p]) # "file"
           /\ ClassifyFormField(form[p]) # "file" /\ ~IsCoverLetter(form[p]) =>
                answers'[p] = answers[p]
<1> DEFINE class == ClassifyFormField(form[p])
<1>1. answers'[p] = IF class = "file" THEN Of("document", "resumePDF")
                    ELSE IF class = "cover_letter" /\ letter # Blank THEN Of("document", "coverPDF")
                    ELSE IF class \in {"cover_letter", "cover_letter_text"}
                      THEN letter ELSE answers[p]
  BY DEF FinalizeFormAnswers
<1>2. letter.kind \in {"document", "blank"}
  BY ValueType DEF Inv, ShapeInv
<1>3. IsCoverLetter(form[p]) <=> class \in {"cover_letter", "cover_letter_text"}
  BY DEF IsCoverLetter
<1> HIDE DEF class
<1>4. answers'[p] = answers[p] \/ answers'[p].kind \in {"document", "blank"}
  BY <1>1, <1>2, ValueType
<1>5. class = "file" => answers'[p] # Blank
  BY <1>1, ValueType
<1>6. class # "file" /\ ~IsCoverLetter(form[p]) => answers'[p] = answers[p]
  BY <1>1, <1>3
<1> QED BY <1>4, <1>5, <1>6 DEF class

ReportInv == CheckedInv /\ ProseIsNotALink /\ BlankIsReported

LEMMA ReportInit == Init => ReportInv
BY DEF Init, ReportInv, CheckedInv, ProseIsNotALink, BlankIsReported

LEMMA ReportStep ==
    ASSUME Inv, ReportInv, [Next]_vars PROVE ReportInv'
<1>1. ASSUME stage' \notin {"retry", "finalize", "done"} PROVE ReportInv'
  BY <1>1 DEF ReportInv, CheckedInv, ProseIsNotALink, BlankIsReported
<1>2. CASE Lint
  <2>1. /\ UNCHANGED <<form, routes, answers, tried, retried>>
        /\ lints' = LintFormAnswers(answers)
        /\ todo'.links = Failing("url_in_prose_field", lints')
        /\ stage' = IF lints' = {} THEN "finalize" ELSE "retry"
    BY <1>2 DEF Lint
  <2>2. P' = P /\ \A p : LinkAt(p)' <=> LinkAt(p)
    BY <2>1 DEF P, LinkAt
  <2>3. \A p \in P : LinkAt(p) => <<"url_in_prose_field", p>> \in lints'
    BY <2>1, LintType, FailsMeans, RuleNames DEF LinkAt
  <2>4. CheckedInv'
    BY <2>1, <2>2, <2>3, LintSame DEF CheckedInv, Failing
  <2> QED BY <2>1, <2>4 DEF ReportInv, ProseIsNotALink, BlankIsReported
<1>3. CASE RetryFailure
  <2>1. PICK p \in NextUp(todo) :
          /\ routes' = [routes EXCEPT ![p].strategy = "behavioral"]
          /\ todo' = Without(todo, p) /\ tried' = tried \cup {p}
          /\ \/ UNCHANGED <<answers, retried>>
             \/ \E kind \in ProseKinds \ {"link"} :
                   /\ answers' = [answers EXCEPT ![p] = Says(kind, form[p])]
                   /\ retried' = retried + 1
    BY <1>3 DEF RetryFailure
  <2>2. stage = "retry" /\ UNCHANGED <<stage, form>> /\ P' = P
    BY <1>3 DEF RetryFailure, P
  <2>3. p \in P /\ todo.links \subseteq todo'.links \cup {p}
    BY <2>1, WithoutType DEF Inv, ShapeInv
  <2>4. \A q \in P : q # p => (LinkAt(q)' <=> LinkAt(q))
    <3>1. \A q \in P : q # p => routes'[q] = routes[q] /\ answers'[q] = answers[q]
      BY <2>1 DEF Inv, TypeOK
    <3> QED BY <3>1 DEF LinkAt
  <2>5. \A q \in P : LinkAt(q)' => q \in todo'.links \cup tried'
    BY <2>1, <2>2, <2>3, <2>4 DEF ReportInv, CheckedInv
  <2> QED BY <2>2, <2>5 DEF ReportInv, CheckedInv, ProseIsNotALink, BlankIsReported
<1>4. CASE RetryEnds
  <2>1. /\ UNCHANGED <<form, routes, answers, tried, retried>>
        /\ lints' = LintFormAnswers(answers)
        /\ stage = "retry" /\ stage' = "finalize"
        /\ retried >= MaxRetries \/ NextUp(todo) = {}
    BY <1>4 DEF RetryEnds
  <2>2. P' = P /\ \A p : LinkAt(p)' <=> LinkAt(p)
    BY <2>1 DEF P, LinkAt
  <2>3. retried = MaxRetries \/ todo.links = {}
    <3>1. retried \in 0..MaxRetries
      BY DEF Inv, TypeOK
    <3>2. NextUp(todo) = {} => todo.links = {}
      BY DEF NextUp
    <3> QED BY <2>1, <3>1, <3>2, RetriesAssumption
  <2>4. CheckedInv'
    BY <2>1, <2>2, <2>3, LintSame DEF ReportInv, CheckedInv
  <2> QED BY <2>1, <2>4 DEF ReportInv, ProseIsNotALink, BlankIsReported
<1>5. CASE FinalizeFormAnswers
  <2>1. UNCHANGED <<form, routes, tried, retried, lints>> /\ P' = P
        /\ stage = "finalize" /\ stage' = "done" /\ lints = LintFormAnswers(answers)
    BY <1>5 DEF FinalizeFormAnswers, P, ReportInv, CheckedInv
  <2>2. ASSUME NEW p \in P, routes[p].format \in Prose, answers'[p].kind = "link"
        PROVE  <<"url_in_prose_field", p>> \in lints /\ (p \in tried \/ retried = MaxRetries)
    <3>1. LinkAt(p)
      BY <1>5, <2>2, FinalAnswer DEF LinkAt
    <3> QED BY <2>1, <3>1, LintType, FailsMeans, RuleNames DEF LinkAt, ReportInv, CheckedInv
  <2>3. ASSUME NEW p \in P, form[p].required, answers'[p] = Blank, ~IsCoverLetter(form[p])
        PROVE  <<"required_empty", p>> \in lints \/ routes[p].format = "empty_ok"
    <3>1. answers[p] = Blank /\ routes[p].format # "skip"
      BY <1>5, <2>3, FinalAnswer DEF Inv, ShapeInv
    <3> QED BY <2>1, <2>3, <3>1, LintType, FailsMeans, RuleNames DEF Unchecked
  <2>4. ProseIsNotALink'
    BY <2>1, <2>2 DEF ProseIsNotALink
  <2>5. BlankIsReported'
    BY <2>1, <2>3 DEF BlankIsReported, IsCoverLetter
  <2> QED BY <2>1, <2>4, <2>5 DEF ReportInv, CheckedInv
<1>6. CASE UNCHANGED vars
  <2>1. UNCHANGED <<stage, form, routes, answers, tried, retried, lints, todo>> /\ P' = P
    BY <1>6 DEF vars, P
  <2>2. \A p : LinkAt(p)' <=> LinkAt(p)
    BY <2>1 DEF LinkAt
  <2> QED BY <2>1, <2>2, LintSame
          DEF ReportInv, CheckedInv, ProseIsNotALink, BlankIsReported
<1>7. CASE ResolveFieldRoutes \/ BuildFieldIntentMap \/ IntentFails
           \/ answerRoutedFields \/ answerBatchFields \/ AnswerFails
  BY <1>1, <1>7 DEF ResolveFieldRoutes, BuildFieldIntentMap, IntentFails,
                    answerRoutedFields, answerBatchFields, AnswerFails
<1> QED BY <1>2, <1>3, <1>4, <1>5, <1>6, <1>7 DEF Next

\* What goes out unfit is on record, and was asked again when it could be.
THEOREM FailuresAlwaysReported == Spec => []FailuresAreReported
<1>1. Inv /\ ReportInv => FailuresAreReported
  BY DEF Inv, ReportInv, FailuresAreReported
<1> QED BY <1>1, ShapeAlways, TypeInit, ReportInit, ReportStep, PTL DEF Spec

-----------------------------------------------------------------------------
(* What the model wrote stays with its field.                               *)

LEMMA BelongsSame ==
    ASSUME UNCHANGED form
    PROVE  \A p, v : BelongsTo(p, v)' <=> BelongsTo(p, v')
BY DEF BelongsTo

LEMMA OwnInit == Init => OwnInv
BY DEF Init, OwnInv, Answered

LEMMA OwnIsGood ==
    ASSUME NEW p PROVE \A i : Own(i, p) <=> Good(rows[i], p)
BY DEF Own, Good

LEMMA RowsMean ==
    ASSUME UNCHANGED <<form, rows>>
    PROVE  /\ P' = P
           /\ \A p : /\ Named(p)' <=> Named(p)
                     /\ Naming(rows, p)' = Naming(rows, p) /\ At(rows, p)' = At(rows, p)
                     /\ \A i : Good(rows[i], p)' <=> Good(rows[i], p)
                     /\ \A v : BelongsTo(p, v)' <=> BelongsTo(p, v')
                     /\ IsCoverLetter(form[p])' <=> IsCoverLetter(form[p])
BY DEF P, Named, Naming, At, Last, Good, BelongsTo, IsCoverLetter

\* A step that leaves the rows alone, and what is a field's own, leaves what is
\* whose.
LEMMA OwnSame ==
    ASSUME Inv, UNCHANGED <<form, rows>>, NEW p \in P, OwnAnswer(p),
           p \in tried => p \in tried',
           BelongsTo(p, answers[p]) => BelongsTo(p, answers'[p]),
           p \in tried' \/ (answers[p] # Blank => answers'[p] # Blank \/ IsCoverLetter(form[p]))
    PROVE  OwnAnswer(p)'
<1>1. BelongsTo(p, answers[p])' <=> BelongsTo(p, answers'[p])
  BY DEF BelongsTo
<1>2. /\ Named(p)' <=> Named(p)
      /\ Naming(rows, p)' = Naming(rows, p) /\ At(rows, p)' = At(rows, p)
      /\ \A i : Good(rows[i], p)' <=> Good(rows[i], p)
      /\ IsCoverLetter(form[p])' <=> IsCoverLetter(form[p])
  BY RowsMean
<1> QED BY <1>1, <1>2 DEF OwnAnswer

LEMMA OwnStep ==
    ASSUME Inv, OwnInv, [Next]_vars PROVE OwnInv'
<1> USE DEF Answered
<1>1. CASE ResolveFieldRoutes \/ BuildFieldIntentMap \/ IntentFails \/ AnswerFails
  BY <1>1 DEF ResolveFieldRoutes, BuildFieldIntentMap, IntentFails, AnswerFails, OwnInv
<1>2. CASE answerRoutedFields
  <2>1. rows' = rows /\ rows = <<>> /\ UNCHANGED form
    BY <1>2 DEF answerRoutedFields, Inv, ShapeInv
  <2>2. ASSUME NEW p \in P PROVE OwnAnswer(p)'
    <3>1. BelongsTo(p, answers'[p])
      BY <1>2, AnsweredStep
    <3>2. ~Named(p)'
      BY <2>1 DEF Named, Naming
    <3>3. BelongsTo(p, answers[p])'
      BY <2>1, <3>1 DEF BelongsTo
    <3> QED BY <3>2, <3>3 DEF OwnAnswer
  <2> QED BY <2>1, <2>2, RowsMean DEF OwnInv
<1>3. CASE answerBatchFields
  <2>1. UNCHANGED <<form, tried, routes>> /\ stage = "batch" /\ rows = <<>>
    BY <1>3 DEF answerBatchFields, Inv, ShapeInv
  <2>2. rows' \in Seq(Row(P))
    BY <1>3, BatchStep
  <2>3. ASSUME NEW p \in P PROVE OwnAnswer(p)'
    <3> DEFINE merged == mergeBatchAnswers(rows', p)
               naming == Naming(rows', p)
               at == At(rows', p)
               named == naming # {} /\ Last(rows', naming).value # Blank
    <3>1. answers'[p] = IF routes[p].strategy # "batch_llm" THEN answers[p]
                        ELSE IF NeedsLLM(form[p]) THEN merged ELSE BatchAnswer(form[p])
      BY <1>3, BatchStep
    <3>2. (\A i \in naming : Good(rows'[i], p)) =>
            /\ named \/ (\A i \in at : Good(rows'[i], p)) => BelongsTo(p, merged)
            /\ named => merged # Blank
      BY <2>2, MergeOwn DEF Inv
    <3>3. BelongsTo(p, answers[p])
      <4>1. OwnAnswer(p)
        BY <2>1 DEF OwnInv
      <4>2. Naming(rows, p) = {} /\ At(rows, p) = {}
        BY <2>1 DEF Naming, At
      <4> QED BY <4>1, <4>2 DEF OwnAnswer
    <3>4. BelongsTo(p, BatchAnswer(form[p]))
      BY StateType, AnswerTypes, ProfileBelongs DEF Inv
    <3>5. naming # {} => routes[p].strategy = "batch_llm" /\ NeedsLLM(form[p])
      BY <1>3, NamedIsAsked
    <3>6. /\ BelongsTo(p, answers[p])' <=> BelongsTo(p, answers'[p])
          /\ Named(p)' <=> named
          /\ Naming(rows, p)' = naming /\ At(rows, p)' = at
          /\ \A i : Good(rows[i], p)' <=> Good(rows'[i], p)
      BY <2>1 DEF BelongsTo, Named, Naming, At, Last, Good
    <3> HIDE DEF merged, naming, at
    <3>7. (\A i \in naming : Good(rows'[i], p)) =>
            /\ named \/ (\A i \in at : Good(rows'[i], p)) => BelongsTo(p, answers'[p])
            /\ named => answers'[p] # Blank
      BY <3>1, <3>2, <3>3, <3>4, <3>5
    <3> HIDE DEF named
    <3> QED BY <3>6, <3>7 DEF OwnAnswer
  <2>4. P' = P
    BY <2>1 DEF P
  <2> QED BY <2>3, <2>4 DEF OwnInv
<1>4. CASE Lint \/ RetryEnds \/ UNCHANGED vars
  <2>1. UNCHANGED <<form, rows, answers, tried>>
        /\ (stage' \in Answered \cup {"batch"} => stage \in Answered \cup {"batch"})
    BY <1>4 DEF Lint, RetryEnds, vars
  <2>2. P' = P /\ \A p \in P : OwnAnswer(p) => OwnAnswer(p)'
    BY <2>1, RowsMean, OwnSame
  <2> QED BY <2>1, <2>2 DEF OwnInv
<1>5. CASE RetryFailure
  <2>1. PICK p \in NextUp(todo) :
          /\ tried' = tried \cup {p}
          /\ \/ UNCHANGED <<answers, retried>>
             \/ \E kind \in ProseKinds \ {"link"} :
                   /\ answers' = [answers EXCEPT ![p] = Says(kind, form[p])]
                   /\ retried' = retried + 1
    BY <1>5 DEF RetryFailure
  <2>2. UNCHANGED <<stage, form, rows>> /\ stage \in Answered /\ P' = P
    BY <1>5 DEF RetryFailure, P
  <2>3. p \in P /\ DOMAIN answers = P
    BY <2>1, WithoutType DEF Inv, TypeOK, ShapeInv
  <2>4. ASSUME NEW q \in P PROVE OwnAnswer(q)'
    <3>1. OwnAnswer(q)
      BY <2>2 DEF OwnInv
    <3>2. answers'[q] = answers[q]
          \/ (q = p /\ \E kind \in ProseKinds : answers'[q] = Says(kind, form[q]))
      BY <2>1, <2>3
    <3>3. q \in tried' \/ answers'[q] = answers[q]
      BY <2>1, <2>3
    <3>4. BelongsTo(q, answers[q]) => BelongsTo(q, answers'[q])
      <4>1. \A kind \in ProseKinds : BelongsTo(q, Says(kind, form[q]))
        BY RoutedType DEF Inv
      <4> QED BY <3>2, <4>1
    <3>5. q \in tried => q \in tried'
      BY <2>1
    <3> QED BY <2>2, <3>1, <3>3, <3>4, <3>5, OwnSame
  <2> QED BY <2>2, <2>4 DEF OwnInv
<1>6. CASE FinalizeFormAnswers
  <2>1. UNCHANGED <<form, rows, tried>> /\ stage \in Answered /\ P' = P
    BY <1>6 DEF FinalizeFormAnswers, P
  <2>2. ASSUME NEW p \in P PROVE OwnAnswer(p)'
    <3>1. OwnAnswer(p)
      BY <2>1 DEF OwnInv
    <3>2. answers'[p] = answers[p] \/ answers'[p].kind \in {"document", "blank"}
      BY <1>6, FinalAnswer
    <3>3. BelongsTo(p, answers[p]) => BelongsTo(p, answers'[p])
      BY <3>2, KindBelongs
    <3>4. answers[p] # Blank => answers'[p] # Blank \/ IsCoverLetter(form[p])
      BY <1>6, FinalAnswer
    <3> QED BY <2>1, <3>1, <3>3, <3>4, OwnSame
  <2> QED BY <2>1, <2>2 DEF OwnInv
<1> QED BY <1>1, <1>2, <1>3, <1>4, <1>5, <1>6 DEF Next

\* The answer that goes out for a field is its own when the rows that name it
\* are, whatever the model says in the others and however many they are.
THEOREM AnswersStayTheirOwn == Spec => []AnswerIsItsOwn
<1>1. OwnInv => AnswerIsItsOwn
  BY OwnIsGood DEF OwnInv, OwnAnswer, AnswerIsItsOwn, Answered
<1> QED BY <1>1, ShapeAlways, OwnInit, OwnStep, PTL DEF Spec

-----------------------------------------------------------------------------
(* Sponsorship and authorization.                                           *)

LEMMA FirstOfSecond ==
    ASSUME NEW b, NEW c, b # Blank
    PROVE  FirstOf(<<Blank, b, c>>) = b
<1> DEFINE s == <<Blank, b, c>>
           given == {i \in DOMAIN s : s[i] # Blank}
<1>1. DOMAIN s = 1..3 /\ s[1] = Blank /\ s[2] = b
  OBVIOUS
<1>2. given \in SUBSET (1..3) /\ 2 \in given /\ 1 \notin given
  BY <1>1
<1>3. First(given) = 2
  <2> HIDE DEF given
  <2>1. First(given) \in given /\ First(given) \in 1..3 /\ First(given) <= 2
    BY <1>2, FirstPosition
  <2>2. First(given) # 1
    BY <1>2, <2>1
  <2> QED BY <2>1, <2>2
<1>4. FirstOf(s) = s[First(given)]
  BY <1>2 DEF FirstOf
<1> QED BY <1>1, <1>3, <1>4

\* A label that asks for nothing else is answered by none of the earlier rules.
LEMMA ComplianceAnswer ==
    ASSUME NEW f \in FormField, Unambiguous(f), ~AsksAnotherQuestion(f)
    PROVE  resolveComplianceSelect(f) =
             IF "sponsorship" \in f.words THEN YesIf(f, NeedsSponsorship)
             ELSE IF f.words \cap {"workAuthorization", "authorizedToWork"} # {}
                     /\ inferWorkAuthSelect(f) # {}
               THEN CHOOSE v \in inferWorkAuthSelect(f) : TRUE ELSE Blank
<1> DEFINE export == resolveExportControlsAnswer(f)
           eligible == IF "clearanceEligibility" \in f.words THEN pickOption(f, "eligible") ELSE Blank
           level == IF "clearanceLevel" \in f.words THEN pickOption(f, "neverHeld") ELSE Blank
           early == FirstOf(<<export, eligible, level>>)
           auth == inferWorkAuthSelect(f)
           chosen == CHOOSE v \in auth : TRUE
<1>1. "exportControl" \notin f.words /\ "clearanceEligibility" \notin f.words
      /\ "clearanceLevel" \notin f.words /\ "onsiteOffice" \notin f.words
  BY DEF AsksAnotherQuestion, matchAny
<1>2. export = Blank /\ eligible = Blank /\ level = Blank
  BY <1>1 DEF resolveExportControlsAnswer
<1>3. early = Blank
  <2>1. \A i \in DOMAIN <<export, eligible, level>> : <<export, eligible, level>>[i] = Blank
    <3> HIDE DEF export, eligible, level
    <3> QED BY <1>2
  <2> HIDE DEF export, eligible, level
  <2> QED BY <2>1, FirstOfBlank
<1>4. resolveComplianceSelect(f) =
        IF early # Blank THEN early
        ELSE IF "sponsorship" \in f.words
          THEN YesIf(f, NeedsSponsorship)
        ELSE IF f.words \cap {"workAuthorization", "authorizedToWork"} # {} /\ auth # {}
          THEN chosen
        ELSE IF "onsiteOffice" \in f.words
                /\ (profile.arrangement \in {"onsite", "flexible"} \/ profile.relocate)
          THEN pickOption(f, "yes") ELSE Blank
  BY DEF resolveComplianceSelect
<1> HIDE DEF early
<1> QED BY <1>1, <1>3, <1>4

\* The subject of work authorization is the first of those that are asked about.
LEMMA InferableAnswer ==
    ASSUME NEW f \in FormField, profile \in Profile, Unambiguous(f), ~AsksAnotherQuestion(f),
           NEW v, inferWorkAuthSelect(f) = {v}
    PROVE  resolveInferableSelect(f) = v
<1> DEFINE levels == [i \in DOMAIN profile.english |-> pickOption(f, profile.english[i])]
           english == FirstOf(levels)
           told == {i \in DOMAIN Subjects : Told(f, Subjects[i]) # {}}
           first == Told(f, Subjects[First(told)])
           chosen == CHOOSE w \in first : TRUE
<1>1. english = Blank
  <2>1. \A i \in DOMAIN levels : levels[i] = Blank
    BY DEF Unambiguous
  <2> HIDE DEF levels
  <2> QED BY <2>1, FirstOfBlank
<1>2. f.options # <<>>
  BY PickOption DEF Unambiguous
<1>3. /\ DOMAIN Subjects = 1..10 /\ Subjects[1] = "latinAmerican"
      /\ Subjects[2] = "timeZone" /\ Subjects[3] = "workAuth"
  BY DEF Subjects
<1>4. "latinAmerican" \notin f.words /\ "timeZone" \notin f.words
  BY DEF AsksAnotherQuestion, matchAny
<1>5. told \in SUBSET (1..10) /\ 3 \in told /\ 1 \notin told /\ 2 \notin told
  <2>1. /\ Told(f, Subjects[1]) = {} /\ Told(f, Subjects[2]) = {}
        /\ Told(f, Subjects[3]) = {v}
    BY <1>3, <1>4 DEF Told
  <2> QED BY <1>3, <2>1
<1>6. First(told) = 3
  <2> HIDE DEF told
  <2> DEFINE n == 10
  <2>1. n \in Nat /\ told \in SUBSET (1..n) /\ told # {}
    BY <1>5
  <2> HIDE DEF n
  <2>2. First(told) \in told /\ \A j \in told : First(told) <= j
    BY <2>1, FirstPosition
  <2>3. First(told) \in 1..10 /\ First(told) <= 3
    BY <1>5, <2>2
  <2>4. First(told) # 1 /\ First(told) # 2
    BY <1>5, <2>2
  <2> QED BY <2>3, <2>4
<1>7. first = {v} /\ chosen = v
  <2>1. first = Told(f, "workAuth")
    <3> HIDE DEF told
    <3> QED BY <1>3, <1>6
  <2>2. Told(f, "workAuth") = {v}
    BY DEF Told
  <2> HIDE DEF first
  <2> QED BY <2>1, <2>2
<1>8. resolveInferableSelect(f) =
        IF f.options = <<>> THEN Blank
        ELSE IF english # Blank THEN english
        ELSE IF told = {} THEN Blank ELSE chosen
  BY DEF resolveInferableSelect
<1>9. told # {}
  BY <1>5
<1> HIDE DEF english, told, chosen
<1> QED BY <1>1, <1>2, <1>7, <1>8, <1>9

LEMMA RightSelect ==
    ASSUME NEW f \in FormField, profile \in Profile, Consistent,
           Unambiguous(f), ~AsksAnotherQuestion(f)
    PROVE  RightAnswer(f, resolveSelectAnswer(f))
<1> DEFINE raw == resolveIdentityAnswer(f)
           option == pickOption(f, raw.of)
           last == IF raw # Blank /\ option # Blank THEN option ELSE raw
           compliance == resolveComplianceSelect(f)
           inferable == resolveInferableSelect(f)
           auth == inferWorkAuthSelect(f)
<1>1. resolveSelectAnswer(f) = FirstOf(<<compliance, inferable, last>>)
  BY DEF resolveSelectAnswer
<1>2. \A b : YesIf(f, b) # Blank
  BY DEF YesIf, Unambiguous
<1>3. \A v : compliance = v /\ v # Blank => resolveSelectAnswer(f) = v
  <2> HIDE DEF compliance, inferable, last
  <2> QED BY <1>1, FirstOfHead
<1>4. \A v : compliance = Blank /\ inferable = v /\ v # Blank => resolveSelectAnswer(f) = v
  <2> HIDE DEF compliance, inferable, last
  <2> QED BY <1>1, FirstOfSecond
<1>5. YesIf(f, NeedsSponsorship) = YesIf(f, profile.needs)
  <2>1. profile.needs \in BOOLEAN
    BY DEF Profile
  <2> QED BY <2>1 DEF NeedsSponsorship, Consistent, YesIf
<1>6. \A w : (CHOOSE v \in {w} : TRUE) = w
  OBVIOUS
<1>7. CASE "sponsorship" \in f.words
  <2>1. compliance = YesIf(f, profile.needs)
    BY <1>5, <1>7, ComplianceAnswer
  <2>2. resolveSelectAnswer(f) = YesIf(f, profile.needs)
    <3> HIDE DEF compliance
    <3> QED BY <1>2, <1>3, <2>1
  <2>3. f.words # {"authorizedToWork", "inUS"}
    BY <1>7
  <2> QED BY <2>2, <2>3 DEF RightAnswer
<1>8. CASE "sponsorship" \notin f.words /\ "requireSupport" \in f.words
  <2>1. auth = {YesIf(f, profile.needs)}
    BY <1>8 DEF inferWorkAuthSelect
  <2>2. inferable = YesIf(f, profile.needs)
    BY <2>1, InferableAnswer
  <2>3. compliance \in {Blank, YesIf(f, profile.needs)}
    BY <1>6, <1>8, <2>1, ComplianceAnswer
  <2>4. resolveSelectAnswer(f) = YesIf(f, profile.needs)
    <3> HIDE DEF compliance, inferable
    <3> QED BY <1>2, <1>3, <1>4, <2>2, <2>3
  <2>5. f.words # {"authorizedToWork", "inUS"}
    BY <1>8
  <2> QED BY <2>4, <2>5 DEF RightAnswer
<1>9. CASE f.words = {"authorizedToWork", "inUS"}
  <2>1. auth = {YesIf(f, profile.inUS)}
    BY <1>9 DEF inferWorkAuthSelect, AsksAuthorization
  <2>2. compliance = YesIf(f, profile.inUS)
    BY <1>6, <1>9, <2>1, ComplianceAnswer
  <2>3. resolveSelectAnswer(f) = YesIf(f, profile.inUS)
    <3> HIDE DEF compliance
    <3> QED BY <1>2, <1>3, <2>2
  <2>4. f.words \cap {"sponsorship", "requireSupport"} = {}
    BY <1>9
  <2> QED BY <2>3, <2>4 DEF RightAnswer
<1> QED BY <1>7, <1>8, <1>9 DEF RightAnswer

\* A select that the rules answer is not left to the model, and the batch gives
\* what the rules do.
LEMMA RightBatch ==
    ASSUME NEW f \in FormField, profile \in Profile, Consistent,
           Unambiguous(f), ~AsksAnotherQuestion(f), ClassifyFormField(f) = "select"
    PROVE  /\ RightAnswer(f, BatchAnswer(f))
           /\ NeedsLLM(f) => \A v : RightAnswer(f, v)
<1> DEFINE chosen == resolveSelectAnswer(f)
           answered == \/ f.words \cap {"sponsorship", "requireSupport"} # {}
                       \/ f.words = {"authorizedToWork", "inUS"}
<1>1. RightAnswer(f, chosen)
  BY RightSelect
<1>2. chosen.kind = "option" => BatchAnswer(f) = chosen
  <2>1. BatchAnswer(f) = IF f.options # <<>> /\ chosen.kind \in {"fact", "link"} THEN Blank
                         ELSE normalizeSelectValue(f, chosen)
    BY DEF BatchAnswer
  <2>2. chosen.kind = "option" => normalizeSelectValue(f, chosen) = chosen
    BY DEF normalizeSelectValue
  <2> HIDE DEF chosen
  <2> QED BY <2>1, <2>2
<1>3. \A b : YesIf(f, b).kind = "option" /\ YesIf(f, b) # Blank
  BY PicksType DEF YesIf, Unambiguous
<1> HIDE DEF chosen
<1>4. answered => chosen.kind = "option" /\ chosen # Blank
  BY <1>1, <1>3 DEF RightAnswer
<1>5. ~answered => \A v : RightAnswer(f, v)
  BY DEF RightAnswer
<1>6. answered => BatchAnswer(f) = chosen /\ ~NeedsLLM(f)
  BY <1>2, <1>4 DEF NeedsLLM
<1> HIDE DEF answered
<1> QED BY <1>1, <1>5, <1>6

LEMMA AskedField ==
    ASSUME Inv, NEW p \in P, Asked(p)
    PROVE  /\ form[p] \in FormField /\ profile \in Profile
           /\ Unambiguous(form[p]) /\ ~AsksAnotherQuestion(form[p])
           /\ ClassifyFormField(form[p]) = "select"
BY StateType DEF Inv, Asked

\* Where the form and the profile stay, so do the questions.
LEMMA AskedSame ==
    ASSUME UNCHANGED <<form, profile>>
    PROVE  /\ P' = P /\ (Consistent' <=> Consistent)
           /\ \A p : Asked(p)' => p \notin tried' /\ (p \notin tried => Asked(p))
           /\ \A p : RightAnswer(form[p], answers[p])' <=> RightAnswer(form[p], answers'[p])
<1>1. P' = P /\ (Consistent' <=> Consistent)
  BY DEF P, Consistent
<1>2. ASSUME NEW p
      PROVE  /\ ClassifyFormField(form[p])' = ClassifyFormField(form[p])
             /\ Unambiguous(form[p])' <=> Unambiguous(form[p])
             /\ AsksAnotherQuestion(form[p])' <=> AsksAnotherQuestion(form[p])
  BY DEF ClassifyFormField, Unambiguous, AsksAnotherQuestion
<1>3. \A p : RightAnswer(form[p], answers[p])' <=> RightAnswer(form[p], answers'[p])
  BY DEF RightAnswer
<1> QED BY <1>1, <1>2, <1>3 DEF Asked

LEMMA RuleInit == Init => RuleInv
BY DEF Init, RuleInv, Answered

\* A step that keeps the form, the routes and the answers of what the rules
\* answer keeps them right.
LEMMA RuleSame ==
    ASSUME RuleInv, UNCHANGED <<form, profile>>, tried \subseteq tried',
           stage \in Answered,
           \A p \in P : Asked(p) /\ p \notin tried' =>
               answers'[p] = answers[p] /\ routes'[p].strategy = routes[p].strategy
    PROVE  RuleInv'
<1>1. ASSUME Consistent', NEW p \in P', Asked(p)',
             routes'[p].strategy \in {"compliance_select", "batch_llm"}
      PROVE  RightAnswer(form[p], answers[p])'
  <2>1. p \in P /\ p \notin tried' /\ Asked(p) /\ Consistent
    BY <1>1, AskedSame
  <2>2. answers'[p] = answers[p] /\ routes[p].strategy \in {"compliance_select", "batch_llm"}
    BY <1>1, <2>1
  <2>3. RightAnswer(form[p], answers[p])
    BY <2>1, <2>2 DEF RuleInv
  <2> QED BY <2>2, <2>3, AskedSame
<1> QED BY <1>1 DEF RuleInv

LEMMA RuleStep ==
    ASSUME Inv, RuleInv, [Next]_vars PROVE RuleInv'
<1>1. ASSUME stage' \notin Answered \cup {"batch"} PROVE RuleInv'
  BY <1>1 DEF RuleInv
<1>2. CASE ResolveFieldRoutes \/ BuildFieldIntentMap \/ IntentFails \/ AnswerFails
  BY <1>1, <1>2 DEF ResolveFieldRoutes, BuildFieldIntentMap, IntentFails, AnswerFails, Answered
<1>3. CASE answerRoutedFields
  <2>1. /\ UNCHANGED <<form, profile, routes, tried>>
        /\ stage' = IF By("batch_llm") = {} THEN "lint" ELSE "batch"
    BY <1>3 DEF answerRoutedFields
  <2>2. ASSUME Consistent', NEW p \in P', Asked(p)'
        PROVE  /\ routes'[p].strategy = "compliance_select" => RightAnswer(form[p], answers[p])'
               /\ routes'[p].strategy = "batch_llm" => stage' \notin Answered
    <3>1. p \in P /\ Asked(p) /\ Consistent
      BY <2>1, <2>2, AskedSame
    <3>2. RightAnswer(form[p], resolveSelectAnswer(form[p]))
      BY <3>1, AskedField, RightSelect
    <3>3. routes[p].strategy = "compliance_select" => answers'[p] = resolveSelectAnswer(form[p])
      BY <1>3, <3>1, AnsweredStep
    <3>4. routes[p].strategy = "batch_llm" => stage' = "batch"
      BY <2>1, <3>1 DEF By
    <3>5. "batch" \notin Answered
      BY DEF Answered
    <3>6. routes[p].strategy = "compliance_select" => RightAnswer(form[p], answers'[p])
      BY <3>2, <3>3
    <3> QED BY <2>1, <3>4, <3>5, <3>6, AskedSame
  <2> QED BY <2>2 DEF RuleInv
<1>4. CASE answerBatchFields
  <2>1. UNCHANGED <<form, profile, routes, tried>> /\ stage = "batch"
    BY <1>4 DEF answerBatchFields
  <2>2. ASSUME Consistent', NEW p \in P', Asked(p)'
        PROVE  routes'[p].strategy \in {"compliance_select", "batch_llm"} =>
                   RightAnswer(form[p], answers[p])'
    <3>1. p \in P /\ Asked(p) /\ Consistent
      BY <2>1, <2>2, AskedSame
    <3>2. RightAnswer(form[p], BatchAnswer(form[p]))
          /\ (NeedsLLM(form[p]) => \A v : RightAnswer(form[p], v))
      BY <3>1, AskedField, RightBatch
    <3>3. routes[p].strategy = "compliance_select" => RightAnswer(form[p], answers'[p])
      <4>1. routes[p].strategy = "compliance_select" => RightAnswer(form[p], answers[p])
        BY <2>1, <3>1 DEF RuleInv
      <4>2. routes[p].strategy # "batch_llm" => answers'[p] = answers[p]
        BY <1>4, <3>1, BatchStep
      <4> QED BY <4>1, <4>2
    <3>4. routes[p].strategy = "batch_llm" => RightAnswer(form[p], answers'[p])
      <4>1. routes[p].strategy = "batch_llm" /\ ~NeedsLLM(form[p]) =>
                answers'[p] = BatchAnswer(form[p])
        BY <1>4, <3>1, BatchStep
      <4>2. NeedsLLM(form[p]) => RightAnswer(form[p], answers'[p])
        BY <3>2
      <4>3. ~NeedsLLM(form[p]) /\ routes[p].strategy = "batch_llm" =>
                RightAnswer(form[p], answers'[p])
        BY <3>2, <4>1
      <4> QED BY <4>2, <4>3
    <3> QED BY <2>1, <3>3, <3>4, AskedSame
  <2> QED BY <2>2 DEF RuleInv
<1>5. CASE Lint \/ RetryEnds
  <2>1. UNCHANGED <<form, profile, routes, answers, tried>> /\ stage \in Answered
    BY <1>5 DEF Lint, RetryEnds, Answered
  <2> QED BY <2>1, RuleSame
<1>6. CASE RetryFailure
  <2>1. PICK p \in NextUp(todo) :
          /\ routes' = [routes EXCEPT ![p].strategy = "behavioral"]
          /\ tried' = tried \cup {p}
          /\ \/ UNCHANGED <<answers, retried>>
             \/ \E kind \in ProseKinds \ {"link"} :
                   /\ answers' = [answers EXCEPT ![p] = Says(kind, form[p])]
                   /\ retried' = retried + 1
    BY <1>6 DEF RetryFailure
  <2>2. UNCHANGED <<form, profile>> /\ stage \in Answered
    BY <1>6 DEF RetryFailure, Answered
  <2>3. \A q \in P : q \notin tried' =>
            answers'[q] = answers[q] /\ routes'[q].strategy = routes[q].strategy
    BY <2>1 DEF Inv, TypeOK
  <2> QED BY <2>1, <2>2, <2>3, RuleSame
<1>7. CASE FinalizeFormAnswers
  <2>1. UNCHANGED <<form, profile, routes, tried>> /\ stage \in Answered
    BY <1>7 DEF FinalizeFormAnswers, Answered
  <2>2. \A p \in P : Asked(p) => answers'[p] = answers[p]
    <3>1. \A p \in P : Asked(p) => ClassifyFormField(form[p]) # "file" /\ ~IsCoverLetter(form[p])
      BY DEF Asked, IsCoverLetter
    <3> QED BY <1>7, <3>1, FinalAnswer
  <2> QED BY <2>1, <2>2, RuleSame
<1>8. CASE UNCHANGED vars
  <2>1. UNCHANGED <<stage, form, profile, routes, answers, tried>>
    BY <1>8 DEF vars
  <2>2. ASSUME Consistent', NEW p \in P', Asked(p)'
        PROVE  p \in P /\ Asked(p) /\ Consistent
               /\ (RightAnswer(form[p], answers[p])' <=> RightAnswer(form[p], answers[p]))
    BY <2>1, <2>2, AskedSame
  <2> QED BY <2>1, <2>2 DEF RuleInv
<1> QED BY <1>2, <1>3, <1>4, <1>5, <1>6, <1>7, <1>8 DEF Next

\* The rules that read the flags and those that read the visa status agree on
\* what goes out, for any form, profile and route.
THEOREM SponsorshipAlwaysTrue == Spec => []SponsorshipIsTrue
<1>1. RuleInv => SponsorshipIsTrue
  BY DEF RuleInv, SponsorshipIsTrue, Asked, ByRule, RightAnswer, Answered
<1> QED BY <1>1, ShapeAlways, RuleInit, RuleStep, PTL DEF Spec
=============================================================================
