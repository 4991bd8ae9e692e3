------------------------- MODULE MatchPolicyProofs -------------------------
(***************************************************************************)
(* The properties of MatchPolicy for every set of answers, postings, form  *)
(* labels, similarities and model replies.                                 *)
(***************************************************************************)
EXTENDS MatchPolicy, TLAPS

\* What links the row of a match to the rows it was made from: a user with
\* chunks has stored preferences, and facts are those of the stored text until
\* the labels are replaced.
Linked ==
    /\ embedded => prefs # NoPrefs
    /\ match # NoMatch => embedded /\ job # NoJob
    /\ job # NoJob /\ ~job.backfilled /\ job.facts # NoFacts =>
           job.facts = ExtractJobFacts(job.posting, job.labels)

PolicyInv == TypeOK /\ Linked /\ PendingPassesFilters /\ MatchedIsTailorable /\ FitInRange

-----------------------------------------------------------------------------
(* The operators.                                                           *)

\* A set of positions of the pattern list has a first one.
LEMMA FirstPattern ==
    ASSUME NEW hits \in SUBSET (1..9), hits # {}
    PROVE  \E i \in hits : \A k \in hits : i <= k
<1> SUFFICES ASSUME \A i \in hits : \E k \in hits : k < i
             PROVE  FALSE
  OBVIOUS
<1>1. 1 \notin hits
  OBVIOUS
<1>2. 2 \notin hits
  BY <1>1
<1>3. 3 \notin hits
  BY <1>1, <1>2
<1>4. 4 \notin hits
  BY <1>1, <1>2, <1>3
<1>5. 5 \notin hits
  BY <1>1, <1>2, <1>3, <1>4
<1>6. 6 \notin hits
  BY <1>1, <1>2, <1>3, <1>4, <1>5
<1>7. 7 \notin hits
  BY <1>1, <1>2, <1>3, <1>4, <1>5, <1>6
<1>8. 8 \notin hits
  BY <1>1, <1>2, <1>3, <1>4, <1>5, <1>6, <1>7
<1>9. 9 \notin hits
  BY <1>1, <1>2, <1>3, <1>4, <1>5, <1>6, <1>7, <1>8
<1>10. \A i \in 1..9 : i = 1 \/ i = 2 \/ i = 3 \/ i = 4 \/ i = 5 \/ i = 6 \/ i = 7
                       \/ i = 8 \/ i = 9
  OBVIOUS
<1> QED
  BY <1>1, <1>2, <1>3, <1>4, <1>5, <1>6, <1>7, <1>8, <1>9, <1>10, Zenon

\* The seniority read off a text is a level or unknown.
LEMMA SeniorityType ==
    ASSUME NEW text
    PROVE  detectSeniorityLevel(text) \in Level \cup {"unknown"}
<1> DEFINE hits == {i \in 1..9 : Levels[i] \in text}
           first == CHOOSE i \in hits : \A k \in hits : i <= k
<1>1. \A i \in 1..9 : Levels[i] \in Level
  BY DEF Levels, Level, Rank
<1>2. hits # {} => first \in 1..9
  BY FirstPattern
<1> QED
  BY <1>1, <1>2 DEF detectSeniorityLevel

\* ExtractJobFacts returns facts.
LEMMA FactsType ==
    ASSUME NEW posting, NEW labels
    PROVE  ExtractJobFacts(posting, labels) \in Facts
<1>1. detectSeniorityLevel(posting \cup labels) \in Level \cup {"unknown"}
  BY SeniorityType
<1> QED
  BY <1>1 DEF ExtractJobFacts, Facts, detectRemotePolicy, Industry

\* resolveJobFacts puts together the stored facts when they are those of the
\* stored text.
LEMMA ResolveStored ==
    ASSUME NEW j, j.facts \in Facts, NoFacts \notin Facts,
           j.facts = ExtractJobFacts(j.posting, j.labels)
    PROVE  resolveJobFacts(j) = j.facts
  BY DEF resolveJobFacts, Facts

\* A weighted similarity is at most the same weight of a greater one.
LEMMA Weighted ==
    ASSUME NEW x \in Percent, NEW y \in Percent, x <= y
    PROVE  /\ 12 * x \in Nat /\ 12 * x <= 12 * y
           /\ 15 * x \in Nat /\ 15 * x <= 15 * y
           /\ 20 * x \in Nat /\ 20 * x <= 20 * y
           /\ 28 * x \in Nat /\ 28 * x <= 28 * y
           /\ 35 * x \in Nat /\ 35 * x <= 35 * y
  BY DEF Percent

\* Either set of weights makes an average of the similarities: the score lies
\* between zero and the best of them.
LEMMA ScoreRange ==
    ASSUME NEW b \in Sims, NEW early \in BOOLEAN,
           b.resume <= b.best, b.skills <= b.best, b.targets <= b.best,
           b.experience <= b.best
    PROVE  /\ ComputeFinalScore(b, early) \in Score
           /\ ComputeFinalScore(b, early) <= 100 * b.best
<1>1. /\ b.resume \in Percent /\ b.skills \in Percent /\ b.targets \in Percent
      /\ b.experience \in Percent /\ b.best \in Percent
  BY DEF Sims
<1>2. CASE early
  <2> DEFINE r == 12 * b.resume
             s == 28 * b.skills
             t == 15 * b.targets
             e == 20 * b.experience
             m == b.best
  <2>1. m \in Percent
    BY <1>1
  <2>2. r \in Nat /\ r <= 12 * m
    BY <1>1, Weighted
  <2>3. s \in Nat /\ s <= 28 * m
    BY <1>1, Weighted
  <2>4. t \in Nat /\ t <= 15 * m
    BY <1>1, Weighted
  <2>5. e \in Nat /\ e <= 20 * m
    BY <1>1, Weighted
  <2>6. ComputeFinalScore(b, early) = r + s + t + e + 25 * m
    BY <1>2 DEF ComputeFinalScore
  <2> HIDE DEF r, s, t, e, m
  <2>7. /\ r + s + t + e + 25 * m \in Score
        /\ r + s + t + e + 25 * m <= 100 * m
    BY <2>1, <2>2, <2>3, <2>4, <2>5, SMTT(30) DEF Percent, Score
  <2> QED
    BY <2>6, <2>7 DEF m
<1>3. CASE ~early
  <2> DEFINE r == 35 * b.resume
             s == 20 * b.skills
             t == 15 * b.targets
             e == 15 * b.experience
             m == b.best
  <2>1. m \in Percent
    BY <1>1
  <2>2. r \in Nat /\ r <= 35 * m
    BY <1>1, Weighted
  <2>3. s \in Nat /\ s <= 20 * m
    BY <1>1, Weighted
  <2>4. t \in Nat /\ t <= 15 * m
    BY <1>1, Weighted
  <2>5. e \in Nat /\ e <= 15 * m
    BY <1>1, Weighted
  <2>6. ComputeFinalScore(b, early) = r + s + t + e + 15 * m
    BY <1>3 DEF ComputeFinalScore
  <2> HIDE DEF r, s, t, e, m
  <2>7. /\ r + s + t + e + 15 * m \in Score
        /\ r + s + t + e + 15 * m <= 100 * m
    BY <2>1, <2>2, <2>3, <2>4, <2>5, SMTT(30) DEF Percent, Score
  <2> QED
    BY <2>6, <2>7 DEF m
<1> QED
  BY <1>2, <1>3

LEMMA PercentType ==
    ASSUME NEW score \in Score
    PROVE  FitScorePercent(score) \in Percent
  BY SMTT(30) DEF FitScorePercent, Score, Percent

\* A score that reaches the floor is shown as 49 per cent or more, and never as
\* more than the best similarity.
LEMMA PercentRange ==
    ASSUME NEW score \in Score, NEW best \in Percent,
           score <= 100 * best, score >= FinalScoreFloor
    PROVE  FitScorePercent(score) \in 49..best
  BY DEF FitScorePercent, FinalScoreFloor, Score, Percent

LEMMA SeniorityFitType ==
    ASSUME NEW target, NEW level
    PROVE  CompareSeniority(target, level) \in {"under", "good", "over"}
  BY DEF CompareSeniority

\* What the adjudicator returns is well formed whatever it was answered.
LEMMA AdjudicationType ==
    ASSUME NEW p, NEW f, NEW score \in Score, FitScorePercent(score) \in Percent,
           NEW answer \in Answer \cup {NoAnswer}, NoAnswer \notin Answer
    PROVE  AdjudicateMatch(p, f, score, answer) \in Adjudication
<1>1. ASSUME NEW adj, adj.fit \in Percent, adj.violations \in SUBSET {"seniority", "other"}
      PROVE  Reconcile(p, f, adj) \in Adjudication
  BY <1>1, SeniorityFitType DEF Reconcile, Adjudication
<1>2. CASE answer = NoAnswer
  <2> DEFINE adj == [fit |-> FitScorePercent(score), violations |-> {}]
  <2>1. AdjudicateMatch(p, f, score, answer) = Reconcile(p, f, adj)
    BY <1>2 DEF AdjudicateMatch
  <2>2. adj.fit \in Percent /\ adj.violations \in SUBSET {"seniority", "other"}
    OBVIOUS
  <2> HIDE DEF adj
  <2> QED
    BY <1>1, <2>1, <2>2
<1>3. CASE answer \in Answer
  <2> DEFINE adj == [answer EXCEPT !.fit = normalizeAdjudicationFitScore(@, score)]
  <2>1. adj.fit \in Percent
    BY <1>3 DEF Answer, normalizeAdjudicationFitScore
  <2>2. adj.violations \in SUBSET {"seniority", "other"}
    BY <1>3 DEF Answer
  <2>3. answer # NoAnswer
    BY <1>3
  <2>4. AdjudicateMatch(p, f, score, answer) = Reconcile(p, f, adj)
    BY <2>3 DEF AdjudicateMatch
  <2> HIDE DEF adj
  <2> QED
    BY <1>1, <2>1, <2>2, <2>4
<1> QED
  BY <1>2, <1>3

\* Preferences built from answers are preferences.
LEMMA PrefsType ==
    ASSUME NEW p \in Questions
    PROVE  BuildUserPreferences(p) \in Prefs
  BY DEF BuildUserPreferences, Questions, Prefs, Mode

LEMMA LoadType == TypeOK => LoadUserPreferences \in Prefs
  BY PrefsType DEF TypeOK, LoadUserPreferences

\* The gate does not look at the settings.
LEMMA GateIgnoresSettings ==
    ASSUME NEW p \in Prefs, NEW mode, NEW stretch, NEW f,
           MatchEligible(p, f)
    PROVE  MatchEligible([p EXCEPT !.mode = mode, !.stretch = stretch], f)
  BY DEF MatchEligible, Prefs

-----------------------------------------------------------------------------
(* Types.                                                                   *)

\* Both requests write preferences.
LEMMA SubmitType ==
    ASSUME TypeOK, NEW p \in Answers, SubmitProfile(p)
    PROVE  prefs' \in Prefs
<1>1. LoadUserPreferences.mode \in Mode /\ LoadUserPreferences.stretch \in BOOLEAN
  BY LoadType DEF Prefs
<1>2. BuildUserPreferences(p) \in Prefs /\ p.early \in BOOLEAN
  BY PrefsType, PolicyAssumption DEF Questions
<1> QED
  BY <1>1, <1>2 DEF SubmitProfile, Prefs

LEMMA PatchType ==
    ASSUME TypeOK, NEW mode, NEW stretch, PatchSettings(mode, stretch)
    PROVE  prefs' \in Prefs
  BY LoadType DEF PatchSettings, Prefs, Mode

LEMMA TailoredType ==
    ASSUME NEW m \in Match
    PROVE  [m EXCEPT !.app = TRUE] \in Match
  BY DEF Match

LEMMA InitType == Init => TypeOK
<1> SUFFICES ASSUME Init PROVE TypeOK
  OBVIOUS
<1>1. profile \in Questions
  BY DEF Init, Blank, Questions
<1>2. Legacy \subseteq Job
  <2>1. \A t \in Posting \cup Label : t \in SUBSET Pattern
    BY PolicyAssumption
  <2>2. ASSUME NEW t \in Posting, NEW l \in Label
        PROVE  [posting |-> t, labels |-> l, facts |-> NoFacts, backfilled |-> FALSE] \in Job
    BY <2>1 DEF Job
  <2> QED
    BY <2>2 DEF Legacy
<1>3. job \in Job \cup {NoJob}
  BY <1>2 DEF Init
<1> QED
  BY <1>1, <1>3 DEF Init, TypeOK

LEMMA NextType == TypeOK /\ [Next]_vars => TypeOK'
<1> SUFFICES ASSUME TypeOK, [Next]_vars PROVE TypeOK'
  OBVIOUS
<1>1. ASSUME NEW p \in Answers, SaveDraft(p) PROVE TypeOK'
  BY <1>1, PolicyAssumption DEF SaveDraft, TypeOK
<1>2. ASSUME NEW p \in Answers, SubmitProfile(p) PROVE TypeOK'
  <2>1. prefs' \in Prefs
    BY <1>2, SubmitType
  <2> QED
    BY <1>2, <2>1, PolicyAssumption DEF SubmitProfile, TypeOK
<1>3. ASSUME NEW mode \in Mode \cup {""}, NEW stretch \in {"on", "off", "absent"},
             PatchSettings(mode, stretch)
      PROVE  TypeOK'
  <2>1. prefs' \in Prefs
    BY <1>3, PatchType
  <2> QED
    BY <1>3, <2>1 DEF PatchSettings, TypeOK
<1>4. ASSUME NEW posting \in Posting, NEW labels \in Label, EmbedAndStoreJob(posting, labels)
      PROVE  TypeOK'
  BY <1>4, FactsType, PolicyAssumption DEF EmbedAndStoreJob, TypeOK, Job
<1>5. ASSUME NEW labels \in Label, ReplaceJobFormFields(labels) PROVE TypeOK'
  BY <1>5, PolicyAssumption DEF ReplaceJobFormFields, TypeOK, Job
<1>6. ASSUME NEW by \in {"forward", "reverse"}, NEW b \in Breakdown,
             NEW answer \in Answer \cup {NoAnswer}, MatchPair(by, b, answer)
      PROVE  TypeOK'
  <2> DEFINE p == LoadUserPreferences
  <2>1. p.early \in BOOLEAN
    BY LoadType DEF Prefs
  <2>2. b.best \in Percent
    BY PolicyAssumption DEF Sims
  <2>3. PICK score \in Score : score = ComputeFinalScore(b, p.early)
    BY <2>1, ScoreRange, PolicyAssumption
  <2>4. PICK adj \in Adjudication : adj = AdjudicateMatch(p, FactsFor(by), score, answer)
    <3>1. FitScorePercent(score) \in Percent
      BY PercentType
    <3>2. AdjudicateMatch(p, FactsFor(by), score, answer) \in Adjudication
      BY <3>1, AdjudicationType, PolicyAssumption
    <3> QED
      BY <3>2
  <2>5. match' = [by |-> by, score |-> score, best |-> b.best, adj |-> adj,
                  objected |-> IF answer = NoAnswer THEN {} ELSE answer.violations,
                  app |-> FALSE]
    BY <1>6, <2>3, <2>4 DEF MatchPair
  <2>6. match'.objected \in SUBSET {"seniority", "other"}
    BY <2>5 DEF Answer
  <2>7. match' \in Match
    BY <2>2, <2>5, <2>6 DEF Match
  <2> QED
    BY <1>6, <2>7 DEF MatchPair, TypeOK
<1>7. ASSUME TailorMatch PROVE TypeOK'
  <2>1. match \in Match
    BY <1>7 DEF TailorMatch, Pending, TypeOK
  <2>2. match' \in Match
    BY <1>7, <2>1, TailoredType DEF TailorMatch
  <2> QED
    BY <1>7, <2>2 DEF TailorMatch, TypeOK
<1>8. CASE UNCHANGED vars
  BY <1>8 DEF vars, TypeOK
<1> QED
  BY <1>1, <1>2, <1>3, <1>4, <1>5, <1>6, <1>7, <1>8 DEF Next

-----------------------------------------------------------------------------
(* The invariants.                                                          *)

LEMMA InitInv == Init => PolicyInv
<1> SUFFICES ASSUME Init PROVE PolicyInv
  OBVIOUS
<1>1. TypeOK
  BY InitType
<1>2. job = NoJob \/ job.facts = NoFacts
  BY DEF Init, Legacy
<1> QED
  BY <1>1, <1>2 DEF Init, PolicyInv, Linked, PendingPassesFilters, MatchedIsTailorable,
                    FitInRange, Pending

\* The links between the rows.
LEMMA NextLinked == TypeOK /\ Linked /\ [Next]_vars => Linked'
<1> SUFFICES ASSUME TypeOK, Linked, [Next]_vars PROVE Linked'
  OBVIOUS
<1> USE DEF Linked
<1>1. ASSUME NEW p \in Answers, SaveDraft(p) PROVE Linked'
  BY <1>1 DEF SaveDraft
<1>2. ASSUME NEW p \in Answers, SubmitProfile(p) PROVE Linked'
  <2>1. prefs' \in Prefs
    BY <1>2, SubmitType
  <2> QED
    BY <1>2, <2>1, PolicyAssumption DEF SubmitProfile
<1>3. ASSUME NEW mode \in Mode \cup {""}, NEW stretch \in {"on", "off", "absent"},
             PatchSettings(mode, stretch)
      PROVE  Linked'
  <2>1. prefs' \in Prefs
    BY <1>3, PatchType
  <2> QED
    BY <1>3, <2>1, PolicyAssumption DEF PatchSettings
<1>4. ASSUME NEW posting \in Posting, NEW labels \in Label, EmbedAndStoreJob(posting, labels)
      PROVE  Linked'
  BY <1>4 DEF EmbedAndStoreJob
<1>5. ASSUME NEW labels \in Label, ReplaceJobFormFields(labels) PROVE Linked'
  BY <1>5, PolicyAssumption DEF ReplaceJobFormFields, TypeOK, Job
<1>6. ASSUME NEW by \in {"forward", "reverse"}, NEW b \in Breakdown,
             NEW answer \in Answer \cup {NoAnswer}, MatchPair(by, b, answer)
      PROVE  Linked'
  BY <1>6 DEF MatchPair
<1>7. ASSUME TailorMatch PROVE Linked'
  BY <1>7 DEF TailorMatch, Pending
<1>8. CASE UNCHANGED vars
  BY <1>8 DEF vars
<1> QED
  BY <1>1, <1>2, <1>3, <1>4, <1>5, <1>6, <1>7, <1>8 DEF Next

LEMMA TierType ==
    ASSUME NEW score, NEW adj
    PROVE  ClassifyMatchTier(score, adj) \in {"strong", "promising"}
  BY DEF ClassifyMatchTier

\* A pending match's preferences are the stored ones.
LEMMA PendingPrefs == Linked /\ Pending => LoadUserPreferences = prefs /\ prefs # NoPrefs
  BY DEF Linked, Pending, LoadUserPreferences

\* The two purges together take what the two filters refuse.
LEMMA PurgeTakesRefused ==
    ASSUME TypeOK, NEW mode, NEW stretch, PatchSettings(mode, stretch)
    PROVE  match' = IF Pending /\ ~Kept(match) THEN NoMatch ELSE match
<1>1. prefs'.mode \in Mode
  BY PatchType DEF Prefs
<1>2. ClassifyMatchTier(match.score, match.adj) \in {"strong", "promising"}
  BY TierType
<1> QED
  BY <1>1, <1>2 DEF PatchSettings, Kept, Mode, MatchPassesStretchFilter,
       MatchPassesTierFilter, DeletePendingPromisingMatches, DeletePendingStretchMatches

LEMMA NextPending ==
    TypeOK /\ Linked /\ PendingPassesFilters /\ [Next]_vars => PendingPassesFilters'
<1> SUFFICES ASSUME TypeOK, Linked, PendingPassesFilters, [Next]_vars
             PROVE  PendingPassesFilters'
  OBVIOUS
<1>0. Linked'
  BY NextLinked
<1> SUFFICES ASSUME Pending'
             PROVE  /\ MatchPassesStretchFilter(prefs', match'.adj)
                    /\ MatchPassesTierFilter(prefs', match'.score, match'.adj)
  <2>1. Pending' => LoadUserPreferences' = prefs'
    BY <1>0 DEF Linked, Pending, LoadUserPreferences
  <2> QED
    BY <2>1 DEF PendingPassesFilters, MatchPassesStretchFilter, MatchPassesTierFilter
<1>1. ASSUME match' = match, prefs' = prefs
      PROVE  /\ MatchPassesStretchFilter(prefs', match'.adj)
             /\ MatchPassesTierFilter(prefs', match'.score, match'.adj)
  <2>1. Pending
    BY <1>1 DEF Pending
  <2> QED
    BY <1>1, <2>1, PendingPrefs DEF PendingPassesFilters
<1>2. ASSUME NEW p \in Answers, SaveDraft(p) PROVE match' = match /\ prefs' = prefs
  BY <1>2 DEF SaveDraft
<1>3. ASSUME NEW p \in Answers, SubmitProfile(p) PROVE FALSE
  BY <1>3 DEF SubmitProfile, Pending
<1>4. ASSUME NEW mode \in Mode \cup {""}, NEW stretch \in {"on", "off", "absent"},
             PatchSettings(mode, stretch)
      PROVE  /\ MatchPassesStretchFilter(prefs', match'.adj)
             /\ MatchPassesTierFilter(prefs', match'.score, match'.adj)
  <2>1. match' = IF Pending /\ ~Kept(match) THEN NoMatch ELSE match
    BY <1>4, PurgeTakesRefused
  <2>2. match' = match /\ Kept(match)
    BY <2>1 DEF Pending
  <2> QED
    BY <2>2 DEF Kept
<1>5. ASSUME NEW posting \in Posting, NEW labels \in Label, EmbedAndStoreJob(posting, labels)
      PROVE  match' = match /\ prefs' = prefs
  BY <1>5 DEF EmbedAndStoreJob
<1>6. ASSUME NEW labels \in Label, ReplaceJobFormFields(labels)
      PROVE  match' = match /\ prefs' = prefs
  BY <1>6 DEF ReplaceJobFormFields
<1>7. ASSUME NEW by \in {"forward", "reverse"}, NEW b \in Breakdown,
             NEW answer \in Answer \cup {NoAnswer}, MatchPair(by, b, answer)
      PROVE  /\ MatchPassesStretchFilter(prefs', match'.adj)
             /\ MatchPassesTierFilter(prefs', match'.score, match'.adj)
  <2>1. prefs' = prefs /\ LoadUserPreferences = prefs
    BY <1>7 DEF MatchPair, Linked, LoadUserPreferences
  <2> QED
    BY <1>7, <2>1 DEF MatchPair
<1>8. ASSUME TailorMatch PROVE FALSE
  <2>1. match \in Match
    BY <1>8 DEF TailorMatch, Pending, TypeOK
  <2> QED
    BY <1>8, <2>1 DEF TailorMatch, Pending, Match
<1>9. ASSUME UNCHANGED vars PROVE match' = match /\ prefs' = prefs
  BY <1>9 DEF vars
<1> QED
  BY <1>1, <1>2, <1>3, <1>4, <1>5, <1>6, <1>7, <1>8, <1>9 DEF Next

\* Facts stored from the text that is still there are what the tailorer gets.
LEMMA ResolveSame ==
    ASSUME TypeOK, Linked, job # NoJob, ~job.backfilled,
           NEW by \in {"forward", "reverse"}, by = "reverse" => job.facts # NoFacts
    PROVE  resolveJobFacts(job) = FactsFor(by)
<1>1. CASE job.facts = NoFacts
  BY <1>1 DEF resolveJobFacts, FactsFor, jobFactsFromRow
<1>2. CASE job.facts # NoFacts
  <2>1. job.facts \in Facts /\ job.facts = ExtractJobFacts(job.posting, job.labels)
    BY <1>2 DEF TypeOK, Job, Linked
  <2>2. resolveJobFacts(job) = job.facts
    BY <2>1, ResolveStored, PolicyAssumption
  <2> QED
    BY <1>2, <2>2 DEF FactsFor, jobFactsFromRow, JobRowToFacts
<1> QED
  BY <1>1, <1>2

LEMMA NextTailorable ==
    TypeOK /\ Linked /\ MatchedIsTailorable /\ [Next]_vars => MatchedIsTailorable'
<1> SUFFICES ASSUME TypeOK, Linked, MatchedIsTailorable, [Next]_vars, Pending',
                    ~job'.backfilled, match'.by = "reverse" => job'.facts # NoFacts
             PROVE  MatchEligible(LoadUserPreferences, resolveJobFacts(job))'
  BY DEF MatchedIsTailorable
<1>1. ASSUME match' = match, prefs' = prefs, job' = job
      PROVE  MatchEligible(LoadUserPreferences, resolveJobFacts(job))'
  <2>1. Pending /\ ~job.backfilled /\ (match.by = "reverse" => job.facts # NoFacts)
    BY <1>1 DEF Pending
  <2>2. MatchEligible(prefs, resolveJobFacts(job))
    BY <2>1, PendingPrefs DEF MatchedIsTailorable
  <2>3. LoadUserPreferences' = prefs /\ resolveJobFacts(job)' = resolveJobFacts(job)
    BY <1>1, <2>1, PendingPrefs DEF LoadUserPreferences, resolveJobFacts
  <2> QED
    BY <2>2, <2>3 DEF MatchEligible
<1>2. ASSUME NEW p \in Answers, SaveDraft(p)
      PROVE  match' = match /\ prefs' = prefs /\ job' = job
  BY <1>2 DEF SaveDraft
<1>3. ASSUME NEW p \in Answers, SubmitProfile(p) PROVE FALSE
  BY <1>3 DEF SubmitProfile, Pending
<1>4. ASSUME NEW mode \in Mode \cup {""}, NEW stretch \in {"on", "off", "absent"},
             PatchSettings(mode, stretch)
      PROVE  MatchEligible(LoadUserPreferences, resolveJobFacts(job))'
  <2>1. match' = match /\ job' = job /\ Pending
    BY <1>4 DEF PatchSettings, Pending
  <2>2. MatchEligible(prefs, resolveJobFacts(job)) /\ prefs \in Prefs
    BY <2>1, PendingPrefs DEF MatchedIsTailorable, TypeOK
  <2>3. PICK m, t : prefs' = [prefs EXCEPT !.mode = m, !.stretch = t]
    BY <1>4, <2>1, PendingPrefs DEF PatchSettings
  <2>4. MatchEligible(prefs', resolveJobFacts(job))
    BY <2>2, <2>3, GateIgnoresSettings
  <2>5. LoadUserPreferences' = prefs' /\ resolveJobFacts(job)' = resolveJobFacts(job)
    <3>1. prefs' # NoPrefs
      BY <1>4, PatchType, PolicyAssumption
    <3> QED
      BY <2>1, <3>1 DEF LoadUserPreferences, resolveJobFacts
  <2> QED
    BY <2>4, <2>5 DEF MatchEligible
<1>5. ASSUME NEW posting \in Posting, NEW labels \in Label, EmbedAndStoreJob(posting, labels)
      PROVE  FALSE
  BY <1>5 DEF EmbedAndStoreJob, Linked, Pending
<1>6. ASSUME NEW labels \in Label, ReplaceJobFormFields(labels) PROVE FALSE
  BY <1>6 DEF ReplaceJobFormFields, TypeOK, Job
<1>7. ASSUME NEW by \in {"forward", "reverse"}, NEW b \in Breakdown,
             NEW answer \in Answer \cup {NoAnswer}, MatchPair(by, b, answer)
      PROVE  MatchEligible(LoadUserPreferences, resolveJobFacts(job))'
  <2>1. prefs' = prefs /\ profile' = profile /\ job' = job /\ job # NoJob /\ match'.by = by
    BY <1>7 DEF MatchPair
  <2>2. MatchEligible(LoadUserPreferences, FactsFor(by))
    BY <1>7 DEF MatchPair
  <2>3. resolveJobFacts(job) = FactsFor(by)
    BY <2>1, ResolveSame
  <2>4. LoadUserPreferences' = LoadUserPreferences
        /\ resolveJobFacts(job)' = resolveJobFacts(job)
    BY <2>1 DEF LoadUserPreferences, resolveJobFacts
  <2> QED
    BY <2>2, <2>3, <2>4 DEF MatchEligible
<1>8. ASSUME TailorMatch PROVE FALSE
  <2>1. match \in Match
    BY <1>8 DEF TailorMatch, Pending, TypeOK
  <2> QED
    BY <1>8, <2>1 DEF TailorMatch, Pending, Match
<1>9. ASSUME UNCHANGED vars PROVE match' = match /\ prefs' = prefs /\ job' = job
  BY <1>9 DEF vars
<1> QED
  BY <1>1, <1>2, <1>3, <1>4, <1>5, <1>6, <1>7, <1>8, <1>9 DEF Next

LEMMA NextFit == TypeOK /\ FitInRange /\ [Next]_vars => FitInRange'
<1> SUFFICES ASSUME TypeOK, FitInRange, [Next]_vars, match' # NoMatch
             PROVE  /\ FitScorePercent(match'.score) \in 49..match'.best
                    /\ match'.adj.fit \in Percent
  BY DEF FitInRange
<1>1. ASSUME match' = match
      PROVE  /\ FitScorePercent(match'.score) \in 49..match'.best
             /\ match'.adj.fit \in Percent
  BY <1>1 DEF FitInRange
<1>2. ASSUME NEW p \in Answers, SaveDraft(p) PROVE match' = match
  BY <1>2 DEF SaveDraft
<1>3. ASSUME NEW p \in Answers, SubmitProfile(p) PROVE match' = match
  BY <1>3 DEF SubmitProfile
<1>4. ASSUME NEW mode \in Mode \cup {""}, NEW stretch \in {"on", "off", "absent"},
             PatchSettings(mode, stretch)
      PROVE  match' = match
  BY <1>4 DEF PatchSettings
<1>5. ASSUME NEW posting \in Posting, NEW labels \in Label, EmbedAndStoreJob(posting, labels)
      PROVE  match' = match
  BY <1>5 DEF EmbedAndStoreJob
<1>6. ASSUME NEW labels \in Label, ReplaceJobFormFields(labels) PROVE match' = match
  BY <1>6 DEF ReplaceJobFormFields
<1>7. ASSUME NEW by \in {"forward", "reverse"}, NEW b \in Breakdown,
             NEW answer \in Answer \cup {NoAnswer}, MatchPair(by, b, answer)
      PROVE  /\ FitScorePercent(match'.score) \in 49..match'.best
             /\ match'.adj.fit \in Percent
  <2> DEFINE p == LoadUserPreferences
  <2>1. p.early \in BOOLEAN
    BY LoadType DEF Prefs
  <2>2. b.best \in Percent
    BY PolicyAssumption DEF Sims
  <2>3. PICK score \in Score : score = ComputeFinalScore(b, p.early) /\ score <= 100 * b.best
    BY <2>1, ScoreRange, PolicyAssumption
  <2>4. score >= FinalScoreFloor /\ match'.score = score /\ match'.best = b.best
    BY <1>7, <2>3 DEF MatchPair
  <2>5. FitScorePercent(score) \in 49..b.best
    BY <2>2, <2>3, <2>4, PercentRange
  <2>6. match' \in Match
    BY <1>7, NextType DEF TypeOK
  <2> QED
    BY <2>4, <2>5, <2>6 DEF Match, Adjudication
<1>8. ASSUME TailorMatch
      PROVE  /\ FitScorePercent(match'.score) \in 49..match'.best
             /\ match'.adj.fit \in Percent
  <2>1. match \in Match /\ match # NoMatch
    BY <1>8 DEF TailorMatch, Pending, TypeOK
  <2>2. /\ match'.score = match.score /\ match'.best = match.best
        /\ match'.adj = match.adj
    BY <1>8, <2>1 DEF TailorMatch, Match
  <2> QED
    BY <2>1, <2>2 DEF FitInRange
<1>9. ASSUME UNCHANGED vars PROVE match' = match
  BY <1>9 DEF vars
<1> QED
  BY <1>1, <1>2, <1>3, <1>4, <1>5, <1>6, <1>7, <1>8, <1>9 DEF Next

LEMMA PolicyInductive == Spec => []PolicyInv
<1>1. PolicyInv /\ [Next]_vars => PolicyInv'
  BY NextType, NextLinked, NextPending, NextTailorable, NextFit DEF PolicyInv
<1> QED
  BY <1>1, InitInv, PTL DEF Spec

-----------------------------------------------------------------------------
(* The theorems.                                                            *)

\* Every variable stays within its type.
THEOREM TypeCorrect == Spec => []TypeOK
<1>1. Init => TypeOK
  BY InitType
<1>2. TypeOK /\ [Next]_vars => TypeOK'
  BY NextType
<1> QED
  BY <1>1, <1>2, PTL DEF Spec

\* A pending match always passes the filters of the user's settings.
THEOREM PendingAllowed == Spec => []PendingPassesFilters
<1>1. PolicyInv => PendingPassesFilters
  BY DEF PolicyInv
<1> QED
  BY <1>1, PolicyInductive, PTL

\* The tailorer's gate does not refuse what the matchers' let through.
THEOREM Tailorable == Spec => []MatchedIsTailorable
<1>1. PolicyInv => MatchedIsTailorable
  BY DEF PolicyInv
<1> QED
  BY <1>1, PolicyInductive, PTL

\* Both percentages of a match are percentages, and the shown one is neither
\* below the floor nor above the best similarity.
THEOREM FitBounded == Spec => []FitInRange
<1>1. PolicyInv => FitInRange
  BY DEF PolicyInv
<1> QED
  BY <1>1, PolicyInductive, PTL

\* The purges of PATCH /api/settings delete exactly what the filters refuse.
THEOREM PurgesExact == Spec => PurgeIsExact
<1>1. TypeOK /\ [Next]_vars =>
        [\A mode \in Mode \cup {""}, stretch \in {"on", "off", "absent"} :
            PatchSettings(mode, stretch) =>
                match' = IF Pending /\ ~Kept(match) THEN NoMatch ELSE match]_vars
  BY PurgeTakesRefused
<1> QED
  BY <1>1, TypeCorrect, PTL DEF Spec, PurgeIsExact

-----------------------------------------------------------------------------
(* The objections.                                                          *)

\* An accepted adjudication has no violation left, so the model had no other and
\* the levels compare.
LEMMA AcceptedObjections ==
    ASSUME NEW p, NEW f, NEW score, NEW answer \in Answer \cup {NoAnswer},
           NoAnswer \notin Answer, AdjudicationAccepted(AdjudicateMatch(p, f, score, answer))
    PROVE  /\ answer # NoAnswer => "other" \notin answer.violations
           /\ AdjudicateMatch(p, f, score, answer).seniority # "under"
<1>1. ASSUME NEW adj, AdjudicationAccepted(Reconcile(p, f, adj))
      PROVE  "other" \notin adj.violations /\ Reconcile(p, f, adj).seniority # "under"
  BY <1>1 DEF AdjudicationAccepted, Reconcile
<1>2. CASE answer = NoAnswer
  BY <1>1, <1>2 DEF AdjudicateMatch
<1>3. CASE answer \in Answer
  <2> DEFINE adj == [answer EXCEPT !.fit = normalizeAdjudicationFitScore(@, score)]
  <2>1. AdjudicateMatch(p, f, score, answer) = Reconcile(p, f, adj)
    BY <1>3 DEF AdjudicateMatch
  <2>2. adj.violations = answer.violations
    BY <1>3 DEF Answer
  <2> HIDE DEF adj
  <2> QED
    BY <1>1, <2>1, <2>2
<1> QED
  BY <1>2, <1>3

LEMMA NextObjection == TypeOK /\ ObjectionStands /\ [Next]_vars => ObjectionStands'
<1> SUFFICES ASSUME TypeOK, ObjectionStands, [Next]_vars PROVE ObjectionStands'
  OBVIOUS
<1>1. ASSUME match' \in {match, NoMatch} PROVE ObjectionStands'
  BY <1>1 DEF ObjectionStands
<1>2. ASSUME NEW p \in Answers, SaveDraft(p) \/ SubmitProfile(p) PROVE match' \in {match, NoMatch}
  BY <1>2 DEF SaveDraft, SubmitProfile
<1>3. ASSUME NEW mode, NEW stretch, PatchSettings(mode, stretch)
      PROVE  match' \in {match, NoMatch}
  BY <1>3 DEF PatchSettings
<1>4. ASSUME NEW posting, NEW labels,
             EmbedAndStoreJob(posting, labels) \/ ReplaceJobFormFields(labels)
      PROVE  match' \in {match, NoMatch}
  BY <1>4 DEF EmbedAndStoreJob, ReplaceJobFormFields
<1>5. ASSUME NEW by \in {"forward", "reverse"}, NEW b \in Breakdown,
             NEW answer \in Answer \cup {NoAnswer}, MatchPair(by, b, answer)
      PROVE  ObjectionStands'
  <2> DEFINE adj == AdjudicateMatch(LoadUserPreferences, FactsFor(by),
                        ComputeFinalScore(b, LoadUserPreferences.early), answer)
  <2>1. /\ AdjudicationAccepted(adj)
        /\ match'.adj = adj
        /\ match'.objected = IF answer = NoAnswer THEN {} ELSE answer.violations
    BY <1>5 DEF MatchPair
  <2>2. /\ answer # NoAnswer => "other" \notin answer.violations
        /\ adj.seniority # "under"
    BY <2>1, AcceptedObjections, PolicyAssumption
  <2> HIDE DEF adj
  <2> QED
    BY <2>1, <2>2 DEF ObjectionStands
<1>6. ASSUME TailorMatch PROVE ObjectionStands'
  <2>1. match \in Match /\ match # NoMatch
    BY <1>6 DEF TailorMatch, Pending, TypeOK
  <2>2. match'.objected = match.objected /\ match'.adj = match.adj
    BY <1>6, <2>1 DEF TailorMatch, Match
  <2> QED
    BY <2>1, <2>2 DEF ObjectionStands
<1>7. CASE UNCHANGED vars
  BY <1>1, <1>7 DEF vars
<1> QED
  BY <1>1, <1>2, <1>3, <1>4, <1>5, <1>6, <1>7 DEF Next

\* What the model objects to makes no match, whatever it answered.
THEOREM ObjectionsStand == Spec => []ObjectionStands
<1>1. Init => ObjectionStands
  BY DEF Init, ObjectionStands
<1> QED
  BY <1>1, NextObjection, TypeCorrect, PTL DEF Spec
=============================================================================
