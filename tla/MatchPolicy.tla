---------------------------- MODULE MatchPolicy ----------------------------
(***************************************************************************)
(* What decides that a job is a match: the facts read off a posting, the   *)
(* hard preference gate, the score, the adjudicator's answer and the       *)
(* filters of the user's settings, for one user and one job.  Matching has *)
(* the interleavings and takes the verdict as a choice; here every step is *)
(* atomic and the verdict is computed.                                     *)
(*                                                                         *)
(* A text is the set of the patterns it contains.  Similarities are in     *)
(* hundredths and the weighted score in ten thousandths.                   *)
(***************************************************************************)
EXTENDS Integers

CONSTANTS
    Answers,     \* profiles: what a user may answer to the questions the gate reads
    Posting,     \* texts of a posting: title, company, location, description
    Label,       \* texts of an application form's labels
    Breakdown,   \* similarities of a profile's sections to a job's
    RawFit,      \* fit scores the language model may answer with
    NoPrefs, NoJob, NoFacts, NoMatch, NoAnswer

VARIABLES
    profile,     \* user_profiles.profile
    prefs,       \* user_profiles.preferences_json
    embedded,    \* the user has profile_embedding_chunks
    job,         \* the discovered_jobs row and its form labels
    match        \* the job_matches row, and whether an application hangs off it

vars == <<profile, prefs, embedded, job, match>>

-----------------------------------------------------------------------------
(* Facts of a job.                                                          *)

Levels == <<"intern", "junior", "mid", "senior", "staff", "principal", "lead",
            "manager", "director">>
Rank == [intern |-> 0, junior |-> 1, mid |-> 2, senior |-> 3, staff |-> 4,
         principal |-> 5, lead |-> 4, manager |-> 4, director |-> 6]
Level == DOMAIN Rank
Industry == {"defense", "gambling", "crypto", "ads"}
Pattern == Level \cup Industry \cup
           {"remote", "hybrid", "onsite", "contract", "noSponsor", "sponsor", "oncall",
            "defenseInName"}

Facts == [remote : {"remote", "hybrid", "onsite", "unknown"},
          employment : {"contract", "full_time"},
          level : Level \cup {"unknown"},
          sponsor : {"yes", "no", "unknown"},
          tags : SUBSET Industry, oncall : BOOLEAN, defenseInName : BOOLEAN]

detectRemotePolicy(text) ==
    IF "hybrid" \in text THEN "hybrid"
    ELSE IF "remote" \in text THEN "remote"
    ELSE IF "onsite" \in text THEN "onsite" ELSE "unknown"

\* The first pattern of the list that the title or the text contains.
detectSeniorityLevel(text) ==
    LET hits == {i \in 1..9 : Levels[i] \in text}
    IN  IF hits = {} THEN "unknown"
        ELSE Levels[CHOOSE i \in hits : \A k \in hits : i <= k]

ExtractJobFacts(posting, labels) ==
    LET text == posting \cup labels
    IN  [remote |-> detectRemotePolicy(text),
         employment |-> IF "contract" \in text THEN "contract" ELSE "full_time",
         level |-> detectSeniorityLevel(text),
         sponsor |-> IF "noSponsor" \in text THEN "no"
                     ELSE IF "sponsor" \in text THEN "yes" ELSE "unknown",
         tags |-> text \cap Industry, oncall |-> "oncall" \in text,
         defenseInName |-> "defenseInName" \in posting]

\* A job stored before the facts columns existed has none.  The three readers
\* of a job's facts then differ: the reverse matcher leaves the labels out ...
JobRowToFacts(j) ==
    IF j.facts # NoFacts THEN j.facts ELSE ExtractJobFacts(j.posting, {})

\* ... the forward matcher does not ...
jobFactsFromRow(j) ==
    IF j.facts # NoFacts THEN j.facts ELSE ExtractJobFacts(j.posting, j.labels)

\* ... and the tailorer extracts anew and lets stored facts that say something
\* take precedence.
resolveJobFacts(j) ==
    LET extracted == ExtractJobFacts(j.posting, j.labels)
    IN  IF j.facts = NoFacts THEN extracted
        ELSE [j.facts EXCEPT
                !.tags = IF @ = {} THEN extracted.tags ELSE @,
                !.sponsor = IF @ = "unknown" THEN extracted.sponsor ELSE @]

-----------------------------------------------------------------------------
(* Preferences and the gate.                                                *)

Mode == {"strong_only", "strong_and_promising"}
Dealbreaker == {"db_no_defense", "db_no_gambling", "db_no_crypto", "db_no_oncall",
                "db_no_ads"}
Questions == [arrangement : {"", "flexible", "remote", "hybrid", "onsite"},
              needsVisa : BOOLEAN, visaStatus : {"", "need_sponsorship"},
              contract : BOOLEAN, target : Level \cup {""},
              dealbreakers : SUBSET Dealbreaker, early : BOOLEAN]
Prefs == [arrangement : {"", "flexible", "remote", "hybrid", "onsite"},
          visa : BOOLEAN, contract : BOOLEAN, target : Level \cup {""},
          dealbreakers : SUBSET Dealbreaker, early : BOOLEAN,
          mode : Mode, stretch : BOOLEAN]

\* The row of a user who has saved nothing.
Blank == [arrangement |-> "", needsVisa |-> FALSE, visaStatus |-> "",
          contract |-> FALSE, target |-> "", dealbreakers |-> {}, early |-> FALSE]

BuildUserPreferences(p) ==
    [arrangement |-> p.arrangement,
     visa |-> p.needsVisa \/ p.visaStatus = "need_sponsorship",
     contract |-> p.contract, target |-> p.target, dealbreakers |-> p.dealbreakers,
     early |-> FALSE, mode |-> "strong_and_promising", stretch |-> FALSE]

LoadUserPreferences == IF prefs # NoPrefs THEN prefs ELSE BuildUserPreferences(profile)

CompareSeniority(target, level) ==
    IF target \notin Level \/ level \notin Level THEN "good"
    ELSE IF Rank[level] < Rank[target] THEN "under"
    ELSE IF Rank[level] = Rank[target] THEN "good" ELSE "over"

Breaks(slug, f) ==
    \/ slug = "db_no_defense" /\ ("defense" \in f.tags \/ f.defenseInName)
    \/ slug = "db_no_gambling" /\ "gambling" \in f.tags
    \/ slug = "db_no_crypto" /\ "crypto" \in f.tags
    \/ slug = "db_no_oncall" /\ f.oncall
    \/ slug = "db_no_ads" /\ "ads" \in f.tags

MatchEligible(p, f) ==
    /\ ~(p.arrangement \in {"remote", "hybrid"} /\ f.remote = "onsite")
    /\ ~(p.visa /\ f.sponsor = "no")
    /\ ~(~p.contract /\ f.employment = "contract")
    /\ CompareSeniority(p.target, f.level) # "under"
    /\ \A slug \in p.dealbreakers : ~Breaks(slug, f)

-----------------------------------------------------------------------------
(* Score, adjudication and filters.                                         *)

FinalScoreFloor == 4900
MinMatchedChunks == 2
StrongMatchMinFitScore == 75

Percent == 0..100
Score == 0..10000

Sims == [resume : Percent, skills : Percent, targets : Percent, experience : Percent,
         best : Percent, matched : Nat]

\* Mutant: the early weights add up to more than one.
HeavyFinalScore(b, early) ==
    IF early
    THEN 35 * b.resume + 28 * b.skills + 15 * b.targets + 20 * b.experience + 25 * b.best
    ELSE 35 * b.resume + 20 * b.skills + 15 * b.targets + 15 * b.experience + 15 * b.best

ComputeFinalScore(b, early) ==
    IF early
    THEN 12 * b.resume + 28 * b.skills + 15 * b.targets + 20 * b.experience + 25 * b.best
    ELSE 35 * b.resume + 20 * b.skills + 15 * b.targets + 15 * b.experience + 15 * b.best

FitScorePercent(score) == (score + 50) \div 100

\* NoAnswer: adjudication is off, the call failed or its reply did not parse.
Answer == [recommend : BOOLEAN, fit : RawFit, violations : SUBSET {"seniority", "other"}]

normalizeAdjudicationFitScore(raw, score) ==
    IF \/ raw <= 1 /\ FitScorePercent(score) > 5
       \/ raw \notin Percent
    THEN FitScorePercent(score) ELSE raw

\* Mutant: the seniority verdict replaces the violations.
ReconcileAlone(p, f, adj) ==
    LET fit == CompareSeniority(p.target, f.level)
        left == IF fit = "under" THEN {"seniority"} ELSE {}
    IN  [recommend |-> left = {}, fit |-> adj.fit, violations |-> left, seniority |-> fit]

\* ReconcileAdjudicationSeniority: the seniority verdict is the code's own, and
\* what is left of the violations decides.
Reconcile(p, f, adj) ==
    LET fit == CompareSeniority(p.target, f.level)
        left == IF fit = "under" THEN adj.violations \cup {"seniority"}
                ELSE adj.violations \ {"seniority"}
    IN  [recommend |-> left = {}, fit |-> adj.fit, violations |-> left, seniority |-> fit]

AdjudicateMatch(p, f, score, answer) ==
    IF answer = NoAnswer
    THEN Reconcile(p, f, [fit |-> FitScorePercent(score), violations |-> {}])
    ELSE Reconcile(p, f, [answer EXCEPT !.fit = normalizeAdjudicationFitScore(@, score)])

AdjudicationAccepted(adj) == adj.recommend /\ adj.violations = {}

ClassifyMatchTier(score, adj) ==
    IF adj.recommend /\ adj.seniority = "good"
         /\ FitScorePercent(score) >= StrongMatchMinFitScore
    THEN "strong" ELSE "promising"

MatchPassesStretchFilter(p, adj) == adj.seniority = "over" => p.stretch
MatchPassesTierFilter(p, score, adj) ==
    p.mode = "strong_only" => ClassifyMatchTier(score, adj) = "strong"

-----------------------------------------------------------------------------
(* State.                                                                   *)

Job == [posting : SUBSET Pattern, labels : SUBSET Pattern, facts : Facts \cup {NoFacts},
        backfilled : BOOLEAN]
Adjudication == [recommend : BOOLEAN, fit : Percent,
                 violations : SUBSET {"seniority", "other"},
                 seniority : {"under", "good", "over"}]
Match == [by : {"forward", "reverse"}, score : Score, best : Percent,
          adj : Adjudication, objected : SUBSET {"seniority", "other"}, app : BOOLEAN]

\* The best similarity is at least every section's average.
ASSUME PolicyAssumption ==
    /\ Answers \subseteq Questions
    /\ \A t \in Posting \cup Label : t \subseteq Pattern
    /\ \A b \in Breakdown :
           /\ b \in Sims
           /\ b.resume <= b.best /\ b.skills <= b.best
           /\ b.targets <= b.best /\ b.experience <= b.best
    /\ RawFit \subseteq Int
    /\ NoPrefs \notin Prefs /\ NoJob \notin Job /\ NoFacts \notin Facts
    /\ NoMatch \notin Match /\ NoAnswer \notin Answer

TypeOK ==
    /\ profile \in Questions
    /\ prefs \in Prefs \cup {NoPrefs}
    /\ embedded \in BOOLEAN
    /\ job \in Job \cup {NoJob}
    /\ match \in Match \cup {NoMatch}

\* Migration 15 gave jobs that were already there no facts.
Legacy == {[posting |-> t, labels |-> l, facts |-> NoFacts, backfilled |-> FALSE] :
              t \in Posting, l \in Label}

Init ==
    /\ profile = Blank /\ prefs = NoPrefs /\ embedded = FALSE
    /\ job \in Legacy \cup {NoJob}
    /\ match = NoMatch

-----------------------------------------------------------------------------
(* Actions.                                                                 *)

Pending == match # NoMatch /\ ~match.app
Kept(m) == MatchPassesStretchFilter(prefs', m.adj) /\ MatchPassesTierFilter(prefs', m.score, m.adj)

\* PUT /api/profile.
SaveDraft(p) ==
    /\ profile' = p
    /\ UNCHANGED <<prefs, embedded, job, match>>

\* POST /api/profile: new preferences with the old settings, and the pending
\* matches go.  The embed worker's part is that the user has chunks.
SubmitProfile(p) ==
    /\ profile' = p
    /\ prefs' = [BuildUserPreferences(p) EXCEPT
                    !.early = p.early,
                    !.mode = LoadUserPreferences.mode,
                    !.stretch = LoadUserPreferences.stretch]
    /\ match' = IF Pending THEN NoMatch ELSE match
    /\ embedded' = TRUE
    /\ UNCHANGED job

\* Mutant: the purge goes by the score alone.
DeletePendingLowMatches == Pending /\ FitScorePercent(match.score) < StrongMatchMinFitScore
DeletePendingPromisingMatches == Pending /\ ClassifyMatchTier(match.score, match.adj) = "promising"
\* Mutant: the purge takes tailored matches along.
DeleteStretchMatches == match # NoMatch /\ match.adj.seniority = "over"
DeletePendingStretchMatches == Pending /\ match.adj.seniority = "over"

\* PATCH /api/settings.  A body without a mode resets it; one without the
\* stretch flag leaves that as it is.
PatchSettings(mode, stretch) ==
    /\ prefs' = [LoadUserPreferences EXCEPT
                    !.mode = IF mode = "strong_only" THEN mode ELSE "strong_and_promising",
                    !.stretch = IF stretch = "absent" THEN @ ELSE stretch = "on"]
    /\ match' = IF \/ prefs'.mode = "strong_only" /\ DeletePendingPromisingMatches
                   \/ ~prefs'.stretch /\ DeletePendingStretchMatches
                THEN NoMatch ELSE match
    /\ UNCHANGED <<profile, embedded, job>>

\* Mutant: the facts are read off the posting alone.
StoreWithoutLabels(posting, labels) ==
    /\ job = NoJob
    /\ job' = [posting |-> posting, labels |-> labels,
               facts |-> ExtractJobFacts(posting, {}), backfilled |-> FALSE]
    /\ UNCHANGED <<profile, prefs, embedded, match>>

\* cmd/discover stores a posting with the facts read off it.
EmbedAndStoreJob(posting, labels) ==
    /\ job = NoJob
    /\ job' = [posting |-> posting, labels |-> labels,
               facts |-> ExtractJobFacts(posting, labels), backfilled |-> FALSE]
    /\ UNCHANGED <<profile, prefs, embedded, match>>

\* cmd/backfill-form-fields replaces the form's labels and keeps the facts.
ReplaceJobFormFields(labels) ==
    /\ job # NoJob
    /\ job' = [job EXCEPT !.labels = labels, !.backfilled = TRUE]
    /\ UNCHANGED <<profile, prefs, embedded, match>>

FactsFor(by) == IF by = "forward" THEN jobFactsFromRow(job) ELSE JobRowToFacts(job)

\* A matcher judges the pair and inserts the row unless there is one.
MatchPair(by, b, answer) ==
    LET p == LoadUserPreferences
        f == FactsFor(by)
        score == ComputeFinalScore(b, p.early)
        adj == AdjudicateMatch(p, f, score, answer)
    IN  /\ embedded /\ job # NoJob /\ match = NoMatch
        /\ MatchEligible(p, f)
        /\ score >= FinalScoreFloor /\ b.matched >= MinMatchedChunks
        /\ AdjudicationAccepted(adj)
        /\ MatchPassesStretchFilter(p, adj)
        /\ MatchPassesTierFilter(p, score, adj)
        /\ match' = [by |-> by, score |-> score, best |-> b.best, adj |-> adj,
                     objected |-> IF answer = NoAnswer THEN {} ELSE answer.violations,
                     app |-> FALSE]
        /\ UNCHANGED <<profile, prefs, embedded, job>>

\* The tailorer asks the gate again; a refusal is an error and stores nothing.
TailorMatch ==
    /\ Pending
    /\ MatchEligible(LoadUserPreferences, resolveJobFacts(job))
    /\ match' = [match EXCEPT !.app = TRUE]
    /\ UNCHANGED <<profile, prefs, embedded, job>>

Next ==
    \/ \E p \in Answers : SaveDraft(p) \/ SubmitProfile(p)
    \/ \E mode \in Mode \cup {""}, stretch \in {"on", "off", "absent"} :
          PatchSettings(mode, stretch)
    \/ \E posting \in Posting, labels \in Label : EmbedAndStoreJob(posting, labels)
    \/ \E labels \in Label : ReplaceJobFormFields(labels)
    \/ \E by \in {"forward", "reverse"}, b \in Breakdown, answer \in Answer \cup {NoAnswer} :
          MatchPair(by, b, answer)
    \/ TailorMatch

Spec == Init /\ [][Next]_vars

-----------------------------------------------------------------------------
(* Properties.                                                              *)

\* A match that is still pending passes the filters under the settings of the
\* moment: what MatchPassesTierFilter and MatchPassesStretchFilter let in, the
\* two purges of PATCH /api/settings let stay, and a submit keeps the settings.
PendingPassesFilters ==
    Pending =>
        /\ MatchPassesStretchFilter(LoadUserPreferences, match.adj)
        /\ MatchPassesTierFilter(LoadUserPreferences, match.score, match.adj)

\* A change of settings deletes the match if it is pending and the filters would
\* now refuse it, and in no other case (ClassifyMatchTier behind filter and purge).
PurgeIsExact ==
    [][\A mode \in Mode \cup {""}, stretch \in {"on", "off", "absent"} :
          PatchSettings(mode, stretch) =>
              match' = IF Pending /\ ~Kept(match) THEN NoMatch ELSE match]_vars

\* The tailorer's gate lets through what the matcher's gate let in, although it
\* puts the facts together differently (resolveJobFacts): unless the form labels
\* were replaced since, or the reverse matcher judged a job without facts.
MatchedIsTailorable ==
    Pending /\ ~job.backfilled /\ (match.by = "reverse" => job.facts # NoFacts)
        => MatchEligible(LoadUserPreferences, resolveJobFacts(job))

\* The percentage shown for a match never exceeds that of its most similar
\* section nor falls below the floor, with either set of weights, and the stored
\* fit is a percentage whatever the language model answered.
FitInRange ==
    match # NoMatch =>
        /\ FitScorePercent(match.score) \in 49..match.best
        /\ match.adj.fit \in Percent

\* What the model objects to, other than the seniority, makes no match, and what
\* it finds of the seniority is overruled only when the job's level, as far as it
\* is known, is not below the user's: the code that rewrites its answer
\* (ReconcileAdjudicationSeniority) loses neither.
ObjectionStands ==
    match # NoMatch => "other" \notin match.objected /\ match.adj.seniority # "under"
=============================================================================
