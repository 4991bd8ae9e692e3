# A verification development for PrismApply

PrismApply keeps one profile per user, crawls job boards, matches every stored job with every
embedded profile, and tailors a resume, a cover letter and form answers for each match.  It is a
Go API, three Go worker programs, Postgres (with pgvector), Redis lists and keys, two remote
services (OpenAI, an S3-style object store) and a React front end.

The TLA+ modules in this directory model what moves a posting and a profile towards an application:
the crawler, the profile form and the rules of its document, matching and the rules that admit a
match, tailoring, the answers to a form, and what is stored and shown in the end.  TLC checks them on
small instances; TLAPS proves the theorems listed below for every value of the constants.
`PROJECT.json` names, for each definition, the source lines it stands for.

Contents: 1 the system, 2 the modules, 3 runs and bounds, 4 fairness, 5 proofs, 6 where code and
documentation disagree, 7 what is not modelled, 8 the plan.

## 1. The system

### Components, their state and operations

| component | state | operations |
|---|---|---|
| API, profile (`handlers.go`, `repo/profile.go`) | `user_profiles.profile`, `.preferences_json` | PUT stores a draft; POST normalises, stamps, stores, rebuilds the preferences, deletes pending matches, queues an embed job |
| API, settings (`handlers.go`, `repo/settings.go`) | `preferences_json`, `job_matches` | PATCH stores the mode and deletes promising or stretch matches that are still pending |
| API, resume (`handlers/resume.go`) | `user_profiles.profile`, object store | upload or paste: ask the language model, merge into the stored profile |
| API, applications (`handlers/applications.go`) | `tailored_applications.marked_sent` | mark as sent or not; reads |
| embed worker (`cmd/worker`) | embed queue and dead letters, `profile_embedding_chunks` | embed the profile, match it against the stored jobs (reverse match), queue the new matches |
| discovery (`cmd/discover`, `internal/discovery`) | `discovered_jobs`, process queue | crawl, read facts off a posting, embed and store a job, queue it |
| job worker, process half (`cmd/jobworker`) | process queue | match a job against the embedded users (forward match), queue the new matches |
| job worker, tailor half (`cmd/jobworker`, `internal/jobs`) | match queue, dead letters, `job_runs`, the Redis key `job:tailor:<id>` | claim a run, lock, tailor, complete, retry or dead-letter |
| tailoring (`internal/tailoring`) | `tailored_applications`, object store | gate again, extract, write, lint, render, replace the application's row |
| match policy (`internal/matching`) | none: functions | job facts, gate, score, adjudication and its reconciliation, tiers |
| profile rules (`internal/profilemode`, `features/applicant-profile/*.ts`) | none: functions | mode, layout, completeness, normalisation, merge, in Go and again in TypeScript |
| profile wizard (`ProfileWizard.tsx`, `profileApi.ts`, `api.ts`) | draft, baseline, timer, query cache | edit, autosave after 750 ms, parse a resume, submit, leave |
| sessions (`internal/auth`, `lib/auth.ts`) | refresh tokens in Redis, cookies | sign up, log in, refresh, log out |
| the rest | | read handlers, CLI tools, pages, configuration, deployment, marketing site |

### How they interact

The wizard writes the profile through the API.  A submit puts the user's id, and nothing else, into
the embed queue.  The embed worker reads whatever profile the row holds by then.  Discovery stores a
job and puts its id into the process queue.  Both matchers insert `job_matches` rows with
`ON CONFLICT DO NOTHING RETURNING id` and push the returned ids to the match queue.  The job worker
pops match ids and tailors them.  Meanwhile submits and settings changes delete pending matches,
cascading to the applications that hang off them.  The three lists are written with RPUSH and read
with BRPOP, so they are stacks: the newest message is handled first.

### What is hard

- *Interleaving.*  No transaction spans two of these steps: a claim is a read and an update by id, an
  application is a DELETE and an INSERT, a purge is a SELECT and a DELETE, a matcher keeps the
  preferences it read for minutes.  The one lock is a Redis key with a TTL.
- *Failure.*  BRPOP removes a message before it is handled; results of `CompleteRun` and `FailRun` are
  ignored; a SIGTERM cancels the context of the run under way; the Redis client repeats a command
  whose reply was lost.
- *Ordering.*  A stack reorders submits; an autosave may be stored after the submit that followed it.
- *Agreement.*  Facts of a job are put together in three places, a tier is computed where a match
  is stored and again where it is purged, the rules of a profile document are written in Go and again
  in TypeScript, three readers reduce a job board's controls to questions.
- *A model's answers.*  The language model answers a batch of questions in any order, for any subset, with any
  label; it is asked again for some of them; it fails, and what stands in for its answer is merged.

What makes each component correct: no two workers tailor one match and no match has two applications; every queued match
ends somewhere; a completed run and a dead letter tell the truth; no pair of a user and a job is missed and no match is
queued twice or never; a pending match was judged with the preferences in force and is allowed by the settings; what a
filter lets in a purge lets stay; what the app shows as saved is saved; a document says what its answers say and loses
none of them; every field of a form gets its own answer or is reported; the PDFs are those of the row that names them;
an address of a posting has one row, which one crawler queues, and is found in the end.  `PROJECT.json` lists the single
hazards at their lines with the properties for each.

## 2. The modules

| module | what it is |
|---|---|
| `TailorWorker` | tailor half of the job worker, command by command |
| `TailorService` | what it promises: one tailoring of a match at a time, an application stored only in the place of none |
| `TailorWorkerProofs` | theorems about it: types, the lock, that it implements `TailorService`, and what becomes of a message |
| `Matching` | profile and settings requests, embed worker, discovery's store-and-queue, process half of the job worker |
| `MatchingProofs` | theorems about it |
| `MatchPolicy`, `MatchPolicyProofs` | the rules by which one user and one job become a match, and theorems about them |
| `ProfileWizard` | the profile form, its requests, and the handlers that write the profile |
| `ProfileWizardProofs` | theorems about it |
| `ProfileDocument` | the document they write: derived fields, normalisation, completeness and merges, on both sides |
| `ProfileDocumentProofs` | theorems about it |
| `FormAnswers` | from the questions of a form to its answers: routes, batch, checks, retries, documents |
| `FormAnswersProofs` | theorems about it |
| `Application` | what a tailoring run leaves behind: sheet, PDFs, row; and the user's requests for it |
| `ApplicationProofs` | theorems about it |
| `Discovery` | the crawler, its links and forms, and the tool that reads forms again |
| `Positions` | the first, the k-th and the elements at a set of positions of a sequence, for the loops of `Discovery`, `ProfileDocument` and `FormAnswers` |
| `DiscoveryProofs` | theorems about `Discovery`, and the lemmas about `Positions` that they need |
| `MC...` | the values of constants that a `.cfg` cannot write, and symmetry sets |

`TailorWorkerProofs` composes the first two (`Service == INSTANCE TailorService WITH tailoring <-
Tailoring` in `TailorWorker`).  The others meet at a table or a list, which each module has as a
variable of its own:

- `Matching` and `TailorWorker` at `job_matches`: in `Matching` the tailor worker is the single action
  `Tailor`, in `TailorWorker` the matchers are `CreateMatch` and `EnqueueMatch` and the API's deletes are
  `SubmitProfile`, `SelectPurge` and `DeletePurge`.  `Matching` takes the verdict on a pair as a choice;
  `MatchPolicy` computes it, every operation being atomic.
- `ProfileWizard`'s row is `Matching`'s `profile`; `ProfileDocument` looks into the document that
  `ProfileWizard` moves about, its saves and answers being single steps.
- `Discovery`'s `InsertDiscoveredJob` and `EnqueueProcessJob` are `Matching`'s `StoreJob` and its push, here with
  two crawlers and everything before.  The labels of the forms it stores differ, as `FormAnswers`'
  `FormsAssumption` wants them (`FormAsksOnce` says so).
- `Application` is `TailorWorker`'s `Pipeline` to `InsertApplication` in steps, the queue left out and the
  lock an assumption (`LockHolds`); `FormAnswers` is one step of it, between the cover letter and the upload.

### TailorWorker

Each worker has a program counter `pc`; an action is one Postgres or Redis command of `handleMatch`
and what follows it up to the next one: `Pop`, `BeginRun`, `CreateRun` or `UpdateRun`, `TryLock`,
`Fetch`, the pipeline, `ClearApplication`, `InsertApplication`, `CompleteRun`, `Unlock`, the attempts'
count, `FailRun`, `Retry`, `Bury`.  A command either succeeds or fails, and a failed one may have been
carried out (its reply was lost).  After a SIGTERM (`Terminate`) the context is cancelled: the command
under way fails, carried out or not, and later ones are never sent.  `Crash` forgets the worker
and keeps what is in Redis and Postgres.  `ExpireLock` is the TTL.  Retries push the message again;
the sleep before it is part of the `retry` step, in which a SIGTERM loses the message.

`LockOutlivesRun` and `Resends` separate what the code achieves under a condition from what it
achieves at any rate.  The lock lasts 30 minutes, is not renewed, and is deleted by key whoever set
it.  So mutual exclusion is claimed only where no run is longer than the TTL (`LockOutlivesRun`) and
the client does not repeat commands (`~Resends`).  Everything else is checked with locks that expire.
`TailorMatch` is `Fetch`, one step `Pipeline` for all that the language model, the renderer and the
object store do, which goes on or fails, and the DELETE and INSERT.

### Matching

`submit[u]` and `settings[u]` are the handlers' progress through their statements; `reverse[w]` and
`forward[w]` the matchers' local variables.  A profile is its version, who wrote it and whether it is
complete; a match row has a generation, so that an id selected earlier does not name a later row of
the same pair.  A reverse match commits all its rows in one transaction, a forward match row by row, as the
code does.  The gate, the vectors and the adjudicator are one nondeterministic choice per pair, filtered
by the settings as read.  `last`, `chosen` and `considered` are history variables; `last[u]` is the version of
`u`'s last complete submit, and 0 once an incomplete draft or submit has taken its place, because the embed worker then finds
nothing to embed and drops the message.  `Overlap = FALSE`
restricts a run to requests that do not overlap a matcher; the theorems about what is pending and about the
settings do not need it (section 5).

### MatchPolicy

A text is the set of the patterns of `jobfacts.go` it contains, so that the order in which the code
tries patterns decides the seniority and the remote policy as it does in the code.  Similarities are
integers in hundredths, the weighted score is exact in ten thousandths, and the percentage is rounded half up.
The adjudicator may answer anything: any score, any recommendation, violations about seniority and
others; `normalizeAdjudicationFitScore` and `Reconcile` (`ReconcileAdjudicationSeniority`) then work on
the answer in the code's order.  The three functions that put a job's facts together
(`JobRowToFacts`, `jobFactsFromRow`, `resolveJobFacts`) are three operators.  A job whose facts were
never stored, from before the migration, is `NoFacts`.

### ProfileWizard

The form keeps a draft, a baseline (what it believes saved) and a timer.  `net` holds the requests
under way: an answer has a `heard` field, because React's cleanup does not cancel a request, only makes
its answer count no longer.  `upsertProfile(i)` is the server; requests are handled in the order they
were sent unless that costs a fault (a request that got a 401 is refreshed and sent again, behind
later ones).  The document is abstracted to `text` (fields that no resume fills in), `resume` (those
that one does) and `stamp` (`profileSubmittedAt`).  A resume parse reads the row, asks the language model,
and writes the row back.  `excused` marks a user who does not wait: who submits, uploads, leaves or reloads
while a save is pending, edits while a resume is being read, or goes back to the saved text before
the save of the undone one is answered.

### ProfileDocument

A document is a record of the fields that a rule depends on or derives: `years`, `seniority`, `paid`, `mode`, `layout`,
`needs` and `visa`, `markets` and `countries`, roles and projects by state (`full`, `part`, `blank`), `featured`, the
narratives, `text`.  `text` is the sequence of what was put in front of the uploaded resume, so that compiling twice
shows.  `prepareProfileForSubmit` and `NormalizeProfileJSON` are the two sides' derivations and
`isApplicantProfileComplete` and `ProfileComplete` their rules of completion, each from its own source.
`mergeParsedProfileMaps` is the server's merge of an analysis, `mergeParsedProfile` the client's, applied twice as the
page does; `fallbackProfile` stands in for a failed analysis.  `Edit` has one disjunct per kind of answer.  `writer`,
`latest` and `excused` are history: who wrote the row, the last resume the form heard of, whether the user left
something unsaved.

### FormAnswers

A label is the set of patterns it matches and an option the set of fragments it contains, so that the order of the
code's tests decides a field's class, route and option.  A value is a kind (`option`, `link`, `prose`, `said`, ...) and
what it is of.  The language model is an environment: its intents, the rows of its batch answer and what it says on a
retry are chosen freely, and each call may fail.  A batch answer is any sequence of rows up to `MaxRows`, each with any
position or none, the label of any asked field or none, and a value that answers any of them; `mergeBatchAnswers` takes
the last row under a label, then the last at a position, as the code's two maps do.  `ResolveFieldRoutes`,
`BuildFieldIntentMap`, `answerRoutedFields`, `answerBatchFields`, `Lint`, `RetryFailure` and `FinalizeFormAnswers`
follow `forms.go`, `field_intent.go`, `profile_inference.go` and `form_lint.go`.  The wording of prompts, the length of
prose, citations and confidence flags of an answer are left out: nothing here reads them.

### Application

A run gets a number when it starts and writes it into whatever it stores, so that a file or a sheet tells whose it is.
A file's key is `ResumeKey` or `CoverKey`: the applicant's name, company and title, not the match, as in `r2.go`.  A
resume is its parts, its bullets and whether it cites; the layout decides what `ValidateStructuredResume` asks of it.
The form's answers are one step (`AnswerForm`) that may find any of `Lints`; the row's warnings are those of its resume
and these findings (`tailor.go:84`).  The uploads come before the DELETE and INSERT of the row, and `RunFails` may end a
run between any two.  The user submits another name or layout, lists the applications, and marks one as sent, with the
ids of the last listing (`shown`).  `Download(m)` is what a download by such an id answers; it changes nothing, so it is
no action.

### Discovery

Each crawler has a program counter: search, look up, then per posting look up again, scrape, store,
push.  A *listing* is an address of a posting, its host and its path, and a link is a listing and the suffix of its
address.  `NormalizeListingURL` cuts the suffix off and nothing else: a posting on both of Greenhouse's hosts is two
listings, with two rows.  `Legacy` has the links that were stored before suffixes were cut off; of these
`LookupDiscoveredJobID` finds the ones that end in `/application`.  `Removed` listings are still found but gone
from their boards.  A page is a sequence of controls and each board's reader reduces it to fields in its own
way, `DedupeFormFieldsByLabel` at the end of each and again at the insert.  A Lever page has custom cards beside its
questions (`card`); a file that a card asks for is read as a text.  When a board's interface fails, a language model reads
the text of the page: `extractFormFields` is any of `Readings`, whose labels, types and required flags need not be the page's,
or nothing, and `guessed` remembers whose form it read.  Every call may fail at the cost of a
fault.  A commit answered with an error may have been carried out, and a push whose reply is lost is in the queue, twice if
the client repeats it (`resent`).  A crash forgets the crawler.  `lost` remembers what was stored and never pushed.
`ReplaceJobFormFields` is the tool, for rows without a form and, in its single-row mode, for any row.

## 3. Runs and bounds

| run | instance | what it shows |
|---|---|---|
| `tailor_lock` | 1 match, delivered up to twice, 2 workers, 1 fault, 1 stop, the lock outlives a run | `OneTailorer`, `AtMostOneApplication`, `ImplementsService`; completed is final and true, a dead letter was tried `MaxAttempts` times, applications stay, only a purge deletes a tailored match |
| `tailor_serve` | 1 match sent twice, 2 workers, 2 faults, repeated commands, locks that expire | retries stay in budget and multiply no message; a queued match is served |
| `match_settle` | 1 user, 2 jobs, 2 profile writes, overlapping | no match without its push, no pair missed, the embedding catches up |
| `match_serial` | 1 pair, 2 embed workers, 2 writes, 2 settings changes, 1 fault, 1 crash | no match is queued twice; what is pending is current and allowed; settings survive |
| `policy` | 4 profiles, 4 postings, 3 forms, 4 score breakdowns, all answers | filters, purges and both gates agree; scores in range; an accepted objection is one the rules overruled |
| `wizard` | 2 edits or resumes, 2 visits, 1 fault | what the app believes saved was stored, the last state is saved, a submission is not forgotten |
| `wizard_stamp` | 2 changes, no fault | fails: a submission is forgotten |
| `forms` | 5 forms, 3 profiles, up to 2 rows in a batch's answer, 3 retries | answers are their fields' own, links and blanks do not pass unreported, sponsorship is answered truly |
| `application` | 2 matches, 2 workers, 3 runs, 2 names and layouts | PDFs are those of the row, warnings those of the resume and the answers it holds, a sheet stays |
| `app_download` | the same, 2 runs | fails: a download is answered with an internal error |
| `profile` | 3 edits, 2 visits, 1 resume | derived fields follow their sources, both sides agree, nothing entered is lost in a merge |
| `discovery` | 2 crawlers, 5 listings on 3 boards, 2 queries, limit 2, 1 fault, 1 crash | one row per address, pushed by one crawler, lost only at or after its commit, forms ask once, everything found is stored |

Why the bounds are enough.  A violation of the lock needs two workers and one match delivered twice;
a lost reply or a SIGTERM at any step needs one fault and one stop, and the two may be combined.  Two
faults let a retry meet a second error.  `MaxAttempts` is 2 or 3 so that a first, a repeated and a last
attempt differ.  `CompletedIsFinal`, `OutcomesAreTrue` and `ApplicationsStay` are claimed of matches
delivered once (`SentOnce`); the rest of the time a second delivery is there to break them.  In
`Matching` two writes are a submit that overtakes or is overtaken, two jobs are
one job matched before and one stored while a profile is being embedded; users do not share state, so
one user is enough but for `match_serial`'s second embed worker.  In `MatchPolicy` the postings
contain patterns of several seniorities in one text, and the similarities lie on both sides of the floor
and of the strong threshold, 74.5 among them, where rounding decides.  In `ProfileWizard` two changes
make one save supersede another, and a second visit starts from what the first left in the cache.

In `FormAnswers` the code's own limit of three retries is used and the forms have up to five fields, so that rows can be
exchanged, two rows can name one field or one row another's, a retry can be lacking, and a failed field can be left when
the limit is reached; each form is for one group of rules (identity and links, prose, compliance, documents, and
mixtures).  In `Application` three runs are a match tailored, tailored again and overlapped by another, and two workers
suffice because the lock admits one per match.  In `ProfileDocument` three edits can set a field, derive from it and
change it back, a second visit starts from what was derived, and one resume may be answered in either.  In `Discovery`
the limit is smaller than what the queries find and one of the listings is gone, so that a run is cut short and a later
one goes on; one listing is stored under `/application` and one under `/apply`, so that one is found and the other is
stored again; the two crawlers, the fault and the crash meet at every step.

Bounds on counters are constants named `Max...`; they stop the environment (users, enqueuers, faults),
never the program.  Runs of most modules may end with nothing left to do (a form is done, the edits are
used up), hence `CHECK_DEADLOCK FALSE` in them; `MatchPolicy`, `Application` and `Discovery` go on for ever
and are checked for deadlock.  Symmetry is used for workers only, and not in runs with liveness properties.

The type invariant of a module is checked as a conjunct of one of its invariants (`NothingMissed`, `SavedInv`,
`FailuresAreReported`, `RowInv`, `DerivedInv`, `CrawlInv`), in `TailorWorker` by itself; that of `MatchPolicy` is proved only.

Every property of a passing run has a mutant in `PROJECT.json`: a plausible error in one
definition (a dropped guard, a cleanup that forgets the timer, a purge of the wrong kind) that breaks it.

## 4. Fairness

`TailorWorker`: a worker that is up takes its next step, a TTL runs out, a stopped worker is restarted (the deployment
restarts always).  `Matching`: a request, a crawl and a worker go on.  `ProfileWizard`: a timer fires, a request is
handled and answered, a navigation happens.  `Discovery`: a crawler is started again and again (a cron schedule does,
`deploy/RAILWAY.md:289`) and its calls end, one weak fairness per crawler; crashes, faults and the tool have none, and
faults are bounded, so that `FoundIsStored` says that a failure is made up for by a later run.  All of it is weak
fairness of single processes; users, matchers' findings and faults have none.  `FormAnswers`, `Application` and
`ProfileDocument` state no liveness and need none.  `QueuedMatchIsServed` needs no fairness between the two workers, nor
between the match queue and the process queue: BRPOP prefers the first.

## 5. Proofs

Checked by `tlapm`; no step is omitted and nothing is assumed but the named assumptions on the constants and
the conditions below.  Every theorem holds for any number of workers, matches, users, jobs, crawlers, edits,
faults and stops.

| theorem | property | condition |
|---|---|---|
| `TailorWorkerProofs!TypeCorrect` | `TypeOK` | |
| `!MutualExclusion`, `!SingleApplication`, `!Refinement` | `OneTailorer`, `AtMostOneApplication`, `ImplementsService` | `LockOutlivesRun`, `~Resends` |
| `!NoMessageMultiplied`, `!TriesAreBounded` | `NoExtraCopies`, `RetryBudget` | |
| `!OutcomesAreRecorded`, `!CompletedStays` | `OutcomesAreTrue`, `CompletedIsFinal` | `~Resends` |
| `!StoredApplicationsStay` | `ApplicationsStay` | |
| `MatchingProofs!MatchingTypes`, `!MatchesQueuedOnce`, `!NoMatchOrphaned` | `TypeIInv`, `QueuedOnce`, `NoOrphanMatch` | |
| `!NothingIsMissed` | `NothingMissed` | `Serial` |
| `!PendingStaysCurrent` | `PendingIsCurrent` | `[][\A u : ~Overtakes(u)]_vars` |
| `!SettingsStay` | `SettingsKept` | `[][\A u : ~LostUpdate(u)]_vars` |
| `MatchPolicyProofs!TypeCorrect`, `!PendingAllowed`, `!Tailorable`, `!FitBounded`, `!ObjectionsStand`, `!PurgesExact` | `TypeOK`, `PendingPassesFilters`, `MatchedIsTailorable`, `FitInRange`, `ObjectionStands`, `PurgeIsExact` | |
| `ApplicationProofs!RowsAreChecked`, `!SheetsSettle`, `!PdfsAreBacked` | `RowInv`, `SheetSettles`, `PdfBacksRow` | |
| `DiscoveryProofs!CrawlStaysBounded`, `!PostingQueuedOnce`, `!NothingElseLoses`, `!FormsAskOnce` | `CrawlInv`, `QueuedOnce`, `StoredIsQueuedOrLost`, `FormAsksOnce` | |
| `!NoSecondRow`, `!FormsAreTheirPages` | `OneRowPerAddress`, `ReadFrom` | |
| `ProfileWizardProofs!SavedIsStored`, `!SubmissionIsKept` | `SavedInv`, `SubmissionStays` | |
| `ProfileDocumentProofs!DerivedAlways`, `!AnswersAlwaysAgree`, `!NormalizeAlwaysSettles` | `DerivedInv`, `AnswersAgree`, `NormalizeSettles` | |
| `!ResumeIsAlwaysKept`, `!CompletionAlwaysAgrees`, `!AnalysisAlwaysOnlyFills` | `ResumeIsKept`, `CompletionAgrees`, `AnalysisOnlyFills` | |
| `FormAnswersProofs!AnswersStayTheirOwn`, `!FailuresAlwaysReported`, `!SponsorshipAlwaysTrue` | `AnswerIsItsOwn`, `FailuresAreReported`, `SponsorshipIsTrue` | |

The conditions are those of the properties, and TLC has a counterexample without each.  `LockOutlivesRun`: a run that is
longer than its key's TTL loses the lock.  `~Resends`: a repeated SETNX is refused its own lock, a repeated RPUSH is a
second delivery.  `LostUpdate(u)`: a settings change saves while a submit holds the settings it read before
(`handlers.go:265`), and the submit writes those back.  `Overtakes(u)`: that, or preferences are saved while the user's
other request or a matcher goes by the ones before; a matcher then commits after the submit's delete.  Nothing in the
code prevents these steps.  The theorems are about any overlap of requests and matchers (`Overlap` may be TRUE) and say
that with no fault nothing but these single steps can leave a stale match or lose a setting; the run `match_serial`
excludes overlap altogether, so on its own it shows less.  `Serial`, for `NothingIsMissed`, is `~Overlap`, or users who
do not touch their settings: a settings change stores the whole preferences it loaded, and if a submit saved newer ones
in between they are gone, the version with them.  Submits, drafts, crawls and matchers overlap freely under `Serial`.

*The lock* (`LockInv`).  That the second worker is refused depends on the key still being there: a worker
between its SETNX and its UNLOCK holds the key of its match, and at its INSERT the rows its DELETE took
away are still gone.  `Refinement`: a step outside `Holding` changes nothing the service sees; SETNX is `Start`, DELETE
`Discard`, INSERT `Store`, every way out, crashes included, `Stop`.

*Messages* (`BudgetInv`, `OutcomeInv`).  `BudgetInv` counts the copies of a match, those in the queue and those in hand,
and says that once its run row has counted all attempts, the tries made and the chances of further ones are within the
budget; a retry turns one chance into one message.  The errors hide counts, which is why `faults` is in the budget.
`OutcomeInv` follows a match that has one message: its row counts exactly the tries made, `Completed` and the dead
letters come after their causes, and a message that is left after the application was stored is in the hands of a worker
that was told to stop and sends nothing any more.

*Ids and rows* (`IdsInv`, `HandsInv`).  An id that a matcher holds is of a row that is as old, is not pushed, and is in
nobody else's hands, since the INSERT returned it to one matcher; the commit of a reverse match keeps that because
nobody else may insert a pair that an open transaction has.  Without a fault every unpushed match is in somebody's
hands.

*No pair missed* (`MissInv`).  `VersionsInv`: what a matcher loads is the last complete submit's preferences, unless the
submit has yet to save them.  `JudgedInv`: every pair of an embedded user and a stored job has been judged so, or will
be, by the user's own matcher (`ByUser`: a submit under way, a message, a worker that has yet to read, or one that has
the job on its list) or by the job's (`ByJob`).  Each step that ends one service leaves another or the verdict.

*Pending is current* (`CurrentInv`).  What is in flight is current too: a transaction's rows (`ReverseCurrent`), the
preferences a matcher has loaded (`ForwardCurrent`), those a request has in hand (`InHand`), and a settings handler's ids,
which name every pending row that its new settings exclude (`PendingOK`).  Between a submit's save and its delete rows may be
stale, so nothing is claimed of them there.  Each save is the one step that could make a matcher stale, and the condition says
that it does not.  *Settings* (`CarriedInv`): what a submit is about to save has the settings chosen last.

*Crawlers* (`StoreInv`, `HeldInv`).  A crawler at its push is the only one there with its posting and the listing is
stored and not pushed (`Owns`), which is what the insert's conflict gives, so that its push is the only one, whatever
the client repeats; what it reads was not found when it looked and can only have been stored since under the normalised
address.  `HeldInv` says that the lists of a crawler have no doubles, within one list or between what was read and what
is to be read.  `FormAsksOnce` follows from what `DedupeFormFieldsByLabel` keeps (`DedupeKeeps`, from what is picked at
a set of positions) for any page and any answer of the language model, and for the boards' readers `OfPage` follows a
field back to its control: the loops of the code are written there without recursion, as the elements of a list at a set
of positions.

*The form* (`SavedIInv`, `StampIInv`).  An answer counts only if nothing muted it since; what an answered save carried
has been in the row; the row is among what has been stored.  For a user who waits, all requests after an acknowledged
submit carry the stamp, because while it is under way there is no timer and no other request.

*The rules* (`PolicyInv`).  `Linked`: chunks imply stored preferences, a match implies chunks and a job, and stored
facts are those of the stored text until the form labels are replaced.  The arithmetic lemmas bound the weighted
score by the best similarity for both sets of weights.

*PDFs* (`FilesInv`).  That the INSERT finds the PDFs it names needs that nobody overwrote them since the uploads: while
the lock holds a match has one run, its latest, the run's uploads are in the storage, and a key has the company and
title of its match, so that another match's upload goes elsewhere if these differ.  `RowsInv` says of a run that has a
resume that it has its warnings, to which `AnswerForm` adds what it found in the answers.

*Documents* (`Inv`, `FreshInv`, `WrittenInv`, `KeepInv`).  `Inv` is `DerivedInv` and the same of what is on its way
(`CallInv`): what a resume handler read has the layout of its paid work, because it will be stored in turn, and a
failed analysis is the empty one.  That a second normalisation changes nothing, and that both sides agree on which
documents are complete, are facts about the operators for any document.  They meet the state in `WrittenInv` (what a
form wrote is somebody's document normalised) and `FreshInv` (a form that was loaded without derived fields has none
of them, so what it sends has them from its answers).  `KeepInv` follows a resume: while it is analysed the form stays
open, unless the user is excused, and the answer carries its text.  The merges are proved to fill only
(`AnalysisAlwaysOnlyFills`) from what each puts in front of what.

*Answers* (`OwnInv`, `ReportInv`, `RuleInv`, over `ShapeInv`).  `MergeOwn` is the core of the first: for any sequence of
rows, the last row that names a field answers it, if it is not blank, and the last at its position else.  So what is
needed is that the rows which name the field are its own (`Good`); other rows may be misplaced, repeated or another
field's.  A retry writes only what was said of the
field, and the documents replace values that nobody could mistake (`FinalAnswer`).  `CheckedInv`: a link in a prose
field waits to be asked again or was, so that when the retries end it was asked or the limit is reached; and what goes
out is what was checked last.  `ShapeInv` is needed because a field is skipped by the check only if a document goes
into it, which is a fact about every route (`RuleRouteType`, `IntentRouteType`, `FallbackRouteType`).  `RuleInv` comes
from `RightSelect`: whichever of the three rules speaks first, it reads a flag that agrees; and such a field is never
left to the model (`RightBatch`).

The assumptions on the constants: that they are of their kinds (`TailorAssumption`, `PolicyAssumption`,
`ProfilesAssumption`, `WizardAssumption`, `ListingsAssumption`, `JobAssumption`, `QueriesAssumption`, `FormsAssumption`,
`IntentsAssumption`, `AddedAssumption`, the bounds), that an analysis of a resume has the shape the parser's schema
gives it (`AnalysesAssumption`), that attempts and limits are positive, and that a value which means "none" is not one
of the others (`NoMatchAssumption`, `NoJobAssumption`, `NoFormAssumption`).

What an attempt found.  `NoPairMissed` and `SubmitIsEmbedded` used to ask only that the profile be complete in the
end.  The proof did not go through: a complete submit may be replaced by an incomplete draft before the worker gets to
its message, which is then dropped, and a later draft may complete the profile again without a message.  TLC shows it
with three and four edits; the run's two had hidden it.  Both are now claimed of submits whose profile has been
complete ever since (`last`); with four edits and one job they hold. `AnswerIsItsOwn` used to say that what the model
answered under a field's own name never goes out blank.  It does for a question that mentions a cover letter: the
letter overwrites it, blank or not (`forms.go:445-452`).  `SponsorshipIsTrue` used to cover any label that asks about
sponsorship; one that asks about export control, clearance, an office, a time zone or Latin America as well is
answered by that question's rule, which comes first.  The run's forms had no such labels and have them now; TLC finds
both old forms violated on them.  In `ProfileDocument` guards of a CASE overlapped, which leaves the choice open in a
proof, and every loaded document was taken to use up two project ids, so that the ids of a longer one were given out
again: the alternatives are now in the code's order and a document uses as many ids as it has projects.

Only model-checked: the liveness properties `QueuedMatchIsServed`, `SubmitIsEmbedded`, `FormIsSaved` and
`FoundIsStored`, which depend on fairness and so on `ENABLED`, out of reach for this prover.  Every other property of
a passing run is a theorem.  What the code does in loops is written as sets of positions, so that no lemma needs an
induction over data, and no module uses a RECURSIVE operator.

## 6. Where the code and its documentation disagree

Shown by a run that fails:

1. *A submission is forgotten* (`wizard_stamp`).  An autosave pending at the submit is stored after it, without
   `profileSubmittedAt`.
2. *A download never works* (`app_download`).  `GetTailoredApplicationByID` selects 25 columns and scans 23
   (`repo/tailored_apps.go:185`), so both download handlers answer 500 for a row that is there.  Behind it the resume
   handler looks for a key made of the match's id, under which no run stores anything.

Met while modelling, and stated in the premises of the properties or in the comments of the modules:

- Pipeline: a purge can delete a match tailored between its SELECT and its DELETE, though `repo/settings.go:38` says it
  has no application yet: `ApplicationsStay` without `m \in purge` fails.  `BeginRun` is said to return a completed run
  (`jobs/runs.go:21`), but its UPDATE by id alone can set one back to running: `CompletedIsFinal` without `SentOnce`
  fails, with two deliveries and no fault.  A matcher that read the preferences before a submit commits after the
  submit's delete, and the re-match finds the pair taken (`matching_v2.go:66`).  The embed job names only the user, so a
  draft saved while the job waited is embedded.  A rejection without a listed objection becomes a match
  (`adjudicate.go:55`).
- Forms: the model's intents overwrite routes the rules were sure of (`field_intent.go:275`).  The fallbacks for
  free-text questions about authorization and export control differ from what the prompt is told (`forms.go:287`).  A
  retry for prose that is too short is never reached.  A level of English is matched against the options of any select.
  A row of the batch's answer that bears another field's label replaces that field's answer
  (`profile_inference.go:458`): `AnswerIsItsOwn` without its premise fails.
- Documents: `ProfileComplete` is said to mirror the front end, but a user who names no country he may work in can
  submit and is never queued for matching (`compile.go:461`).  A derived visa status or kind of paid work is carried
  back as if entered, and later answers no longer reach it.  A failed analysis sets the need for sponsorship and the
  flags back.  A list of blank roles replaces full ones.  `featured` may name a project that a second resume has
  replaced.  Project-led documents grow by their own compiled text with every save.
- Applications: two matches with the same company and title share their PDFs' keys.  A mark for a row that was replaced
  is answered like one that was stored (`tailored_apps.go:238`).
- Discovery: a posting stored and not pushed is taken for known by every later run (`run.go:128`); so is one whose
  commit was carried out and answered with an error (`repo/discovery.go:205`).  A posting on both of Greenhouse's hosts
  (`ats.go:14`), and one whose row from before ends in `/apply` (`repo/discovery.go:87`), gets a second row.  A form
  that the language model read may ask what the page does not (`scrape.go:153`).  Lever's text areas and lists outside
  of cards are not read.  Old rows of Ashby's cannot be read again by the tool.

## 7. What is not modelled

Time (TTL, backoff and debounce are steps that may happen), more than one match queue per kind, two
tabs of the form, prompts and the wording and length of prose, the ranking of evidence, the layout of PDFs and the
density of a page, HTML and JSON parsing below the level of a form's controls, vector search and
embeddings, authentication and sessions, the admin's and the other read-only handlers, the command line tools that only
print or queue, configuration, pages, and the deployment.  `PROJECT.json` has the reason for each component.

## 8. The plan

Done, in this order: `TailorWorker` with `TailorService` (the only part with a lock, retries and
crashes), `Matching` (the rest of the pipeline), `MatchPolicy` (the verdict `Matching` leaves open),
`ProfileWizard` (what feeds them), `FormAnswers` and `Application` (what is inside of `Pipeline`),
`ProfileDocument` (what is inside of a profile), `Discovery` (what is before `StoreJob`).

Then the proofs, in the order of section 5: every property of a passing run but the liveness properties.

Left to model: `Session` (sign-up, refresh and log-out with tokens in Redis, and the front end's one refresh shared by
many requests), and `JobWorker`, the one loop over both queues, composing `TailorWorker` and `Matching`'s forward half.
