------------------------------ MODULE Matching ------------------------------
(***************************************************************************)
(* How a (user, job) pair becomes a match.  Submitting a profile stores it *)
(* and its preferences, deletes the pending matches and queues an embed    *)
(* job; cmd/worker embeds the profile and matches it against the stored    *)
(* jobs (reverse match).  cmd/discover stores a job and queues it;         *)
(* cmd/jobworker matches it against the embedded users (forward match).    *)
(* Both insert job_matches rows and queue the new ones for tailoring,      *)
(* while PATCH /api/settings changes the preferences and deletes matches.  *)
(* One action is one statement or transaction of Postgres or one Redis     *)
(* command.                                                                *)
(***************************************************************************)
EXTENDS Integers, Sequences, FiniteSets

CONSTANTS
    User, Job,
    EmbedWorker,   \* cmd/worker processes
    JobWorker,     \* cmd/jobworker processes
    None,          \* no user, no job
    Overlap,       \* FALSE: a user's requests neither overlap one another nor
                   \* a matcher that has already read the user's preferences
    MaxEdits,      \* bound: times each profile is written
    MaxPatches,    \* bound: times each user changes settings
    MaxFaults,     \* bound: Postgres, Redis or OpenAI errors
    MaxStops       \* bound: crashes

ASSUME MatchingAssumption ==
    /\ None \notin User \cup Job
    /\ Overlap \in BOOLEAN
    /\ MaxEdits \in Nat /\ MaxPatches \in Nat /\ MaxFaults \in Nat /\ MaxStops \in Nat

VARIABLES
    profile,   \* user_profiles.profile: its version, who wrote it, whether it is complete
    prefs,     \* user_profiles.preferences_json
    chunks,    \* the profile the user's profile_embedding_chunks were made from
    stored,    \* discovered_jobs, oldest first
    row,       \* the job_matches row of each pair and what hangs off it
    embedQ, processQ,        \* Redis lists of users and of jobs
    deadEmbeds, deadJobs,    \* their dead letters
    submit, settings,        \* the profile and settings requests of each user
    crawl,     \* a job cmd/discover has stored and not yet queued
    reverse, forward,        \* the matchers
    last,      \* version of the user's last complete submit, 0 once an incomplete
               \* draft or submit has taken its place
    chosen,    \* the settings the user saved last
    considered,\* version of the newest preferences a pair was judged with
    patches, faults, stops

apiVars   == <<submit, settings, patches, last, chosen>>
queueVars == <<embedQ, processQ, deadEmbeds, deadJobs>>
userVars  == <<profile, prefs, chunks>>
vars == <<userVars, stored, row, queueVars, apiVars, crawl, reverse, forward,
          considered, faults, stops>>

Pair == User \X Job
Version == 0..MaxEdits

\* strong matches, promising ones, and promising ones above the user's
\* seniority, which count as promising too.
Kind == {"strong", "promising", "stretch"}
Mode == {"strong_only", "strong_and_promising"}
Settings == [mode : Mode, stretch : BOOLEAN]
Defaults == [mode |-> "strong_and_promising", stretch |-> FALSE]

Profile == [ver : Version, complete : BOOLEAN]
Prefs == [ver : Version \cup {-1}, set : Settings]
NoProfile == [ver |-> 0, complete |-> FALSE]
NoPrefs == [ver |-> -1, set |-> Defaults]   \* preferences_json is NULL

Match == [live : BOOLEAN, gen : Nat, ver : Version, kind : Kind,
          queued : Nat, app : BOOLEAN]
NoMatch(gen) == [live |-> FALSE, gen |-> gen, ver |-> 0, kind |-> "strong",
                 queued |-> 0, app |-> FALSE]

IdleSubmit == [pc |-> "idle", prefs |-> NoPrefs, complete |-> FALSE]
IdleSettings == [pc |-> "idle", prefs |-> NoPrefs, ids |-> {}]
IdleReverse == [pc |-> "idle", user |-> None, text |-> NoProfile, prefs |-> NoPrefs,
                todo |-> <<>>, tx |-> {}, found |-> {}]
IdleForward == [pc |-> "idle", job |-> None, prefs |-> [u \in User |-> NoPrefs],
                todo |-> {}, found |-> {}]

SubmitState == [pc : {"idle", "load", "save", "delete", "enqueue"},
                prefs : Prefs, complete : BOOLEAN]
SettingsState == [pc : {"idle", "save", "tier", "drop", "stretch", "dropStretch"},
                  prefs : Prefs, ids : SUBSET (Pair \X Nat)]
ReverseState == [pc : {"idle", "read", "replace", "prefs", "list", "scan", "enqueue"},
                 user : User \cup {None}, text : Profile, prefs : Prefs, todo : Seq(Job),
                 tx : SUBSET (Pair \X Kind), found : SUBSET (Pair \X Nat)]
ForwardState == [pc : {"idle", "list", "scan"}, job : Job \cup {None},
                 prefs : [User -> Prefs], todo : SUBSET User, found : SUBSET (Pair \X Nat)]

TypeOK ==
    /\ profile \in [User -> Profile] /\ prefs \in [User -> Prefs]
    /\ chunks \in [User -> Profile]
    /\ stored \in Seq(Job)
    /\ row \in [Pair -> Match]
    /\ \A p \in Pair : ~row[p].live => row[p] = NoMatch(row[p].gen)
    /\ embedQ \in Seq(User) /\ processQ \in Seq(Job)
    /\ deadEmbeds \subseteq User /\ deadJobs \subseteq Job
    /\ submit \in [User -> SubmitState] /\ settings \in [User -> SettingsState]
    /\ crawl \in Job \cup {None}
    /\ reverse \in [EmbedWorker -> ReverseState] /\ forward \in [JobWorker -> ForwardState]
    /\ last \in [User -> Version] /\ chosen \in [User -> Settings]
    /\ considered \in [Pair -> Version]
    /\ patches \in [User -> Nat] /\ faults \in Nat /\ stops \in Nat

Init ==
    /\ profile = [u \in User |-> NoProfile]
    /\ prefs = [u \in User |-> NoPrefs]
    /\ chunks = [u \in User |-> NoProfile]
    /\ stored = <<>>
    /\ row = [p \in Pair |-> NoMatch(0)]
    /\ embedQ = <<>> /\ processQ = <<>>
    /\ deadEmbeds = {} /\ deadJobs = {}
    /\ submit = [u \in User |-> IdleSubmit]
    /\ settings = [u \in User |-> IdleSettings]
    /\ crawl = None
    /\ reverse = [w \in EmbedWorker |-> IdleReverse]
    /\ forward = [w \in JobWorker |-> IdleForward]
    /\ last = [u \in User |-> 0]
    /\ chosen = [u \in User |-> Defaults]
    /\ considered = [p \in Pair |-> 0]
    /\ patches = [u \in User |-> 0] /\ faults = 0 /\ stops = 0

-----------------------------------------------------------------------------
(* Commands, lists and rows.                                                *)

Succeeds == UNCHANGED <<faults, stops>>
Fails == faults < MaxFaults /\ faults' = faults + 1 /\ UNCHANGED stops

Last(q) == q[Len(q)]
Front(q) == SubSeq(q, 1, Len(q) - 1)

\* MatchPassesTierFilter and MatchPassesStretchFilter.
Allowed(set, kind) ==
    /\ kind # "strong" => set.mode = "strong_and_promising"
    /\ kind = "stretch" => set.stretch

\* INSERT ... ON CONFLICT (user_id, job_id) DO NOTHING adds a row only where
\* there is none ...
Inserted(p, kind, ver) ==
    IF row[p].live THEN row[p]
    ELSE [NoMatch(row[p].gen + 1) EXCEPT !.live = TRUE, !.kind = kind, !.ver = ver]
\* Mutant: the INSERT updates on conflict, and so returns the old row's id.
ReturnedAlways(p) == {<<p, IF row[p].live THEN row[p].gen ELSE row[p].gen + 1>>}
\* ... and RETURNING id gives the id of an added row only.
Returned(p) == IF row[p].live THEN {} ELSE {<<p, row[p].gen + 1>>}

\* A DELETE of the rows with these ids, which cascades to their applications.
Deleted(ids) ==
    [p \in Pair |-> IF <<p, row[p].gen>> \in ids THEN NoMatch(row[p].gen) ELSE row[p]]

\* Rows of u with status 'pending' and no tailored application.
Pending(u) == {<<p, row[p].gen>> : p \in {q \in Pair : q[1] = u /\ row[q].live /\ ~row[q].app}}

\* EnqueueMatch: the tailor worker drops an id whose row is gone.  The Redis
\* client repeats an RPUSH whose reply was lost, so an id may get in twice.
Pushes(id, times) ==
    [row EXCEPT ![id[1]].queued =
        IF row[id[1]].live /\ row[id[1]].gen = id[2] THEN @ + times ELSE @]
Queued(id) == Pushes(id, 1)
QueuedTwice(id) == Pushes(id, 2)

\* LoadUserPreferences: those of a user who has none come from the profile.
Loaded(u) == IF prefs[u] = NoPrefs THEN [NoPrefs EXCEPT !.ver = profile[u].ver] ELSE prefs[u]

\* A pair that an open transaction has inserted: another INSERT waits for it.
Locked(p) == \E w \in EmbedWorker, k \in Kind : <<p, k>> \in reverse[w].tx

\* A matcher that has read u's preferences and may still act on them.
Straddled(u) ==
    \/ \E w \in EmbedWorker : reverse[w].user = u /\ reverse[w].pc \in {"list", "scan"}
    \/ \E w \in JobWorker : u \in forward[w].todo
Undisturbed(u) ==
    Overlap \/ (submit[u].pc = "idle" /\ settings[u].pc = "idle" /\ ~Straddled(u))

-----------------------------------------------------------------------------
(* Requests.  A failed command is logged and the handler goes on, except    *)
(* that a settings change ends when its preferences cannot be loaded or     *)
(* saved.  A command that failed may have taken effect.                     *)

\* PUT /api/profile.
SaveDraft(u) ==
    /\ profile[u].ver < MaxEdits /\ Undisturbed(u)
    /\ \E c \in BOOLEAN :
         /\ profile' = [profile EXCEPT ![u] = [ver |-> @.ver + 1, complete |-> c]]
         /\ last' = [last EXCEPT ![u] = IF c THEN @ ELSE 0]
    /\ UNCHANGED <<prefs, chunks, stored, row, queueVars, submit, settings, patches, chosen,
                   crawl, reverse, forward, considered, faults, stops>>

\* POST /api/profile: UpsertProfile.  The preferences are built from this
\* profile, whatever is written to the row meanwhile.
SubmitProfile(u) ==
    /\ submit[u].pc = "idle" /\ profile[u].ver < MaxEdits /\ Undisturbed(u)
    /\ LET ver == profile[u].ver + 1 IN
       \E c \in BOOLEAN :
         /\ profile' = [profile EXCEPT ![u] = [ver |-> ver, complete |-> c]]
         /\ last' = [last EXCEPT ![u] = IF c THEN ver ELSE 0]
         /\ submit' = [submit EXCEPT ![u] =
              [pc |-> "load", prefs |-> [NoPrefs EXCEPT !.ver = ver], complete |-> c]]
    /\ UNCHANGED <<prefs, chunks, stored, row, queueVars, settings, patches, chosen, crawl,
                   reverse, forward, considered, faults, stops>>

\* Mutant: the preferences of the submit start from the defaults.
SubmitLoadForgets(u) ==
    /\ submit[u].pc = "load"
    /\ submit' = [submit EXCEPT ![u].pc = "save"]
    /\ UNCHANGED <<userVars, stored, row, queueVars, settings, patches, last, chosen, crawl,
                   reverse, forward, considered, faults, stops>>
\* The match settings are carried over from the stored preferences.
SubmitLoad(u) ==
    /\ submit[u].pc = "load"
    /\ \/ Succeeds /\ submit' = [submit EXCEPT ![u].pc = "save", ![u].prefs.set = Loaded(u).set]
       \/ Fails /\ submit' = [submit EXCEPT ![u].pc = "save"]
    /\ UNCHANGED <<userVars, stored, row, queueVars, settings, patches, last, chosen, crawl,
                   reverse, forward, considered>>

\* UpdateProfilePreferences.
SubmitSave(u) ==
    LET Saved == prefs' = [prefs EXCEPT ![u] = submit[u].prefs] IN
    /\ submit[u].pc = "save"
    /\ \/ Succeeds /\ Saved
       \/ Fails /\ (Saved \/ UNCHANGED prefs)
    /\ submit' = [submit EXCEPT ![u].pc = "delete"]
    /\ UNCHANGED <<profile, chunks, stored, row, queueVars, settings, patches, last, chosen,
                   crawl, reverse, forward, considered>>

\* Mutant: nothing is deleted.
SubmitKeeps(u) ==
    /\ submit[u].pc = "delete"
    /\ submit' = [submit EXCEPT ![u].pc = "enqueue"]
    /\ UNCHANGED <<userVars, stored, row, queueVars, settings, patches, last, chosen, crawl,
                   reverse, forward, considered, faults, stops>>
\* DeletePendingJobMatches.
SubmitDelete(u) ==
    LET Done == row' = Deleted(Pending(u)) IN
    /\ submit[u].pc = "delete"
    /\ \/ Succeeds /\ Done
       \/ Fails /\ (Done \/ UNCHANGED row)
    /\ submit' = [submit EXCEPT ![u].pc = "enqueue"]
    /\ UNCHANGED <<userVars, stored, queueVars, settings, patches, last, chosen, crawl,
                   reverse, forward, considered>>

\* Mutant: no message while a worker is busy with the user.
SubmitEnqueueIdle(u) ==
    /\ submit[u].pc = "enqueue"
    /\ embedQ' = IF submit[u].complete /\ \A w \in EmbedWorker : reverse[w].user # u
                 THEN Append(embedQ, u) ELSE embedQ
    /\ submit' = [submit EXCEPT ![u] = IdleSubmit]
    /\ UNCHANGED <<userVars, stored, row, processQ, deadEmbeds, deadJobs, settings, patches,
                   last, chosen, crawl, reverse, forward, considered, faults, stops>>
\* enqueueProfileEmbed, for a profile that passes ProfileReadyForEmbed.
SubmitEnqueue(u) ==
    LET Pushed == embedQ' = Append(embedQ, u)
        PushedTwice == embedQ' = embedQ \o <<u, u>>
    IN
    /\ submit[u].pc = "enqueue"
    /\ \/ submit[u].complete /\ Succeeds /\ Pushed
       \/ submit[u].complete /\ Fails /\ (Pushed \/ UNCHANGED embedQ \/ PushedTwice)
       \/ ~submit[u].complete /\ Succeeds /\ UNCHANGED embedQ
    /\ submit' = [submit EXCEPT ![u] = IdleSubmit]
    /\ UNCHANGED <<userVars, stored, row, processQ, deadEmbeds, deadJobs, settings, patches,
                   last, chosen, crawl, reverse, forward, considered>>

\* PATCH /api/settings: LoadUserPreferences, then the new settings are put in.
PatchSettings(u) ==
    /\ settings[u].pc = "idle" /\ patches[u] < MaxPatches /\ Undisturbed(u)
    /\ patches' = [patches EXCEPT ![u] = @ + 1]
    /\ \E set \in Settings :
         \/ /\ Succeeds
            /\ settings' = [settings EXCEPT ![u].pc = "save",
                                            ![u].prefs = [Loaded(u) EXCEPT !.set = set]]
         \/ Fails /\ UNCHANGED settings
    /\ UNCHANGED <<userVars, stored, row, queueVars, submit, last, chosen, crawl, reverse,
                   forward, considered>>

SettingsGoto(u, pc, ids) ==
    settings' = [settings EXCEPT ![u] =
        IF pc = "idle" THEN IdleSettings ELSE [@ EXCEPT !.pc = pc, !.ids = ids]]
AfterTier(u) == IF settings[u].prefs.set.stretch THEN "idle" ELSE "stretch"

\* UpdateProfilePreferences.
SettingsSave(u) ==
    LET new == settings[u].prefs
        Saved == /\ prefs' = [prefs EXCEPT ![u] = new]
                 /\ chosen' = [chosen EXCEPT ![u] = new.set]
    IN
    /\ settings[u].pc = "save"
    /\ \/ /\ Succeeds /\ Saved
          /\ SettingsGoto(u, IF new.set.mode = "strong_only" THEN "tier" ELSE AfterTier(u), {})
       \/ /\ Fails /\ (Saved \/ UNCHANGED <<prefs, chosen>>)
          /\ settings' = [settings EXCEPT ![u] = IdleSettings]
    /\ UNCHANGED <<profile, chunks, stored, row, queueVars, submit, patches, last, crawl,
                   reverse, forward, considered>>

OfKind(ids, kinds) == {id \in ids : row[id[1]].kind \in kinds}

\* The SELECT of DeletePendingPromisingMatches and of DeletePendingStretchMatches.
SelectPurge(u, pc, kinds, drop, next) ==
    /\ settings[u].pc = pc
    /\ \/ Succeeds /\ SettingsGoto(u, drop, OfKind(Pending(u), kinds))
       \/ Fails /\ SettingsGoto(u, next, {})
    /\ UNCHANGED <<userVars, stored, row, queueVars, submit, patches, last, chosen, crawl,
                   reverse, forward, considered>>

\* Their DELETE, by the ids the SELECT returned.
DeletePurge(u, pc, next) ==
    LET Done == row' = Deleted(settings[u].ids) IN
    /\ settings[u].pc = pc
    /\ \/ Succeeds /\ Done
       \/ Fails /\ (Done \/ UNCHANGED row)
    /\ SettingsGoto(u, next, {})
    /\ UNCHANGED <<userVars, stored, queueVars, submit, patches, last, chosen, crawl,
                   reverse, forward, considered>>

DeletePendingPromisingMatches(u) ==
    \/ SelectPurge(u, "tier", {"promising", "stretch"}, "drop", AfterTier(u))
    \/ DeletePurge(u, "drop", AfterTier(u))

DeletePendingStretchMatches(u) ==
    \/ SelectPurge(u, "stretch", {"stretch"}, "dropStretch", "idle")
    \/ DeletePurge(u, "dropStretch", "idle")

Request(u) ==
    \/ SubmitLoad(u) \/ SubmitSave(u) \/ SubmitDelete(u) \/ SubmitEnqueue(u)
    \/ SettingsSave(u) \/ DeletePendingPromisingMatches(u) \/ DeletePendingStretchMatches(u)

-----------------------------------------------------------------------------
(* cmd/worker.  Its commands before the reverse match dead-letter the       *)
(* message when they fail; a failed reverse match is only logged.           *)

GotoReverse(w, pc) == reverse' = [reverse EXCEPT ![w].pc = pc]
EndReverse(w) == reverse' = [reverse EXCEPT ![w] = IdleReverse]
ReverseFrame == UNCHANGED <<profile, prefs, stored, processQ, deadJobs, apiVars, crawl, forward>>

\* BRPOP; when the reply is lost so is the message.
EmbedPop(w) ==
    /\ reverse[w].pc = "idle" /\ embedQ # <<>>
    /\ embedQ' = Front(embedQ)
    /\ \/ Succeeds /\ reverse' = [reverse EXCEPT ![w].pc = "read", ![w].user = Last(embedQ)]
       \/ Fails /\ UNCHANGED reverse
    /\ ReverseFrame /\ UNCHANGED <<chunks, row, deadEmbeds, considered>>

EmbedFails(w) ==
    /\ Fails /\ EndReverse(w)
    /\ deadEmbeds' = deadEmbeds \cup {reverse[w].user}

\* GetProfile: the row of now, not the one that was submitted.  An incomplete
\* one may leave nothing to embed; it is skipped or dead-lettered.
EmbedRead(w) ==
    LET u == reverse[w].user IN
    /\ reverse[w].pc = "read"
    /\ \/ /\ Succeeds /\ UNCHANGED deadEmbeds
          /\ reverse' = [reverse EXCEPT ![w].pc = "replace", ![w].text = profile[u]]
       \/ /\ Succeeds /\ ~profile[u].complete /\ EndReverse(w)
          /\ UNCHANGED deadEmbeds \/ deadEmbeds' = deadEmbeds \cup {u}
       \/ EmbedFails(w)
    /\ ReverseFrame /\ UNCHANGED <<chunks, row, embedQ, considered>>

\* The OpenAI calls and ReplaceProfileEmbeddingChunksV2, one transaction.
ReplaceChunks(w) ==
    LET Replaced == chunks' = [chunks EXCEPT ![reverse[w].user] = reverse[w].text] IN
    /\ reverse[w].pc = "replace"
    /\ \/ Succeeds /\ Replaced /\ GotoReverse(w, "prefs") /\ UNCHANGED deadEmbeds
       \/ EmbedFails(w) /\ (Replaced \/ UNCHANGED chunks)
    /\ ReverseFrame /\ UNCHANGED <<row, embedQ, considered>>

\* MatchUserToRecentJobs: LoadUserPreferences ...
ReversePrefs(w) ==
    LET u == reverse[w].user IN
    /\ reverse[w].pc = "prefs"
    /\ Overlap \/ (submit[u].pc = "idle" /\ settings[u].pc = "idle")
    /\ \/ Succeeds /\ reverse' = [reverse EXCEPT ![w].pc = "list", ![w].prefs = Loaded(u)]
       \/ Fails /\ EndReverse(w)
    /\ ReverseFrame /\ UNCHANGED <<chunks, row, embedQ, deadEmbeds, considered>>

\* Mutant: LIMIT 1.
NewestOnly(q) == IF q = <<>> THEN q ELSE <<Last(q)>>
NewestFirst(q) == [i \in 1..Len(q) |-> q[Len(q) + 1 - i]]

\* ... ListRecentJobsForUserMatch, newest first, and BEGIN ...
ReverseList(w) ==
    /\ reverse[w].pc = "list"
    /\ \/ Succeeds /\ reverse' = [reverse EXCEPT ![w].pc = "scan", ![w].todo = NewestFirst(stored)]
       \/ Fails /\ EndReverse(w)
    /\ ReverseFrame /\ UNCHANGED <<chunks, row, embedQ, deadEmbeds, considered>>

Judged(p, ver) == considered' = [considered EXCEPT ![p] = IF ver > @ THEN ver ELSE @]

\* ... one job of the loop: the gate, the score, the adjudication or a filter
\* turns it down, or the INSERT adds it to the transaction ...
ReverseScan(w) ==
    LET r == reverse[w]
        p == <<r.user, Head(r.todo)>>
        Added(kind) == IF row[p].live THEN {} ELSE {<<p, kind>>}
    IN
    /\ r.pc = "scan" /\ r.todo # <<>>
    /\ \/ /\ Succeeds /\ Judged(p, r.prefs.ver)
          /\ \/ reverse' = [reverse EXCEPT ![w].todo = Tail(@)]
             \/ /\ ~Locked(p)
                /\ \E kind \in {k \in Kind : Allowed(r.prefs.set, k)} :
                     reverse' = [reverse EXCEPT ![w].todo = Tail(@), ![w].tx = @ \cup Added(kind),
                                                ![w].found = @ \cup Returned(p)]
       \/ Fails /\ EndReverse(w) /\ UNCHANGED considered
    /\ ReverseFrame /\ UNCHANGED <<chunks, row, embedQ, deadEmbeds>>

\* ... and COMMIT.
ReverseCommit(w) ==
    LET r == reverse[w]
        kindOf(p) == CHOOSE k \in Kind : <<p, k>> \in r.tx
        Committed == row' = [p \in Pair |-> IF \E k \in Kind : <<p, k>> \in r.tx
                                            THEN Inserted(p, kindOf(p), r.prefs.ver)
                                            ELSE row[p]]
    IN
    /\ r.pc = "scan" /\ r.todo = <<>>
    /\ \/ /\ Succeeds /\ Committed
          /\ reverse' = [reverse EXCEPT ![w] = [IdleReverse EXCEPT
                !.pc = "enqueue", !.user = r.user, !.found = r.found]]
       \/ Fails /\ EndReverse(w) /\ (Committed \/ UNCHANGED row)
    /\ ReverseFrame /\ UNCHANGED <<chunks, embedQ, deadEmbeds, considered>>

\* EnqueueMatch for each new match; an error only skips that one.
ReverseEnqueue(w) ==
    /\ reverse[w].pc = "enqueue"
    /\ \/ /\ reverse[w].found = {} /\ Succeeds
          /\ EndReverse(w) /\ UNCHANGED row
       \/ \E id \in reverse[w].found :
            /\ reverse' = [reverse EXCEPT ![w].found = @ \ {id}]
            /\ \/ Succeeds /\ row' = Queued(id)
               \/ Fails /\ (row' = Queued(id) \/ UNCHANGED row \/ row' = QueuedTwice(id))
    /\ ReverseFrame /\ UNCHANGED <<chunks, embedQ, deadEmbeds, considered>>

ReverseStep(w) ==
    \/ EmbedPop(w) \/ EmbedRead(w) \/ ReplaceChunks(w) \/ ReversePrefs(w) \/ ReverseList(w)
    \/ ReverseScan(w) \/ ReverseCommit(w) \/ ReverseEnqueue(w)

-----------------------------------------------------------------------------
(* cmd/discover: InsertDiscoveredJob commits the job with its embedding,    *)
(* then EnqueueProcessJob; a job already stored is not looked at again.     *)

StoreJob(j) ==
    /\ crawl = None /\ \A i \in 1..Len(stored) : stored[i] # j
    /\ \/ Succeeds /\ stored' = Append(stored, j) /\ crawl' = j
       \/ Fails /\ stored' = Append(stored, j) /\ UNCHANGED crawl
    /\ UNCHANGED <<userVars, row, queueVars, apiVars, reverse, forward, considered>>

EnqueueProcessJob ==
    LET Pushed == processQ' = Append(processQ, crawl)
        PushedTwice == processQ' = processQ \o <<crawl, crawl>>
    IN
    /\ crawl # None
    /\ \/ Succeeds /\ Pushed
       \/ Fails /\ (Pushed \/ UNCHANGED processQ \/ PushedTwice)
    /\ crawl' = None
    /\ UNCHANGED <<userVars, stored, row, embedQ, deadEmbeds, deadJobs, apiVars, reverse,
                   forward, considered>>

-----------------------------------------------------------------------------
(* The process-job half of cmd/jobworker: ProcessJob and MatchJobToUsers.   *)
(* Any error dead-letters the job and forgets the matches made so far.      *)

EndForward(w) == forward' = [forward EXCEPT ![w] = IdleForward]
ForwardFrame == UNCHANGED <<userVars, stored, embedQ, deadEmbeds, apiVars, crawl, reverse>>

ForwardPop(w) ==
    /\ forward[w].pc = "idle" /\ processQ # <<>>
    /\ processQ' = Front(processQ)
    /\ \/ Succeeds /\ forward' = [forward EXCEPT ![w].pc = "list", ![w].job = Last(processQ)]
       \/ Fails /\ UNCHANGED forward
    /\ ForwardFrame /\ UNCHANGED <<row, deadJobs, considered>>

ForwardFails(w) ==
    /\ Fails /\ EndForward(w)
    /\ deadJobs' = deadJobs \cup {forward[w].job}

\* ListUsersForMatching: everyone with embedded chunks, and their preferences.
ForwardList(w) ==
    LET users == {u \in User : chunks[u].ver > 0} IN
    /\ forward[w].pc = "list"
    /\ Overlap \/ \A u \in users : submit[u].pc = "idle" /\ settings[u].pc = "idle"
    /\ \/ /\ Succeeds /\ UNCHANGED deadJobs
          /\ forward' = [forward EXCEPT ![w].pc = "scan", ![w].todo = users,
                ![w].prefs = [u \in User |-> IF u \in users THEN Loaded(u) ELSE NoPrefs]]
       \/ ForwardFails(w)
    /\ ForwardFrame /\ UNCHANGED <<row, processQ, considered>>

\* One user of the loop; its INSERT commits at once.
ForwardScan(w) ==
    LET f == forward[w] IN
    /\ f.pc = "scan"
    /\ \E u \in f.todo :
         LET p == <<u, f.job>>
             Rest == [f EXCEPT !.todo = @ \ {u}, !.prefs[u] = NoPrefs]
             Added == /\ ~Locked(p)
                      /\ \E kind \in {k \in Kind : Allowed(f.prefs[u].set, k)} :
                           row' = [row EXCEPT ![p] = Inserted(p, kind, f.prefs[u].ver)]
         IN
         \/ /\ Succeeds /\ Judged(p, f.prefs[u].ver) /\ UNCHANGED deadJobs
            /\ \/ forward' = [forward EXCEPT ![w] = Rest] /\ UNCHANGED row
               \/ /\ Added
                  /\ forward' = [forward EXCEPT ![w] = [Rest EXCEPT !.found = @ \cup Returned(p)]]
         \/ /\ ForwardFails(w) /\ UNCHANGED considered
            /\ UNCHANGED row \/ Added
    /\ ForwardFrame /\ UNCHANGED processQ

\* EnqueueMatch for each new match; the first error ends the loop.
ForwardEnqueue(w) ==
    /\ forward[w].pc = "scan" /\ forward[w].todo = {}
    /\ \/ forward[w].found = {} /\ Succeeds /\ EndForward(w) /\ UNCHANGED <<row, deadJobs>>
       \/ \E id \in forward[w].found :
            \/ /\ \/ Succeeds /\ row' = Queued(id)
                  \/ Fails /\ row' = QueuedTwice(id)
               /\ UNCHANGED deadJobs
               /\ forward' = [forward EXCEPT ![w].found = @ \ {id}]
            \/ ForwardFails(w) /\ (row' = Queued(id) \/ UNCHANGED row)
    /\ ForwardFrame /\ UNCHANGED <<processQ, considered>>

ForwardStep(w) == ForwardPop(w) \/ ForwardList(w) \/ ForwardScan(w) \/ ForwardEnqueue(w)

-----------------------------------------------------------------------------
(* The tailor worker, seen from here, and crashes.                          *)

\* handleMatch, which TailorWorker details: a queued match gets an application.
Tailor(p) ==
    /\ row[p].live /\ row[p].queued > 0 /\ ~row[p].app
    /\ row' = [row EXCEPT ![p].app = TRUE]
    /\ UNCHANGED <<userVars, stored, queueVars, apiVars, crawl, reverse, forward, considered,
                   faults, stops>>

\* A process dies with what it was doing; an open transaction rolls back.
Crash ==
    /\ stops < MaxStops /\ stops' = stops + 1
    /\ \/ \E w \in EmbedWorker : reverse[w].pc # "idle" /\ EndReverse(w)
                                 /\ UNCHANGED <<forward, crawl, submit, settings>>
       \/ \E w \in JobWorker : forward[w].pc # "idle" /\ EndForward(w)
                               /\ UNCHANGED <<reverse, crawl, submit, settings>>
       \/ crawl # None /\ crawl' = None /\ UNCHANGED <<reverse, forward, submit, settings>>
       \/ /\ submit' = [u \in User |-> IdleSubmit]
          /\ settings' = [u \in User |-> IdleSettings]
          /\ UNCHANGED <<reverse, forward, crawl>>
    /\ UNCHANGED <<userVars, stored, row, queueVars, patches, last, chosen, considered, faults>>

Next ==
    \/ \E u \in User : SaveDraft(u) \/ SubmitProfile(u) \/ PatchSettings(u) \/ Request(u)
    \/ \E w \in EmbedWorker : ReverseStep(w)
    \/ \E w \in JobWorker : ForwardStep(w)
    \/ \E j \in Job : StoreJob(j)
    \/ EnqueueProcessJob
    \/ \E p \in Pair : Tailor(p)
    \/ Crash

Spec == Init /\ [][Next]_vars

(* A request, a crawl and a live worker keep going; nobody must submit.     *)
Fairness ==
    /\ \A u \in User : WF_vars(Request(u))
    /\ \A w \in EmbedWorker : WF_vars(ReverseStep(w))
    /\ \A w \in JobWorker : WF_vars(ForwardStep(w))
    /\ WF_vars(EnqueueProcessJob)

FairSpec == Spec /\ Fairness

-----------------------------------------------------------------------------
Quiet ==
    /\ embedQ = <<>> /\ processQ = <<>> /\ crawl = None
    /\ \A u \in User : submit[u].pc = "idle" /\ settings[u].pc = "idle"
    /\ \A w \in EmbedWorker : reverse[w].pc = "idle"
    /\ \A w \in JobWorker : forward[w].pc = "idle"
Undamaged == faults = 0 /\ stops = 0

\* A match row is queued for tailoring at most once, and once more for a lost
\* reply, whichever matchers judged its pair, in whatever order, and whatever
\* failed: ON CONFLICT DO NOTHING RETURNING id gives the id to one INSERT only.
QueuedOnce == \A p \in Pair : row[p].queued <= 1 + faults

\* Without a fault every match row has been queued when the work is done.
NoOrphanMatch == Quiet /\ Undamaged => \A p \in Pair : row[p].live => row[p].queued = 1

\* A user and a job never miss each other: chunks are written before the jobs
\* are listed, and a job is stored before the users are, so when the work is
\* done a matcher has judged every pair of an embedded user and a stored job
\* with the preferences of the user's last complete submit, if the profile has
\* been complete ever since.
NoPairMissed ==
    Quiet /\ Undamaged =>
        \A u \in User, i \in 1..Len(stored) :
            chunks[u].ver > 0 => considered[<<u, stored[i]>>] >= last[u]

\* When the work is done and nothing failed, the database and the match queue
\* lack nothing: neither a push nor a verdict.
NothingMissed == TypeOK /\ NoOrphanMatch /\ NoPairMissed

\* A pending match was made with the preferences of the profile in force and is
\* of a kind the user's settings allow, after any sequence of submits and
\* settings changes that do not overlap a matcher.
PendingIsCurrent ==
    Quiet /\ Undamaged =>
        \A p \in Pair : row[p].live /\ ~row[p].app =>
            row[p].ver = prefs[p[1]].ver /\ Allowed(prefs[p[1]].set, row[p].kind)

\* A profile submit carries the match settings over: they stay the ones the
\* user chose last.
SettingsKept ==
    \A u \in User : submit[u].pc = "idle" /\ settings[u].pc = "idle" /\ Undamaged
                    => prefs[u].set = chosen[u]

\* The chunks catch up with the last complete submit, although the queue is
\* last-in first-out, its messages do not say which profile they are about and
\* a worker may be busy with an older one; unless an incomplete draft or submit
\* takes the profile's place.
SubmitIsEmbedded == []<>(\A u \in User : chunks[u].ver >= last[u])
=============================================================================
