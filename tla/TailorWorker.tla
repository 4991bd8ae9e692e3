---------------------------- MODULE TailorWorker ----------------------------
(***************************************************************************)
(* The tailoring half of cmd/jobworker: worker processes pop match ids     *)
(* from a Redis list, claim a job_runs row, take a Redis lock, tailor the  *)
(* match and replace its tailored_applications row, retrying a failed run  *)
(* until MaxAttempts and then dead-lettering it.  Every Postgres or Redis  *)
(* command is one action, because that is where two workers, the settings  *)
(* handlers, a crash or a SIGTERM can come between.                        *)
(***************************************************************************)
EXTENDS Integers, Sequences, FiniteSets

CONSTANTS
    MatchId,           \* ids a job_matches row may get
    Worker,            \* jobworker instances
    NoMatch,           \* "this worker handles no message"
    Promising,         \* matches a settings change would purge
    MaxAttempts,       \* jobs.MaxAttempts (3 in the code)
    LockOutlivesRun,   \* TRUE: no tailor run takes longer than the lock's TTL
    Resends,           \* TRUE: the Redis client repeats a command whose reply was lost
    MaxSends,          \* bound: times a match is enqueued from outside
    MaxFaults,         \* bound: Postgres, Redis or network errors
    MaxStops           \* bound: crashes and SIGTERMs

ASSUME TailorAssumption ==
    /\ NoMatch \notin MatchId
    /\ Promising \subseteq MatchId
    /\ MaxAttempts \in Nat \ {0}
    /\ LockOutlivesRun \in BOOLEAN /\ Resends \in BOOLEAN
    /\ MaxSends \in Nat /\ MaxFaults \in Nat /\ MaxStops \in Nat

VARIABLES
    queue,   \* Redis list prismapply:match:new, RPUSHed and BRPOPped at its end
    dlq,     \* match ids LPUSHed to prismapply:jobs:dlq
    row,     \* the job_matches row of each id
    app,     \* number of tailored_applications rows of each match
    sent,    \* matches with an application the user marked as sent
    run,     \* the job_runs row with idempotency key tailor:<id>
    lock,    \* ids whose Redis key job:tailor:<id> exists
    pc,      \* the next command of each worker
    cur,     \* the match a worker handles
    tries,   \* what GetRunAttempts returned to a worker
    ctx,     \* a worker's signal context
    purge,   \* ids a settings handler has selected and not yet deleted
    sends,   \* how often each id was enqueued from outside the worker
    tried,   \* how often TailorMatch was started for each id
    faults, stops

workerVars == <<pc, cur, tries, ctx>>
redisVars  == <<queue, dlq, lock>>
dbVars     == <<row, app, sent, run>>
boundVars  == <<sends, tried, faults, stops>>
vars == <<workerVars, redisVars, dbVars, purge, boundVars>>

RunStatus == {"none", "running", "completed", "failed"}
Pc == {"down", "idle", "begin", "create", "update", "lock", "fetch",
       "pipeline", "clear", "insert", "complete",
       "unlock", "count", "fail", "retry", "bury"}

\* Between a successful SETNX and the command that ends the run or drops the lock.
Holding  == {"fetch", "pipeline", "clear", "insert", "complete", "unlock"}

WorkerTypeOK ==
    /\ pc \in [Worker -> Pc]
    /\ cur \in [Worker -> MatchId \cup {NoMatch}]
    /\ \A w \in Worker : cur[w] = NoMatch <=> pc[w] \in {"down", "idle"}
    /\ tries \in [Worker -> Nat]
    /\ ctx \in [Worker -> {"live", "cut", "gone"}]

RedisTypeOK == queue \in Seq(MatchId) /\ dlq \subseteq MatchId /\ lock \subseteq MatchId

DbTypeOK ==
    /\ row \in [MatchId -> {"absent", "live", "deleted"}]
    /\ app \in [MatchId -> Nat]
    /\ sent \subseteq MatchId
    /\ run \in [MatchId -> [status : RunStatus, attempts : Nat]]
    /\ purge \subseteq MatchId

BoundTypeOK ==
    /\ sends \in [MatchId -> Nat] /\ tried \in [MatchId -> Nat]
    /\ faults \in Nat /\ stops \in Nat

TypeOK == WorkerTypeOK /\ RedisTypeOK /\ DbTypeOK /\ BoundTypeOK

Init ==
    /\ queue = <<>>
    /\ dlq = {}
    /\ row = [m \in MatchId |-> "absent"]
    /\ app = [m \in MatchId |-> 0]
    /\ sent = {}
    /\ run = [m \in MatchId |-> [status |-> "none", attempts |-> 0]]
    /\ lock = {}
    /\ pc = [w \in Worker |-> "idle"]
    /\ cur = [w \in Worker |-> NoMatch]
    /\ tries = [w \in Worker |-> 0]
    /\ ctx = [w \in Worker |-> "live"]
    /\ purge = {}
    /\ sends = [m \in MatchId |-> 0]
    /\ tried = [m \in MatchId |-> 0]
    /\ faults = 0
    /\ stops = 0

-----------------------------------------------------------------------------
(* One remote command of a worker.  With a live context it succeeds, or a   *)
(* fault makes it fail; once the context is cancelled it fails.  A command  *)
(* that failed may still have been carried out (its reply was lost), except *)
(* one issued after the cancellation: that one is never sent.               *)

Succeeds(w) == ctx[w] = "live" /\ UNCHANGED <<ctx, faults>>

Fails(w) ==
    \/ /\ ctx[w] = "live" /\ faults < MaxFaults
       /\ faults' = faults + 1
       /\ UNCHANGED ctx
    \/ /\ ctx[w] # "live"
       /\ ctx' = [ctx EXCEPT ![w] = "gone"]
       /\ UNCHANGED faults

Landed(w) == ctx[w] # "gone"

\* A Redis command was carried out and its reply lost: it is issued once more.
\* (The other Redis commands of the worker do nothing more the second time.)
Repeats(w) == Resends /\ ctx[w] = "live" /\ Fails(w) /\ UNCHANGED <<pc, cur>>

\* Mutant: the handler returns without forgetting its message.
FinishKeepsMatch(w) == pc' = [pc EXCEPT ![w] = "idle"] /\ UNCHANGED cur
Goto(w, label) == pc' = [pc EXCEPT ![w] = label] /\ UNCHANGED cur
Finish(w) == /\ pc' = [pc EXCEPT ![w] = "idle"]
             /\ cur' = [cur EXCEPT ![w] = NoMatch]

\* Mutant: SET instead of SETNX.
AlwaysAcquirable(m) == TRUE
\* TryLockTailor's SETNX returns true.
Acquirable(m) == m \notin lock
\* Mutant: off by one.
ShouldRetryOnceMore(attempts) == attempts <= MaxAttempts
\* attempts < MaxAttempts
ShouldRetry(attempts) == attempts < MaxAttempts

-----------------------------------------------------------------------------
(* The worker loop and BeginRun.                                            *)

\* Mutant: the message is read but not removed.
Peeked(q) == q
\* The list after a BRPOP.
Popped(q) == SubSeq(q, 1, Len(q) - 1)

\* BRPOP takes the end of the list that RPUSH appends to.  A pop whose reply
\* is lost has still removed the message.
Pop(w) ==
    /\ pc[w] = "idle" /\ queue # <<>>
    /\ queue' = Popped(queue)
    /\ \/ /\ Succeeds(w)
          /\ pc' = [pc EXCEPT ![w] = "begin"]
          /\ cur' = [cur EXCEPT ![w] = queue[Len(queue)]]
       \/ /\ Fails(w) /\ Landed(w)
          /\ UNCHANGED <<pc, cur>>
    /\ UNCHANGED <<tries, dlq, lock, dbVars, purge, sends, tried, stops>>

\* BeginRun's SELECT: a completed run drops the message, no row leads to the
\* INSERT, any other row to the UPDATE.
BeginRun(w) ==
    /\ pc[w] = "begin"
    /\ \/ /\ Succeeds(w)
          /\ \/ run[cur[w]].status = "completed" /\ Finish(w)
             \/ run[cur[w]].status = "none" /\ Goto(w, "create")
             \/ run[cur[w]].status \in {"running", "failed"} /\ Goto(w, "update")
       \/ Fails(w) /\ Finish(w)
    /\ UNCHANGED <<tries, redisVars, dbVars, purge, sends, tried, stops>>

\* BeginRun's INSERT: the unique index on idempotency_key refuses it when
\* another worker inserted the row since the SELECT.
CreateRun(w) ==
    LET m == cur[w]
        Inserted == run' = [run EXCEPT ![m] = [status |-> "running", attempts |-> 1]]
    IN
    /\ pc[w] = "create"
    /\ \/ /\ run[m].status = "none"
          /\ Succeeds(w) /\ Inserted /\ Goto(w, "lock")
       \/ /\ run[m].status # "none"
          /\ Succeeds(w) /\ UNCHANGED run /\ Finish(w)
       \/ /\ Fails(w) /\ Finish(w)
          /\ \/ UNCHANGED run
             \/ Landed(w) /\ run[m].status = "none" /\ Inserted
    /\ UNCHANGED <<tries, redisVars, row, app, sent, purge, sends, tried, stops>>

\* BeginRun's UPDATE: it names the row by id alone, so it also turns a run
\* that was completed since the SELECT back into a running one.
UpdateRun(w) ==
    LET m == cur[w]
        Claimed == run' = [run EXCEPT ![m].status = "running",
                                      ![m].attempts = @ + 1]
    IN
    /\ pc[w] = "update"
    /\ \/ Succeeds(w) /\ Claimed /\ Goto(w, "lock")
       \/ /\ Fails(w) /\ Finish(w)
          /\ UNCHANGED run \/ (Landed(w) /\ Claimed)
    /\ UNCHANGED <<tries, redisVars, row, app, sent, purge, sends, tried, stops>>

\* TryLockTailor; not getting the lock, or an error, drops the message.
TryLock(w) ==
    LET m == cur[w] IN
    /\ pc[w] = "lock"
    /\ \/ /\ Succeeds(w) /\ Acquirable(m)
          /\ lock' = lock \cup {m} /\ tried' = [tried EXCEPT ![m] = @ + 1]
          /\ Goto(w, "fetch")
       \/ /\ Succeeds(w) /\ ~Acquirable(m)
          /\ UNCHANGED <<lock, tried>> /\ Finish(w)
       \/ /\ Fails(w) /\ UNCHANGED tried /\ Finish(w)
          /\ UNCHANGED lock \/ (Landed(w) /\ lock' = lock \cup {m})
    /\ UNCHANGED <<tries, queue, dlq, dbVars, purge, sends, stops>>

-----------------------------------------------------------------------------
(* TailorMatch and insertTailoredApplication.                               *)

\* fetchTailorInput, loadUserPreferences and the gate: a deleted match always
\* fails; a live one may too (the gate reads the preferences of now).
Fetch(w) ==
    /\ pc[w] = "fetch"
    /\ \/ Succeeds(w) /\ row[cur[w]] = "live" /\ Goto(w, "pipeline")
       \/ Succeeds(w) /\ Goto(w, "unlock")
       \/ Fails(w) /\ Goto(w, "unlock")
    /\ UNCHANGED <<tries, redisVars, dbVars, purge, sends, tried, stops>>

\* Mutant: handleMatch does not look at TailorMatch's error.
PipelineErrorSwallowed(w) ==
    /\ pc[w] = "pipeline"
    /\ ctx' = IF ctx[w] = "cut" THEN [ctx EXCEPT ![w] = "gone"] ELSE ctx
    /\ Goto(w, "clear") \/ Goto(w, "complete")
    /\ UNCHANGED <<tries, redisVars, dbVars, purge, boundVars>>
\* RunPipeline, the PDFs and their upload.  The LLM may fail the run; the
\* rendering and the upload ignore the context, so a cancellation that
\* arrives during them is only noticed by the next command.
Pipeline(w) ==
    /\ pc[w] = "pipeline"
    /\ ctx' = IF ctx[w] = "cut" THEN [ctx EXCEPT ![w] = "gone"] ELSE ctx
    /\ Goto(w, "clear") \/ Goto(w, "unlock")
    /\ UNCHANGED <<tries, redisVars, dbVars, purge, boundVars>>

\* Mutant: an error of the DELETE is ignored.
ClearApplicationIgnored(w) ==
    LET m == cur[w] IN
    /\ pc[w] = "clear"
    /\ Goto(w, "insert")
    /\ \/ Succeeds(w) /\ app' = [app EXCEPT ![m] = 0] /\ sent' = sent \ {m}
       \/ Fails(w) /\ UNCHANGED <<app, sent>>
    /\ UNCHANGED <<tries, redisVars, row, run, purge, sends, tried, stops>>
\* DELETE FROM tailored_applications WHERE match_id = m, not in a transaction
\* with the INSERT that follows.
ClearApplication(w) ==
    LET m == cur[w]
        Cleared == app' = [app EXCEPT ![m] = 0] /\ sent' = sent \ {m}
    IN
    /\ pc[w] = "clear"
    /\ \/ Succeeds(w) /\ Cleared /\ Goto(w, "insert")
       \/ /\ Fails(w) /\ Goto(w, "unlock")
          /\ UNCHANGED <<app, sent>> \/ (Landed(w) /\ Cleared)
    /\ UNCHANGED <<tries, redisVars, row, run, purge, sends, tried, stops>>

\* INSERT INTO tailored_applications; the foreign key refuses it once the
\* match row is gone.  No unique index keeps a second row out.
InsertApplication(w) ==
    LET m == cur[w]
        Inserted == row[m] = "live" /\ app' = [app EXCEPT ![m] = @ + 1]
    IN
    /\ pc[w] = "insert"
    /\ \/ Succeeds(w) /\ Inserted /\ Goto(w, "complete")
       \/ Succeeds(w) /\ row[m] # "live" /\ UNCHANGED app /\ Goto(w, "unlock")
       \/ /\ Fails(w) /\ Goto(w, "unlock")
          /\ UNCHANGED app \/ (Landed(w) /\ Inserted)
    /\ UNCHANGED <<tries, redisVars, row, sent, run, purge, sends, tried, stops>>

-----------------------------------------------------------------------------
(* The end of handleMatch.  Every error here is ignored.                    *)

\* Mutant: an error of CompleteRun is treated like one of TailorMatch.
CompleteRunChecked(w) ==
    LET Completed == run' = [run EXCEPT ![cur[w]].status = "completed"] IN
    /\ pc[w] = "complete"
    /\ \/ Succeeds(w) /\ Completed /\ Finish(w)
       \/ Fails(w) /\ (UNCHANGED run \/ (Landed(w) /\ Completed)) /\ Goto(w, "unlock")
    /\ UNCHANGED <<tries, redisVars, row, app, sent, purge, sends, tried, stops>>
\* CompleteRun.  The lock is left to expire.
CompleteRun(w) ==
    LET Completed == run' = [run EXCEPT ![cur[w]].status = "completed"] IN
    /\ pc[w] = "complete"
    /\ \/ Succeeds(w) /\ Completed
       \/ Fails(w) /\ (UNCHANGED run \/ (Landed(w) /\ Completed))
    /\ Finish(w)
    /\ UNCHANGED <<tries, redisVars, row, app, sent, purge, sends, tried, stops>>

\* Mutant: the failure path forgets the lock.
UnlockForgotten(w) ==
    /\ pc[w] = "unlock"
    /\ Succeeds(w) \/ Fails(w)
    /\ Goto(w, "count")
    /\ UNCHANGED <<tries, redisVars, dbVars, purge, sends, tried, stops>>
\* UnlockTailor deletes the key, whoever set it.
Unlock(w) ==
    LET Released == lock' = lock \ {cur[w]} IN
    /\ pc[w] = "unlock"
    /\ \/ Succeeds(w) /\ Released /\ Goto(w, "count")
       \/ Fails(w) /\ (UNCHANGED lock \/ (Landed(w) /\ Released)) /\ Goto(w, "count")
       \/ Repeats(w) /\ Released
    /\ UNCHANGED <<tries, queue, dlq, dbVars, purge, sends, tried, stops>>

\* GetRunAttempts; an error counts as zero attempts.
CountAttempts(w) ==
    /\ pc[w] = "count"
    /\ \/ Succeeds(w) /\ tries' = [tries EXCEPT ![w] = run[cur[w]].attempts]
       \/ Fails(w) /\ tries' = [tries EXCEPT ![w] = 0]
    /\ Goto(w, "fail")
    /\ UNCHANGED <<redisVars, dbVars, purge, sends, tried, stops>>

\* FailRun overwrites whatever status the row has by now.
FailRun(w) ==
    LET Failed == run' = [run EXCEPT ![cur[w]].status = "failed"] IN
    /\ pc[w] = "fail"
    /\ \/ Succeeds(w) /\ Failed
       \/ Fails(w) /\ (UNCHANGED run \/ (Landed(w) /\ Failed))
    /\ Goto(w, IF ShouldRetry(tries[w]) THEN "retry" ELSE "bury")
    /\ tries' = [tries EXCEPT ![w] = 0]
    /\ UNCHANGED <<redisVars, row, app, sent, purge, sends, tried, stops>>

\* Mutant: the retry is pushed with a context of its own, which SIGTERM spares.
RetryInBackground(w) ==
    /\ pc[w] = "retry"
    /\ queue' = Append(queue, cur[w])
    /\ Finish(w)
    /\ UNCHANGED <<ctx, tries, dlq, lock, dbVars, purge, boundVars>>
\* Sleep for Backoff, then EnqueueMatch.
Retry(w) ==
    LET Pushed == queue' = Append(queue, cur[w]) IN
    /\ pc[w] = "retry"
    /\ \/ Succeeds(w) /\ Pushed /\ Finish(w)
       \/ Fails(w) /\ (UNCHANGED queue \/ (Landed(w) /\ Pushed)) /\ Finish(w)
       \/ Repeats(w) /\ Pushed
    /\ UNCHANGED <<tries, dlq, lock, dbVars, purge, sends, tried, stops>>

\* PushDLQ.
Bury(w) ==
    LET Buried == dlq' = dlq \cup {cur[w]} IN
    /\ pc[w] = "bury"
    /\ \/ Succeeds(w) /\ Buried
       \/ Fails(w) /\ (UNCHANGED dlq \/ (Landed(w) /\ Buried))
    /\ Finish(w)
    /\ UNCHANGED <<tries, queue, lock, dbVars, purge, sends, tried, stops>>

WorkerStep(w) ==
    \/ Pop(w) \/ BeginRun(w) \/ CreateRun(w) \/ UpdateRun(w) \/ TryLock(w)
    \/ Fetch(w) \/ Pipeline(w) \/ ClearApplication(w) \/ InsertApplication(w)
    \/ CompleteRun(w) \/ Unlock(w) \/ CountAttempts(w) \/ FailRun(w)
    \/ Retry(w) \/ Bury(w)

-----------------------------------------------------------------------------
(* Stops and the lock's TTL.                                                *)

\* SIGTERM cancels the context a running handler uses.
Terminate(w) ==
    /\ pc[w] # "down" /\ ctx[w] = "live" /\ stops < MaxStops
    /\ ctx' = [ctx EXCEPT ![w] = "cut"]
    /\ stops' = stops + 1
    /\ UNCHANGED <<pc, cur, tries, redisVars, dbVars, purge, sends, tried, faults>>

\* The loop notices the cancelled context only between two messages.
Exit(w) ==
    /\ pc[w] = "idle" /\ ctx[w] # "live"
    /\ pc' = [pc EXCEPT ![w] = "down"]
    /\ UNCHANGED <<cur, tries, ctx, redisVars, dbVars, purge, boundVars>>

\* The process dies: the message it had popped exists nowhere else.
Crash(w) ==
    /\ pc[w] # "down" /\ stops < MaxStops
    /\ pc' = [pc EXCEPT ![w] = "down"]
    /\ cur' = [cur EXCEPT ![w] = NoMatch]
    /\ tries' = [tries EXCEPT ![w] = 0]
    /\ stops' = stops + 1
    /\ UNCHANGED <<ctx, redisVars, dbVars, purge, sends, tried, faults>>

Restart(w) ==
    /\ pc[w] = "down"
    /\ pc' = [pc EXCEPT ![w] = "idle"]
    /\ ctx' = [ctx EXCEPT ![w] = "live"]
    /\ UNCHANGED <<cur, tries, redisVars, dbVars, purge, boundVars>>

Held(m) == \E w \in Worker : cur[w] = m /\ pc[w] \in Holding

\* The 30 minute TTL of the lock runs out.
ExpireLock(m) ==
    /\ m \in lock
    /\ LockOutlivesRun => ~Held(m)
    /\ lock' = lock \ {m}
    /\ UNCHANGED <<queue, dlq, workerVars, dbVars, purge, boundVars>>

-----------------------------------------------------------------------------
(* The rest of the system, as far as it touches these rows and the list.    *)

\* The matcher inserts the row ...
CreateMatch(m) ==
    /\ row[m] = "absent"
    /\ row' = [row EXCEPT ![m] = "live"]
    /\ UNCHANGED <<workerVars, redisVars, app, sent, run, purge, boundVars>>

\* ... and enqueues it in a later step; cmd/enqueue-match enqueues it again.
EnqueueMatch(m) ==
    /\ row[m] # "absent" /\ sends[m] < MaxSends
    /\ sends' = [sends EXCEPT ![m] = @ + 1]
    /\ queue' = Append(queue, m)
    /\ UNCHANGED <<workerVars, dlq, lock, dbVars, purge, tried, faults, stops>>

\* Matches with no tailored application; all rows have status 'pending'.
PendingMatches == {m \in MatchId : row[m] = "live" /\ app[m] = 0}

\* Deleting match rows cascades to their applications.
DeleteRows(S) ==
    /\ row' = [m \in MatchId |-> IF m \in S /\ row[m] = "live" THEN "deleted" ELSE row[m]]
    /\ app' = [m \in MatchId |-> IF m \in S THEN 0 ELSE app[m]]
    /\ sent' = sent \ S

\* DeletePendingJobMatches of a profile submit: one statement.
SubmitProfile ==
    /\ PendingMatches # {}
    /\ DeleteRows(PendingMatches)
    /\ UNCHANGED <<workerVars, redisVars, run, purge, boundVars>>

\* DeletePendingPromisingMatches: a SELECT ...
SelectPurge ==
    /\ purge = {}
    /\ purge' = PendingMatches \cap Promising
    /\ purge' # {}
    /\ UNCHANGED <<workerVars, redisVars, dbVars, boundVars>>

\* ... and a later DELETE of the ids it returned.
DeletePurge ==
    /\ purge # {}
    /\ DeleteRows(purge)
    /\ purge' = {}
    /\ UNCHANGED <<workerVars, redisVars, run, boundVars>>

\* The user marks an application as sent, or takes the mark back.
MarkSent(m) ==
    /\ app[m] > 0 /\ m \notin sent
    /\ sent' = sent \cup {m}
    /\ UNCHANGED <<workerVars, redisVars, row, app, run, purge, boundVars>>

UnmarkSent(m) ==
    /\ m \in sent
    /\ sent' = sent \ {m}
    /\ UNCHANGED <<workerVars, redisVars, row, app, run, purge, boundVars>>

Environment ==
    \/ \E m \in MatchId : \/ CreateMatch(m) \/ EnqueueMatch(m)
                          \/ MarkSent(m) \/ UnmarkSent(m)
    \/ SubmitProfile \/ SelectPurge \/ DeletePurge

Next ==
    \/ \E w \in Worker : \/ WorkerStep(w)
                         \/ Terminate(w) \/ Exit(w) \/ Crash(w) \/ Restart(w)
    \/ \E m \in MatchId : ExpireLock(m)
    \/ Environment

Spec == Init /\ [][Next]_vars

(* A live worker keeps going, a TTL runs out, a stopped process is started  *)
(* again; nothing makes a user or a matcher act.                            *)
Fairness ==
    /\ \A w \in Worker : WF_vars(WorkerStep(w)) /\ WF_vars(Exit(w)) /\ WF_vars(Restart(w))
    /\ \A m \in MatchId : WF_vars(ExpireLock(m))

FairSpec == Spec /\ Fairness

-----------------------------------------------------------------------------
(* Safety.                                                                  *)

\* The tailor lock works: no two workers are inside TailorMatch, or on the
\* way from it to UnlockTailor, for the same match.
OneTailorer ==
    \A v, w \in Worker :
        v # w /\ pc[v] \in Holding /\ pc[w] \in Holding => cur[v] # cur[w]

\* The DELETE and INSERT of insertTailoredApplication, which no transaction
\* joins and no unique index guards, never leave a match with two applications.
AtMostOneApplication == \A m \in MatchId : app[m] <= 1

\* Why the two hold: a worker in TailorMatch is the one that set the lock, and
\* its INSERT finds the rows its DELETE removed still gone.  Inductive with
\* TypeOK if the lock outlives the run.
LockInv ==
    /\ OneTailorer
    /\ \A w \in Worker : pc[w] \in Holding => cur[w] \in lock
    /\ \A w \in Worker : pc[w] = "insert" => app[cur[w]] = 0
    /\ AtMostOneApplication

\* A match is handed to TailorMatch at most MaxAttempts times, and once more
\* for every further time it was enqueued and every fault that hid its count.
RetryBudget ==
    \A m \in MatchId : tried[m] > 0 => tried[m] < MaxAttempts + sends[m] + faults

\* What handleMatch holds of m: its queue positions and the workers busy with it.
Copies(m) == Cardinality({i \in 1..Len(queue) : queue[i] = m})
             + Cardinality({w \in Worker : cur[w] = m})

\* A retry never multiplies a message: there are at most as many copies of it
\* as were enqueued from outside, and one more for each push the client repeats.
NoExtraCopies ==
    \A m \in MatchId : Copies(m) <= sends[m] + (IF Resends THEN faults ELSE 0)

\* Enqueued from outside no more than once; its retries are not counted.  With a
\* second delivery the properties below fail: BeginRun claims the run row
\* before the lock is known to be free.
SentOnce(m) == sends[m] <= 1

\* Nothing delivered once is dead-lettered before TailorMatch had MaxAttempts
\* tries at it.
DeadLetterIsExhausted == \A m \in dlq : SentOnce(m) => tried[m] >= MaxAttempts

\* A run recorded as completed has its application, unless the match is gone or
\* was delivered twice.
CompletedHasApplication ==
    \A m \in MatchId :
        run[m].status = "completed" /\ row[m] = "live" /\ SentOnce(m) => app[m] = 1

\* How a match's tailoring is recorded to have ended, in Postgres or among the
\* dead letters, is how it ended, whatever reply was lost or worker stopped.
OutcomesAreTrue == DeadLetterIsExhausted /\ CompletedHasApplication

\* A match is being tailored while some worker holds it.
Tailoring == {cur[w] : w \in {v \in Worker : pc[v] \in Holding}}

\* The workers implement TailorService: seen through Tailoring, every command,
\* crash and delete is one of its steps or none.
Service == INSTANCE TailorService WITH tailoring <- Tailoring
ImplementsService == Service!Spec

(* What a step may never do.                                                *)

\* The completed run of a match delivered once stays completed.
CompletedIsFinal ==
    [][\A m \in MatchId : run[m].status = "completed" /\ SentOnce(m)
                           => run'[m].status = "completed"]_vars

\* Without a lost reply or a second delivery, an application the user could see
\* stays there until its match is deleted: SIGTERM causes no second tailoring.
\* And its match is never deleted as "pending", unless a settings change selected
\* it before it had an application.
ApplicationsStay ==
    [][\A m \in MatchId : app[m] > 0 =>
         /\ faults = 0 /\ SentOnce(m) => app'[m] > 0 \/ row'[m] = "deleted"
         /\ row'[m] = "deleted" => m \in purge]_vars

(* Liveness.                                                                *)

Queued(m) == \E i \in 1..Len(queue) : queue[i] = m
Served(m) == app[m] > 0 \/ m \in dlq \/ row[m] = "deleted"

\* A message in the list ends in an application or in the dead letters,
\* unless its match is deleted or a fault occurs, however the workers' steps
\* interleave.
QueuedMatchIsServed == \A m \in MatchId : Queued(m) ~> (Served(m) \/ faults > 0)
=============================================================================
