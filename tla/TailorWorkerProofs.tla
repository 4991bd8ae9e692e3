------------------------- MODULE TailorWorkerProofs -------------------------
(***************************************************************************)
(* Theorems about TailorWorker for any number of workers and matches.      *)
(***************************************************************************)
EXTENDS TailorWorker, FiniteSetTheorems, SequenceTheorems, TLAPS

\* A busy worker handles a match.
LEMMA BusyMatch ==
    ASSUME WorkerTypeOK, NEW w \in Worker, pc[w] \notin {"down", "idle"}
    PROVE  cur[w] \in MatchId
BY DEF WorkerTypeOK

\* Goto moves a busy worker to another busy step.
LEMMA GotoType ==
    ASSUME WorkerTypeOK, NEW w \in Worker, NEW l \in Pc \ {"down", "idle"},
           pc[w] \notin {"down", "idle"}, Goto(w, l)
    PROVE  /\ pc' \in [Worker -> Pc] /\ cur' \in [Worker -> MatchId \cup {NoMatch}]
           /\ \A v \in Worker : cur'[v] = NoMatch <=> pc'[v] \in {"down", "idle"}
BY DEF WorkerTypeOK, Goto

\* Finish leaves a worker idle, without a match.
LEMMA FinishType ==
    ASSUME WorkerTypeOK, NEW w \in Worker, Finish(w)
    PROVE  /\ pc' \in [Worker -> Pc] /\ cur' \in [Worker -> MatchId \cup {NoMatch}]
           /\ \A v \in Worker : cur'[v] = NoMatch <=> pc'[v] \in {"down", "idle"}
BY DEF WorkerTypeOK, Finish, Pc

\* A command changes only the worker's context and the fault count.
LEMMA CommandType ==
    ASSUME WorkerTypeOK, BoundTypeOK, NEW w \in Worker, Succeeds(w) \/ Fails(w)
    PROVE  ctx' \in [Worker -> {"live", "cut", "gone"}] /\ faults' \in Nat
BY DEF WorkerTypeOK, BoundTypeOK, Succeeds, Fails

LEMMA PopType == ASSUME TypeOK, NEW w \in Worker, Pop(w) PROVE TypeOK'
<1>1. queue # <<>> /\ queue \in Seq(MatchId)
  BY DEF Pop, TypeOK, RedisTypeOK
<1>2. queue[Len(queue)] \in MatchId /\ SubSeq(queue, 1, Len(queue) - 1) \in Seq(MatchId)
  BY <1>1
<1>3. RedisTypeOK'
  BY <1>2 DEF Pop, Popped, TypeOK, RedisTypeOK
<1>4. WorkerTypeOK'
  <2>1. CASE Succeeds(w) /\ pc' = [pc EXCEPT ![w] = "begin"]
                         /\ cur' = [cur EXCEPT ![w] = queue[Len(queue)]]
    BY <1>2, <2>1, CommandType, TailorAssumption DEF Pop, TypeOK, WorkerTypeOK, Pc
  <2>2. CASE Fails(w) /\ UNCHANGED <<pc, cur>>
    BY <2>2, CommandType DEF Pop, TypeOK, WorkerTypeOK
  <2> QED BY <2>1, <2>2 DEF Pop
<1>5. DbTypeOK' /\ BoundTypeOK'
  BY CommandType DEF Pop, TypeOK, DbTypeOK, BoundTypeOK, dbVars
<1> QED BY <1>3, <1>4, <1>5 DEF TypeOK

LEMMA BeginRunType == ASSUME TypeOK, NEW w \in Worker, BeginRun(w) PROVE TypeOK'
<1>1. WorkerTypeOK'
  <2>1. Goto(w, "create") \/ Goto(w, "update") \/ Finish(w)
    BY DEF BeginRun
  <2> QED BY <2>1, GotoType, FinishType, CommandType DEF BeginRun, TypeOK, WorkerTypeOK, Pc
<1>2. RedisTypeOK' /\ DbTypeOK' /\ BoundTypeOK'
  BY CommandType DEF BeginRun, TypeOK, RedisTypeOK, DbTypeOK, BoundTypeOK, redisVars, dbVars
<1> QED BY <1>1, <1>2 DEF TypeOK

LEMMA CreateRunType == ASSUME TypeOK, NEW w \in Worker, CreateRun(w) PROVE TypeOK'
<1>1. WorkerTypeOK'
  BY GotoType, FinishType, CommandType DEF CreateRun, TypeOK, WorkerTypeOK, Pc
<1>2. DbTypeOK'
  BY BusyMatch DEF CreateRun, TypeOK, DbTypeOK, RunStatus
<1>3. RedisTypeOK' /\ BoundTypeOK'
  BY CommandType DEF CreateRun, TypeOK, RedisTypeOK, BoundTypeOK, redisVars
<1> QED BY <1>1, <1>2, <1>3 DEF TypeOK

LEMMA UpdateRunType == ASSUME TypeOK, NEW w \in Worker, UpdateRun(w) PROVE TypeOK'
<1>1. WorkerTypeOK'
  BY GotoType, FinishType, CommandType DEF UpdateRun, TypeOK, WorkerTypeOK, Pc
<1>2. DbTypeOK'
  BY BusyMatch DEF UpdateRun, TypeOK, DbTypeOK, RunStatus
<1>3. RedisTypeOK' /\ BoundTypeOK'
  BY CommandType DEF UpdateRun, TypeOK, RedisTypeOK, BoundTypeOK, redisVars
<1> QED BY <1>1, <1>2, <1>3 DEF TypeOK

LEMMA TryLockType == ASSUME TypeOK, NEW w \in Worker, TryLock(w) PROVE TypeOK'
<1>1. WorkerTypeOK'
  BY GotoType, FinishType, CommandType DEF TryLock, TypeOK, WorkerTypeOK, Pc
<1>2. RedisTypeOK'
  BY BusyMatch DEF TryLock, TypeOK, RedisTypeOK
<1>3. BoundTypeOK'
  BY CommandType, BusyMatch DEF TryLock, TypeOK, BoundTypeOK
<1>4. DbTypeOK'
  BY DEF TryLock, TypeOK, DbTypeOK, dbVars
<1> QED BY <1>1, <1>2, <1>3, <1>4 DEF TypeOK

LEMMA FetchType == ASSUME TypeOK, NEW w \in Worker, Fetch(w) PROVE TypeOK'
<1>1. WorkerTypeOK'
  BY GotoType, FinishType, CommandType DEF Fetch, TypeOK, WorkerTypeOK, Pc
<1>2. RedisTypeOK' /\ DbTypeOK' /\ BoundTypeOK'
  BY CommandType DEF Fetch, TypeOK, RedisTypeOK, DbTypeOK, BoundTypeOK, redisVars, dbVars
<1> QED BY <1>1, <1>2 DEF TypeOK

LEMMA PipelineType == ASSUME TypeOK, NEW w \in Worker, Pipeline(w) PROVE TypeOK'
<1>1. WorkerTypeOK'
  BY GotoType DEF Pipeline, TypeOK, WorkerTypeOK, Pc
<1>2. RedisTypeOK' /\ DbTypeOK' /\ BoundTypeOK'
  BY DEF Pipeline, TypeOK, RedisTypeOK, DbTypeOK, BoundTypeOK, redisVars, dbVars, boundVars
<1> QED BY <1>1, <1>2 DEF TypeOK

LEMMA ClearApplicationType == ASSUME TypeOK, NEW w \in Worker, ClearApplication(w) PROVE TypeOK'
<1>1. WorkerTypeOK'
  BY GotoType, FinishType, CommandType DEF ClearApplication, TypeOK, WorkerTypeOK, Pc
<1>2. DbTypeOK'
  BY BusyMatch DEF ClearApplication, TypeOK, DbTypeOK
<1>3. RedisTypeOK' /\ BoundTypeOK'
  BY CommandType DEF ClearApplication, TypeOK, RedisTypeOK, BoundTypeOK, redisVars
<1> QED BY <1>1, <1>2, <1>3 DEF TypeOK

LEMMA InsertApplicationType == ASSUME TypeOK, NEW w \in Worker, InsertApplication(w) PROVE TypeOK'
<1>1. WorkerTypeOK'
  BY GotoType, FinishType, CommandType DEF InsertApplication, TypeOK, WorkerTypeOK, Pc
<1>2. DbTypeOK'
  BY BusyMatch DEF InsertApplication, TypeOK, DbTypeOK
<1>3. RedisTypeOK' /\ BoundTypeOK'
  BY CommandType DEF InsertApplication, TypeOK, RedisTypeOK, BoundTypeOK, redisVars
<1> QED BY <1>1, <1>2, <1>3 DEF TypeOK

LEMMA CompleteRunType == ASSUME TypeOK, NEW w \in Worker, CompleteRun(w) PROVE TypeOK'
<1>1. WorkerTypeOK'
  BY GotoType, FinishType, CommandType DEF CompleteRun, TypeOK, WorkerTypeOK, Pc
<1>2. DbTypeOK'
  BY BusyMatch DEF CompleteRun, TypeOK, DbTypeOK, RunStatus
<1>3. RedisTypeOK' /\ BoundTypeOK'
  BY CommandType DEF CompleteRun, TypeOK, RedisTypeOK, BoundTypeOK, redisVars
<1> QED BY <1>1, <1>2, <1>3 DEF TypeOK

LEMMA UnlockType == ASSUME TypeOK, NEW w \in Worker, Unlock(w) PROVE TypeOK'
<1>1. WorkerTypeOK'
  BY GotoType, CommandType DEF Unlock, Repeats, TypeOK, WorkerTypeOK, Pc
<1>2. RedisTypeOK'
  BY DEF Unlock, TypeOK, RedisTypeOK
<1>3. DbTypeOK' /\ BoundTypeOK'
  BY CommandType DEF Unlock, Repeats, TypeOK, DbTypeOK, BoundTypeOK, dbVars
<1> QED BY <1>1, <1>2, <1>3 DEF TypeOK

LEMMA CountAttemptsType == ASSUME TypeOK, NEW w \in Worker, CountAttempts(w) PROVE TypeOK'
<1>1. cur[w] \in MatchId
  BY BusyMatch DEF CountAttempts, TypeOK
<1>2. run[cur[w]].attempts \in Nat
  BY <1>1 DEF TypeOK, DbTypeOK
<1>3. tries' \in [Worker -> Nat]
  BY <1>2 DEF CountAttempts, TypeOK, WorkerTypeOK
<1>4. WorkerTypeOK'
  BY <1>3, GotoType, CommandType DEF CountAttempts, TypeOK, WorkerTypeOK, Pc
<1>5. RedisTypeOK' /\ DbTypeOK' /\ BoundTypeOK'
  BY CommandType DEF CountAttempts, TypeOK, RedisTypeOK, DbTypeOK, BoundTypeOK, redisVars, dbVars
<1> QED BY <1>1, <1>2, <1>3, <1>4, <1>5 DEF TypeOK

LEMMA FailRunType == ASSUME TypeOK, NEW w \in Worker, FailRun(w) PROVE TypeOK'
<1>1. Goto(w, "retry") \/ Goto(w, "bury")
  BY DEF FailRun
<1>2. WorkerTypeOK'
  BY <1>1, GotoType, CommandType DEF FailRun, TypeOK, WorkerTypeOK, Pc
<1>3. DbTypeOK'
  BY BusyMatch DEF FailRun, TypeOK, DbTypeOK, RunStatus
<1>4. RedisTypeOK' /\ BoundTypeOK'
  BY CommandType DEF FailRun, TypeOK, RedisTypeOK, BoundTypeOK, redisVars
<1> QED BY <1>1, <1>2, <1>3, <1>4 DEF TypeOK

LEMMA RetryType == ASSUME TypeOK, NEW w \in Worker, Retry(w) PROVE TypeOK'
<1>1. WorkerTypeOK'
  BY FinishType, CommandType DEF Retry, Repeats, TypeOK, WorkerTypeOK, Pc
<1>2. Append(queue, cur[w]) \in Seq(MatchId)
  BY BusyMatch DEF Retry, TypeOK, RedisTypeOK
<1>3. RedisTypeOK'
  BY <1>2 DEF Retry, TypeOK, RedisTypeOK
<1>4. DbTypeOK' /\ BoundTypeOK'
  BY CommandType DEF Retry, Repeats, TypeOK, DbTypeOK, BoundTypeOK, dbVars
<1> QED BY <1>1, <1>2, <1>3, <1>4 DEF TypeOK

LEMMA BuryType == ASSUME TypeOK, NEW w \in Worker, Bury(w) PROVE TypeOK'
<1>1. WorkerTypeOK'
  BY FinishType, CommandType DEF Bury, TypeOK, WorkerTypeOK, Pc
<1>2. RedisTypeOK'
  BY BusyMatch DEF Bury, TypeOK, RedisTypeOK
<1>3. DbTypeOK' /\ BoundTypeOK'
  BY CommandType DEF Bury, TypeOK, DbTypeOK, BoundTypeOK, dbVars
<1> QED BY <1>1, <1>2, <1>3 DEF TypeOK

LEMMA StopType == ASSUME TypeOK, NEW w \in Worker, Terminate(w) \/ Exit(w) \/ Crash(w) \/ Restart(w) PROVE TypeOK'
<1>1. WorkerTypeOK'
  BY TailorAssumption DEF Terminate, Exit, Crash, Restart, TypeOK, WorkerTypeOK, Pc
<1>2. RedisTypeOK' /\ DbTypeOK' /\ BoundTypeOK'
  BY DEF Terminate, Exit, Crash, Restart, TypeOK, RedisTypeOK, DbTypeOK, BoundTypeOK, redisVars, dbVars, boundVars
<1> QED BY <1>1, <1>2 DEF TypeOK

LEMMA EnvironmentType == ASSUME TypeOK, Environment PROVE TypeOK'
<1> USE DEF Environment, CreateMatch, EnqueueMatch, MarkSent, UnmarkSent, SubmitProfile,
        SelectPurge, DeletePurge
<1>1. WorkerTypeOK'
  BY DEF TypeOK, WorkerTypeOK, workerVars
<1>2. RedisTypeOK'
  BY DEF TypeOK, RedisTypeOK, redisVars
<1>3. DbTypeOK'
  BY DEF TypeOK, DbTypeOK, dbVars, DeleteRows, PendingMatches
<1>4. BoundTypeOK'
  BY DEF TypeOK, BoundTypeOK, boundVars
<1> QED BY <1>1, <1>2, <1>3, <1>4 DEF TypeOK

LEMMA TypeStep == TypeOK /\ [Next]_vars => TypeOK'
<1> SUFFICES ASSUME TypeOK, [Next]_vars PROVE TypeOK'
  OBVIOUS
<1>1. ASSUME NEW w \in Worker, WorkerStep(w) PROVE TypeOK'
  BY <1>1, PopType, BeginRunType, CreateRunType, UpdateRunType, TryLockType, FetchType,
     PipelineType, ClearApplicationType, InsertApplicationType, CompleteRunType,
     UnlockType, CountAttemptsType, FailRunType, RetryType, BuryType DEF WorkerStep
<1>2. ASSUME NEW m \in MatchId, ExpireLock(m) PROVE TypeOK'
  BY <1>2 DEF ExpireLock, TypeOK, WorkerTypeOK, RedisTypeOK, DbTypeOK, BoundTypeOK,
     workerVars, dbVars, boundVars
<1>3. CASE UNCHANGED vars
  BY <1>3 DEF vars, TypeOK, WorkerTypeOK, RedisTypeOK, DbTypeOK, BoundTypeOK,
     workerVars, redisVars, dbVars, boundVars
<1> QED BY <1>1, <1>2, <1>3, StopType, EnvironmentType DEF Next

\* Every variable keeps its type, whatever the workers and the environment do.
THEOREM TypeCorrect == Spec => []TypeOK
<1>1. Init => TypeOK
  BY TailorAssumption DEF Init, TypeOK, WorkerTypeOK, RedisTypeOK, DbTypeOK, BoundTypeOK,
     Pc, RunStatus
<1> QED BY <1>1, TypeStep, PTL DEF Spec

-----------------------------------------------------------------------------
(* Mutual exclusion and the single application.  The steps are sorted by    *)
(* what they do to the holders, the lock and the applications.              *)

\* A step of w outside TailorMatch that leaves lock and applications alone,
\* or that ends the run, keeps LockInv.
LEMMA QuietStep ==
    ASSUME TypeOK, LockInv, NEW w \in Worker,
           Finish(w) \/ (\E l \in Pc \ Holding : Goto(w, l)),
           UNCHANGED app, lock \subseteq lock'
    PROVE  LockInv'
BY DEF TypeOK, WorkerTypeOK, LockInv, OneTailorer, AtMostOneApplication, Finish, Goto, Holding, Pc

\* A step of w from one command inside TailorMatch to a later one other than
\* the INSERT keeps LockInv if it leaves the lock alone and adds no row.
LEMMA HoldingStep ==
    ASSUME TypeOK, LockInv, NEW w \in Worker, pc[w] \in Holding,
           NEW l \in Holding \ {"insert"}, Goto(w, l), UNCHANGED lock,
           UNCHANGED app
    PROVE  LockInv'
BY DEF TypeOK, WorkerTypeOK, LockInv, OneTailorer, AtMostOneApplication, Goto, Holding

LEMMA TryLockKeeps == ASSUME TypeOK, LockInv, NEW w \in Worker, TryLock(w) PROVE LockInv'
<1> app' = app
  BY DEF TryLock, dbVars
<1>1. CASE Acquirable(cur[w]) /\ lock' = lock \cup {cur[w]} /\ Goto(w, "fetch")
  BY <1>1 DEF Acquirable, TypeOK, WorkerTypeOK, LockInv, OneTailorer, AtMostOneApplication,
     Goto, Holding
<1>2. CASE Finish(w) /\ lock \subseteq lock'
  BY <1>2, QuietStep
<1> QED BY <1>1, <1>2 DEF TryLock

LEMMA ClearKeeps ==
    ASSUME TypeOK, LockInv, NEW w \in Worker, ClearApplication(w) PROVE LockInv'
<1>1. lock' = lock /\ pc[w] = "clear" /\ cur[w] \in MatchId
  BY BusyMatch DEF ClearApplication, redisVars, TypeOK
<1>2. CASE Goto(w, "insert") /\ app' = [app EXCEPT ![cur[w]] = 0]
  BY <1>1, <1>2 DEF TypeOK, WorkerTypeOK, DbTypeOK, LockInv, OneTailorer,
     AtMostOneApplication, Goto, Holding
<1>3. CASE Goto(w, "unlock") /\ (UNCHANGED app \/ app' = [app EXCEPT ![cur[w]] = 0])
  BY <1>1, <1>3 DEF TypeOK, WorkerTypeOK, DbTypeOK, LockInv, OneTailorer,
     AtMostOneApplication, Goto, Holding
<1> QED BY <1>2, <1>3 DEF ClearApplication

LEMMA InsertKeeps ==
    ASSUME TypeOK, LockInv, NEW w \in Worker, InsertApplication(w) PROVE LockInv'
<1>1. lock' = lock /\ pc[w] = "insert" /\ cur[w] \in MatchId /\ app[cur[w]] = 0
  BY BusyMatch DEF InsertApplication, redisVars, TypeOK, LockInv
<1>2. \E l \in {"complete", "unlock"} : Goto(w, l)
  BY DEF InsertApplication
<1>3. CASE app' = [app EXCEPT ![cur[w]] = @ + 1]
  <2>1. app' = [app EXCEPT ![cur[w]] = 1]
    BY <1>1, <1>3 DEF TypeOK, DbTypeOK
  <2>2. \A v \in Worker \ {w} : pc[v] = "insert" => cur[v] # cur[w]
    BY <1>1 DEF LockInv, OneTailorer, Holding
  <2> QED BY <1>1, <1>2, <2>1, <2>2 DEF TypeOK, WorkerTypeOK, DbTypeOK, LockInv,
             OneTailorer, AtMostOneApplication, Goto, Holding
<1>4. CASE UNCHANGED app
  BY <1>1, <1>2, <1>4, HoldingStep DEF Holding
<1> QED BY <1>3, <1>4 DEF InsertApplication

LEMMA UnlockKeeps ==
    ASSUME ~Resends, TypeOK, LockInv, NEW w \in Worker, Unlock(w) PROVE LockInv'
<1>1. pc[w] = "unlock" /\ Goto(w, "count") /\ app' = app
      /\ (lock' = lock \/ lock' = lock \ {cur[w]})
  BY DEF Unlock, Repeats, dbVars
<1> QED BY <1>1 DEF TypeOK, WorkerTypeOK, LockInv, OneTailorer, AtMostOneApplication,
           Goto, Holding

LEMMA WorkerKeeps ==
    ASSUME ~Resends, TypeOK, LockInv, NEW w \in Worker, WorkerStep(w) PROVE LockInv'
<1> USE DEF Pc, Holding, redisVars, dbVars, boundVars
<1>1. CASE Pop(w)
  <2>1. pc[w] = "idle" /\ lock' = lock /\ app' = app
    BY <1>1 DEF Pop
  <2>2. \/ UNCHANGED <<pc, cur>>
        \/ \E m : pc' = [pc EXCEPT ![w] = "begin"] /\ cur' = [cur EXCEPT ![w] = m]
    BY <1>1 DEF Pop
  <2> QED BY <2>1, <2>2 DEF TypeOK, WorkerTypeOK, LockInv, OneTailorer, AtMostOneApplication
<1>2. CASE BeginRun(w)
  BY <1>2, QuietStep DEF BeginRun
<1>3. CASE CreateRun(w)
  BY <1>3, QuietStep DEF CreateRun
<1>4. CASE UpdateRun(w)
  BY <1>4, QuietStep DEF UpdateRun
<1>5. CASE Fetch(w)
  BY <1>5, HoldingStep DEF Fetch
<1>6. CASE Pipeline(w)
  BY <1>6, HoldingStep DEF Pipeline
<1>7. CASE CompleteRun(w)
  BY <1>7, QuietStep DEF CompleteRun
<1>8. CASE CountAttempts(w)
  BY <1>8, QuietStep DEF CountAttempts
<1>9. CASE FailRun(w)
  BY <1>9, QuietStep DEF FailRun
<1>10. CASE Retry(w)
  BY <1>10, QuietStep DEF Retry, Repeats
<1>11. CASE Bury(w)
  BY <1>11, QuietStep DEF Bury
<1> QED BY <1>1, <1>2, <1>3, <1>4, <1>5, <1>6, <1>7, <1>8, <1>9, <1>10, <1>11,
           TryLockKeeps, ClearKeeps, InsertKeeps, UnlockKeeps DEF WorkerStep

LEMMA LockStep ==
    ASSUME LockOutlivesRun, ~Resends, TypeOK, LockInv, [Next]_vars PROVE LockInv'
<1> USE DEF TypeOK, WorkerTypeOK, DbTypeOK, LockInv, OneTailorer, AtMostOneApplication, Holding,
        workerVars, redisVars, dbVars, boundVars
<1>1. ASSUME NEW w \in Worker, Terminate(w) \/ Exit(w) \/ Crash(w) \/ Restart(w)
      PROVE  LockInv'
  BY <1>1 DEF Terminate, Exit, Crash, Restart
<1>2. ASSUME NEW m \in MatchId, ExpireLock(m) PROVE LockInv'
  BY <1>2 DEF ExpireLock, Held
<1>3. CASE Environment
  <2>1. \A m \in MatchId : app'[m] = app[m] \/ app'[m] = 0
    BY <1>3 DEF Environment, CreateMatch, EnqueueMatch, MarkSent, UnmarkSent, SubmitProfile,
       SelectPurge, DeletePurge, DeleteRows
  <2>2. UNCHANGED <<pc, cur, lock>>
    BY <1>3 DEF Environment, CreateMatch, EnqueueMatch, MarkSent, UnmarkSent, SubmitProfile,
       SelectPurge, DeletePurge
  <2> QED BY <2>1, <2>2, BusyMatch
<1>4. CASE UNCHANGED vars
  BY <1>4 DEF vars
<1> QED BY <1>1, <1>2, <1>3, <1>4, WorkerKeeps DEF Next

LEMMA LockInvariant == ASSUME LockOutlivesRun, ~Resends PROVE Spec => []LockInv
<1>1. Init => LockInv
  BY DEF Init, LockInv, OneTailorer, AtMostOneApplication, Holding
<1>2. TypeOK /\ LockInv /\ [Next]_vars => LockInv'
  BY LockStep
<1> QED BY <1>1, <1>2, TypeCorrect, PTL DEF Spec

\* If no tailor run outlasts the lock's TTL and the client repeats no command,
\* no two workers ever tailor the same match at once: not with messages delivered twice, not across crashes,
\* lost replies and an UnlockTailor that deletes the key whoever set it.
THEOREM MutualExclusion == ASSUME LockOutlivesRun, ~Resends PROVE Spec => []OneTailorer
<1>1. LockInv => OneTailorer
  BY DEF LockInv
<1> QED BY <1>1, LockInvariant, PTL

\* Under the same conditions a match never has two tailored applications,
\* although the DELETE and the INSERT share no transaction and no index.
THEOREM SingleApplication == ASSUME LockOutlivesRun, ~Resends PROVE Spec => []AtMostOneApplication
<1>1. LockInv => AtMostOneApplication
  BY DEF LockInv
<1> QED BY <1>1, LockInvariant, PTL

-----------------------------------------------------------------------------
(* The workers implement TailorService, if no tailor run outlasts its lock. *)

\* A step of w that does not bring it into TailorMatch or out of it leaves the
\* matches being tailored the same.
LEMMA StayOutside ==
    ASSUME TypeOK, NEW w \in Worker, pc[w] \notin Holding, pc'[w] \notin Holding,
           \A v \in Worker \ {w} : pc'[v] = pc[v] /\ cur'[v] = cur[v]
    PROVE  Tailoring' = Tailoring
BY DEF Tailoring

LEMMA StayInside ==
    ASSUME TypeOK, NEW w \in Worker, pc[w] \in Holding, NEW l \in Holding, Goto(w, l)
    PROVE  Tailoring' = Tailoring
BY DEF Tailoring, Goto, TypeOK, WorkerTypeOK

\* A step of w out of TailorMatch ends the tailoring of its match, because no
\* other worker holds it.
LEMMA LeaveHolding ==
    ASSUME TypeOK, LockInv, NEW w \in Worker, pc[w] \in Holding, pc'[w] \notin Holding,
           \A v \in Worker \ {w} : pc'[v] = pc[v] /\ cur'[v] = cur[v]
    PROVE  cur[w] \in Tailoring /\ Tailoring' = Tailoring \ {cur[w]}
BY DEF Tailoring, LockInv, OneTailorer

\* The step that sets the lock starts the tailoring of a match nobody holds.
LEMMA EnterHolding ==
    ASSUME TypeOK, LockInv, NEW w \in Worker, pc[w] \notin Holding, cur[w] \notin lock,
           Goto(w, "fetch")
    PROVE  cur[w] \notin Tailoring /\ Tailoring' = Tailoring \cup {cur[w]}
<1>1. pc'[w] = "fetch" /\ cur'[w] = cur[w]
      /\ \A v \in Worker \ {w} : pc'[v] = pc[v] /\ cur'[v] = cur[v]
  BY DEF Goto, TypeOK, WorkerTypeOK
<1>2. "fetch" \in Holding
  BY DEF Holding
<1> QED BY <1>1, <1>2 DEF Tailoring, LockInv

\* What the four kinds of steps are in TailorService.
LEMMA QuietMaps ==
    ASSUME TypeOK, NEW w \in Worker, pc[w] \notin Holding,
           Finish(w) \/ (\E l \in Pc \ Holding : Goto(w, l)), UNCHANGED <<row, app>>
    PROVE  UNCHANGED Service!vars
<1>1. pc'[w] \notin Holding /\ \A v \in Worker \ {w} : pc'[v] = pc[v] /\ cur'[v] = cur[v]
  BY DEF Finish, Goto, TypeOK, WorkerTypeOK, Holding
<1> QED BY <1>1, StayOutside DEF Service!vars

LEMMA HoldingMaps ==
    ASSUME TypeOK, NEW w \in Worker, pc[w] \in Holding, NEW l \in Holding, Goto(w, l),
           UNCHANGED <<row, app>>
    PROVE  UNCHANGED Service!vars
BY StayInside DEF Service!vars

LEMMA LeaveMaps ==
    ASSUME TypeOK, LockInv, NEW w \in Worker, pc[w] \in Holding,
           Finish(w) \/ (\E l \in Pc \ Holding : Goto(w, l)), UNCHANGED <<row, app>>
    PROVE  Service!Next
<1>1. pc'[w] \notin Holding /\ \A v \in Worker \ {w} : pc'[v] = pc[v] /\ cur'[v] = cur[v]
  BY DEF Finish, Goto, TypeOK, WorkerTypeOK, Holding
<1>2. cur[w] \in MatchId
  BY BusyMatch DEF Holding, TypeOK
<1>3. Service!Stop(cur[w])
  BY <1>1, LeaveHolding DEF Service!Stop
<1> QED BY <1>2, <1>3 DEF Service!Next

LEMMA TryLockMaps ==
    ASSUME TypeOK, LockInv, NEW w \in Worker, TryLock(w)
    PROVE  Service!Next \/ UNCHANGED Service!vars
<1>1. pc[w] = "lock" /\ pc[w] \notin Holding /\ UNCHANGED <<row, app>> /\ cur[w] \in MatchId
  BY BusyMatch DEF TryLock, dbVars, Holding, TypeOK
<1>2. CASE Acquirable(cur[w]) /\ Goto(w, "fetch")
  <2>1. Service!Start(cur[w])
    BY <1>1, <1>2, EnterHolding DEF Acquirable, Service!Start
  <2> QED BY <1>1, <2>1 DEF Service!Next
<1>3. CASE Finish(w)
  BY <1>1, <1>3, QuietMaps
<1> QED BY <1>2, <1>3 DEF TryLock

LEMMA ClearMaps ==
    ASSUME TypeOK, LockInv, NEW w \in Worker, ClearApplication(w)
    PROVE  Service!Next \/ UNCHANGED Service!vars
<1>1. pc[w] \in Holding /\ row' = row /\ cur[w] \in MatchId /\ cur[w] \in Tailoring
  BY BusyMatch DEF ClearApplication, Holding, TypeOK, Tailoring
<1>2. \E l \in Holding : Goto(w, l)
  BY DEF ClearApplication, Holding
<1>3. Tailoring' = Tailoring
  BY <1>1, <1>2, StayInside
<1>4. CASE app' = [app EXCEPT ![cur[w]] = 0]
  <2>1. Service!Discard(cur[w])
    BY <1>1, <1>3, <1>4 DEF Service!Discard
  <2> QED BY <1>1, <2>1 DEF Service!Next
<1>5. CASE app' = app
  BY <1>1, <1>3, <1>5 DEF Service!vars
<1> QED BY <1>4, <1>5 DEF ClearApplication

LEMMA InsertMaps ==
    ASSUME TypeOK, LockInv, NEW w \in Worker, InsertApplication(w)
    PROVE  Service!Next \/ UNCHANGED Service!vars
<1>1. pc[w] \in Holding /\ row' = row /\ cur[w] \in MatchId /\ cur[w] \in Tailoring
      /\ app[cur[w]] = 0
  BY BusyMatch DEF InsertApplication, Holding, TypeOK, Tailoring, LockInv
<1>2. \E l \in Holding : Goto(w, l)
  BY DEF InsertApplication, Holding
<1>3. Tailoring' = Tailoring
  BY <1>1, <1>2, StayInside
<1>4. CASE row[cur[w]] = "live" /\ app' = [app EXCEPT ![cur[w]] = @ + 1]
  <2>1. app' = [app EXCEPT ![cur[w]] = 1]
    BY <1>1, <1>4 DEF TypeOK, DbTypeOK
  <2>2. Service!Store(cur[w])
    BY <1>1, <1>3, <1>4, <2>1 DEF Service!Store
  <2> QED BY <1>1, <2>2 DEF Service!Next
<1>5. CASE app' = app
  BY <1>1, <1>3, <1>5 DEF Service!vars
<1> QED BY <1>4, <1>5 DEF InsertApplication

LEMMA WorkerMaps ==
    ASSUME ~Resends, TypeOK, LockInv, NEW w \in Worker, WorkerStep(w)
    PROVE  Service!Next \/ UNCHANGED Service!vars
<1> USE DEF Pc, Holding, dbVars
<1>1. CASE Pop(w)
  <2>1. pc[w] \notin Holding /\ pc'[w] \notin Holding /\ UNCHANGED <<row, app>>
        /\ \A v \in Worker \ {w} : pc'[v] = pc[v] /\ cur'[v] = cur[v]
    BY <1>1 DEF Pop, TypeOK, WorkerTypeOK
  <2> QED BY <2>1, StayOutside DEF Service!vars
<1>2. CASE BeginRun(w)
  BY <1>2, QuietMaps DEF BeginRun
<1>3. CASE CreateRun(w)
  BY <1>3, QuietMaps DEF CreateRun
<1>4. CASE UpdateRun(w)
  BY <1>4, QuietMaps DEF UpdateRun
<1>5. CASE Fetch(w)
  BY <1>5, HoldingMaps DEF Fetch
<1>6. CASE Pipeline(w)
  BY <1>6, HoldingMaps DEF Pipeline
<1>7. CASE CompleteRun(w)
  BY <1>7, LeaveMaps DEF CompleteRun
<1>8. CASE Unlock(w)
  BY <1>8, LeaveMaps DEF Unlock, Repeats
<1>9. CASE CountAttempts(w)
  BY <1>9, QuietMaps DEF CountAttempts
<1>10. CASE FailRun(w)
  BY <1>10, QuietMaps DEF FailRun
<1>11. CASE Retry(w)
  BY <1>11, QuietMaps DEF Retry, Repeats
<1>12. CASE Bury(w)
  BY <1>12, QuietMaps DEF Bury
<1> QED BY <1>1, <1>2, <1>3, <1>4, <1>5, <1>6, <1>7, <1>8, <1>9, <1>10, <1>11, <1>12,
           TryLockMaps, ClearMaps, InsertMaps DEF WorkerStep

LEMMA StopMaps ==
    ASSUME TypeOK, LockInv, NEW w \in Worker,
           Terminate(w) \/ Exit(w) \/ Crash(w) \/ Restart(w)
    PROVE  Service!Next \/ UNCHANGED Service!vars
<1>1. UNCHANGED <<row, app>>
      /\ \A v \in Worker \ {w} : pc'[v] = pc[v] /\ cur'[v] = cur[v]
  BY DEF Terminate, Exit, Crash, Restart, dbVars, TypeOK, WorkerTypeOK
<1>2. CASE Terminate(w)
  <2>1. Tailoring' = Tailoring
    BY <1>2 DEF Terminate, Tailoring
  <2> QED BY <1>1, <2>1 DEF Service!vars
<1>3. CASE pc[w] \notin Holding /\ pc'[w] \notin Holding
  BY <1>1, <1>3, StayOutside DEF Service!vars
<1>4. CASE pc[w] \in Holding /\ Crash(w)
  <2>1. pc'[w] \notin Holding
    BY <1>4 DEF Crash, Holding, TypeOK, WorkerTypeOK
  <2>2. cur[w] \in MatchId
    BY <1>4, BusyMatch DEF Holding, TypeOK
  <2>3. Service!Stop(cur[w])
    BY <1>1, <1>4, <2>1, LeaveHolding DEF Service!Stop
  <2> QED BY <2>2, <2>3 DEF Service!Next
<1>5. pc'[w] \notin Holding \/ Terminate(w)
  BY DEF Exit, Crash, Restart, Holding, TypeOK, WorkerTypeOK
<1>6. pc[w] \notin Holding \/ Terminate(w) \/ Crash(w)
  BY DEF Exit, Restart, Holding
<1> QED BY <1>2, <1>3, <1>4, <1>5, <1>6

LEMMA EnvironmentMaps ==
    ASSUME TypeOK, Environment
    PROVE  Service!Next \/ UNCHANGED Service!vars
<1>1. Tailoring' = Tailoring
  BY DEF Environment, CreateMatch, EnqueueMatch, MarkSent, UnmarkSent, SubmitProfile,
     SelectPurge, DeletePurge, workerVars, Tailoring
<1>2. ASSUME NEW m \in MatchId, CreateMatch(m) PROVE Service!Next
  BY <1>1, <1>2 DEF CreateMatch, Service!Next, Service!Appear
<1>3. ASSUME NEW S \in SUBSET MatchId, DeleteRows(S) PROVE Service!Next
  BY <1>1, <1>3 DEF DeleteRows, Service!Next, Service!Delete
<1>4. CASE SubmitProfile
  <2>1. PendingMatches \in SUBSET MatchId
    BY DEF PendingMatches
  <2> QED BY <1>3, <1>4, <2>1 DEF SubmitProfile
<1>5. CASE DeletePurge
  BY <1>3, <1>5 DEF DeletePurge, TypeOK, DbTypeOK
<1>6. CASE UNCHANGED <<row, app>>
  BY <1>1, <1>6 DEF Service!vars
<1> QED BY <1>2, <1>4, <1>5, <1>6 DEF Environment, EnqueueMatch, MarkSent, UnmarkSent,
           SelectPurge, dbVars

LEMMA StepMaps ==
    ASSUME ~Resends, TypeOK, LockInv, [Next]_vars
    PROVE  Service!Next \/ UNCHANGED Service!vars
<1>1. ASSUME NEW m \in MatchId, ExpireLock(m) PROVE UNCHANGED Service!vars
  BY <1>1 DEF ExpireLock, workerVars, dbVars, Tailoring, Service!vars
<1>2. CASE UNCHANGED vars
  BY <1>2 DEF vars, workerVars, dbVars, Tailoring, Service!vars
<1> QED BY <1>1, <1>2, WorkerMaps, StopMaps, EnvironmentMaps DEF Next

\* Tailoring by any number of workers, with messages delivered twice, crashes,
\* lost replies and deletes in between, looks like one tailoring of a match at
\* a time that stores an application only in the place of none.
THEOREM Refinement == ASSUME LockOutlivesRun, ~Resends PROVE Spec => ImplementsService
<1>1. Init => Service!Init
  BY DEF Init, Service!Init, Tailoring, Holding
<1>2. TypeOK /\ LockInv /\ [Next]_vars => [Service!Next]_(Service!vars)
  BY StepMaps
<1> QED BY <1>1, <1>2, TypeCorrect, LockInvariant, PTL DEF Spec, ImplementsService, Service!Spec
-----------------------------------------------------------------------------
(* What becomes of a message: how many copies of one there are, how often   *)
(* it is tried, and what the records of its end say.  None of this needs    *)
(* the lock: it holds with locks that expire.                               *)

(* Counting queue positions and workers.                                    *)

At(q, m) == {i \in 1..Len(q) : q[i] = m}
Count(q, m) == Cardinality(At(q, m))
Handling(m) == {w \in Worker : cur[w] = m}
One(b) == IF b THEN 1 ELSE 0

LEMMA CountType ==
    ASSUME NEW q \in Seq(MatchId), NEW m
    PROVE  IsFiniteSet(At(q, m)) /\ Count(q, m) \in Nat
<1>1. Len(q) \in Nat
  OBVIOUS
<1>2. IsFiniteSet(1..Len(q))
  BY <1>1, FS_Interval
<1>3. IsFiniteSet(At(q, m))
  BY <1>2, FS_Subset DEF At
<1> QED BY <1>3, FS_CardinalityType DEF Count

\* One more message at the end.
LEMMA CountAppend ==
    ASSUME NEW q \in Seq(MatchId), NEW x \in MatchId, NEW m
    PROVE  Count(Append(q, x), m) = Count(q, m) + One(x = m)
<1>1. Len(q) \in Nat /\ Len(Append(q, x)) = Len(q) + 1
  OBVIOUS
<1>2. CASE x = m
  <2>1. At(Append(q, x), m) = At(q, m) \cup {Len(q) + 1}
    BY <1>1, <1>2, AppendProperties DEF At
  <2>2. Len(q) + 1 \notin At(q, m)
    BY <1>1 DEF At
  <2> QED BY <1>2, <2>1, <2>2, CountType, FS_AddElement DEF Count, One
<1>3. CASE x # m
  <2>1. At(Append(q, x), m) = At(q, m)
    BY <1>1, <1>3, AppendProperties DEF At
  <2> QED BY <1>3, <2>1, CountType DEF Count, One
<1> QED BY <1>2, <1>3

\* One message less at the end.
LEMMA CountPopped ==
    ASSUME NEW q \in Seq(MatchId), q # <<>>, NEW m
    PROVE  /\ Popped(q) \in Seq(MatchId) /\ q[Len(q)] \in MatchId
           /\ Count(q, m) = Count(Popped(q), m) + One(q[Len(q)] = m)
<1>1. PICK s \in Seq(MatchId), x \in MatchId : q = Append(s, x)
  BY SequenceEmptyOrAppend
<1>2. Len(q) = Len(s) + 1 /\ q[Len(q)] = x /\ Len(s) \in Nat
  BY <1>1, AppendProperties
<1>3. Popped(q) = s
  <2>1. Popped(q) = SubSeq(q, 1, Len(s))
    BY <1>2 DEF Popped
  <2>2. \A i \in 1..Len(s) : q[i] \in MatchId /\ q[i] = s[i]
    BY <1>1, <1>2, AppendProperties
  <2>3. /\ SubSeq(q, 1, Len(s)) \in Seq(MatchId)
        /\ Len(SubSeq(q, 1, Len(s))) = Len(s)
        /\ \A i \in 1..Len(s) : SubSeq(q, 1, Len(s))[i] = q[i]
    BY <1>2, <2>2, SubSeqProperties
  <2> QED BY <2>1, <2>2, <2>3, SeqEqual
<1> QED BY <1>1, <1>2, <1>3, CountAppend

\* Two sets that differ in w at most.
LEMMA OneChanges ==
    ASSUME NEW S, NEW T, NEW w, IsFiniteSet(S), \A v : v # w => (v \in S <=> v \in T)
    PROVE  /\ IsFiniteSet(T) /\ Cardinality(S) \in Nat /\ Cardinality(T) \in Nat
           /\ Cardinality(T) + One(w \in S) = Cardinality(S) + One(w \in T)
<1>1. Cardinality(S) \in Nat
  BY FS_CardinalityType
<1>2. CASE w \in S <=> w \in T
  <2>1. S = T
    BY <1>2
  <2> QED BY <1>1, <2>1 DEF One
<1>3. CASE w \in S /\ w \notin T
  <2>1. T = S \ {w}
    BY <1>3
  <2>2. IsFiniteSet(T) /\ Cardinality(T) = Cardinality(S) - 1
    BY <1>3, <2>1, FS_RemoveElement
  <2>3. Cardinality(T) \in Nat
    BY <2>2, FS_CardinalityType
  <2> QED BY <1>1, <1>3, <2>2, <2>3 DEF One
<1>4. CASE w \notin S /\ w \in T
  <2>1. T = S \cup {w}
    BY <1>4
  <2> QED BY <1>1, <1>4, <2>1, FS_AddElement, FS_CardinalityType DEF One
<1> QED BY <1>2, <1>3, <1>4

-----------------------------------------------------------------------------
(* The invariants.                                                          *)

\* The workers at a message are finitely many, also if the workers are not.
CopiesOf(m) ==
    /\ IsFiniteSet(Handling(m))
    /\ Count(queue, m) + Cardinality(Handling(m)) <= sends[m] + (IF Resends THEN faults ELSE 0)

\* A worker whose message may still be tried, by itself or after its retry.
Ready(w) ==
    \/ pc[w] \in {"begin", "create", "update", "lock"}
    \/ pc[w] = "fail" /\ ShouldRetry(tries[w]) /\ ctx[w] # "gone"
    \/ pc[w] = "retry" /\ ctx[w] # "gone"
Locking(m) == {w \in Handling(m) : pc[w] = "lock"}
Trying(m) == {w \in Handling(m) : Ready(w)}

\* A try is counted before it is made; once the count has reached its limit,
\* the copies that are left can be tried, and no retry adds one.
BudgetOf(m) ==
    /\ tried[m] + Cardinality(Locking(m)) <= run[m].attempts
    /\ run[m].status = "none" => run[m].attempts = 0
    /\ run[m].attempts >= MaxAttempts =>
         tried[m] + Count(queue, m) + Cardinality(Trying(m))
            <= MaxAttempts - 1 + sends[m] + faults

BudgetInv == \A m \in MatchId : CopiesOf(m) /\ BudgetOf(m)

\* There is no second message of m.
Lone(m) == SentOnce(m) /\ (Resends => faults = 0)

\* What is known of a match with a single message and of who handles it.
HandledAlone(m, w) ==
    /\ tried[m] + One(pc[w] = "lock") = run[m].attempts
    /\ pc[w] = "fail" => tries[w] <= tried[m]
    /\ pc[w] = "bury" => tried[m] >= MaxAttempts
    /\ pc[w] = "insert" => app[m] = 0
    /\ pc[w] = "complete" /\ row[m] = "live" => app[m] = 1

AloneOf(m) ==
    /\ sends[m] = 0 => run[m] = [status |-> "none", attempts |-> 0] /\ tried[m] = 0 /\ app[m] = 0
    /\ run[m].status = "none" => run[m].attempts = 0
    /\ run[m].status = "completed" =>
         /\ ~Queued(m) /\ Handling(m) = {}
         /\ row[m] = "live" => app[m] = 1
    /\ Queued(m) => tried[m] = run[m].attempts
    /\ m \in dlq => tried[m] >= MaxAttempts
    /\ \A w \in Handling(m) : HandledAlone(m, w)

\* A worker that stored the application ends the run, or was told to stop and
\* sends nothing any more.
Stopping(w) ==
    \/ pc[w] = "complete"
    \/ pc[w] \in {"unlock", "count", "fail", "retry", "bury"} /\ ctx[w] = "gone"
StaysOf(m) == ~Queued(m) /\ \A w \in Handling(m) : Stopping(w)

OutcomeOf(m) ==
    /\ row[m] # "live" => app[m] = 0
    /\ sends[m] > 0 => row[m] # "absent"
    /\ Lone(m) => AloneOf(m)
    /\ faults = 0 /\ SentOnce(m) /\ app[m] > 0 => StaysOf(m)

OutcomeInv == \A m \in MatchId : OutcomeOf(m)

-----------------------------------------------------------------------------
(* Copies.                                                                  *)

WorkerMoves(w) == WorkerStep(w) \/ Terminate(w) \/ Exit(w) \/ Crash(w) \/ Restart(w)

\* A worker's step changes no other worker, and no count of what was sent.
OnlyMoves(w) ==
    /\ \A v \in Worker \ {w} : /\ pc'[v] = pc[v] /\ cur'[v] = cur[v]
                               /\ tries'[v] = tries[v] /\ ctx'[v] = ctx[v]
    /\ sends' = sends /\ row' = row /\ faults' \in Nat /\ faults <= faults'
    /\ \A m \in MatchId \ {cur[w]} : m \in dlq' <=> m \in dlq
    /\ \A m \in MatchId \ {cur[w]} : run'[m] = run[m] /\ tried'[m] = tried[m] /\ app'[m] = app[m]

LEMMA MoverAlone == ASSUME TypeOK, NEW w \in Worker, WorkerMoves(w) PROVE OnlyMoves(w)
<1> USE DEF TypeOK, WorkerTypeOK, DbTypeOK, BoundTypeOK, OnlyMoves, Succeeds, Fails, Goto, Finish, Repeats,
        dbVars, redisVars, boundVars
<1>1. CASE Pop(w)                BY <1>1 DEF Pop
<1>2. CASE BeginRun(w)           BY <1>2 DEF BeginRun
<1>3. CASE CreateRun(w)          BY <1>3 DEF CreateRun
<1>4. CASE UpdateRun(w)          BY <1>4 DEF UpdateRun
<1>5. CASE TryLock(w)            BY <1>5 DEF TryLock
<1>6. CASE Fetch(w)              BY <1>6 DEF Fetch
<1>7. CASE Pipeline(w)           BY <1>7 DEF Pipeline
<1>8. CASE ClearApplication(w)   BY <1>8 DEF ClearApplication
<1>9. CASE InsertApplication(w)  BY <1>9 DEF InsertApplication
<1>10. CASE CompleteRun(w)       BY <1>10 DEF CompleteRun
<1>11. CASE Unlock(w)            BY <1>11 DEF Unlock
<1>12. CASE CountAttempts(w)     BY <1>12 DEF CountAttempts
<1>13. CASE FailRun(w)           BY <1>13 DEF FailRun
<1>14. CASE Retry(w)             BY <1>14 DEF Retry
<1>15. CASE Bury(w)              BY <1>15 DEF Bury
<1>16. CASE Terminate(w) \/ Exit(w) \/ Crash(w) \/ Restart(w)
  BY <1>16 DEF Terminate, Exit, Crash, Restart
<1> QED BY <1>1, <1>2, <1>3, <1>4, <1>5, <1>6, <1>7, <1>8, <1>9, <1>10, <1>11, <1>12, <1>13,
           <1>14, <1>15, <1>16 DEF WorkerMoves, WorkerStep

\* What a worker's step does to the messages: none moves, or the mover lets go
\* of its own; it takes one from the list; or it appends its own, and keeps it
\* only if the client repeats the command.
Keeps(w)  == queue' = queue /\ cur'[w] \in {cur[w], NoMatch}
Takes(w)  == /\ queue # <<>> /\ queue' = Popped(queue) /\ cur[w] = NoMatch
             /\ cur'[w] \in {NoMatch, queue[Len(queue)]} /\ pc'[w] \in {"idle", "begin"}
Pushes(w) == /\ queue' = Append(queue, cur[w]) /\ cur[w] \in MatchId
             /\ \/ cur'[w] = NoMatch
                \/ Resends /\ cur'[w] = cur[w] /\ faults' = faults + 1

LEMMA MessageMoves ==
    ASSUME TypeOK, NEW w \in Worker, WorkerMoves(w)
    PROVE  Keeps(w) \/ Takes(w) \/ Pushes(w)
<1> USE DEF TypeOK, WorkerTypeOK, Succeeds, Goto, Finish, Repeats, redisVars, dbVars, boundVars,
            Keeps, Takes, Pushes
<1>1. CASE Pop(w)                BY <1>1 DEF Pop
<1>2. CASE Retry(w)              BY <1>2, BusyMatch DEF Retry, Fails
<1>3. CASE BeginRun(w)           BY <1>3 DEF BeginRun
<1>4. CASE CreateRun(w)          BY <1>4 DEF CreateRun
<1>5. CASE UpdateRun(w)          BY <1>5 DEF UpdateRun
<1>6. CASE TryLock(w)            BY <1>6 DEF TryLock
<1>7. CASE Fetch(w)              BY <1>7 DEF Fetch
<1>8. CASE Pipeline(w)           BY <1>8 DEF Pipeline
<1>9. CASE ClearApplication(w)   BY <1>9 DEF ClearApplication
<1>10. CASE InsertApplication(w) BY <1>10 DEF InsertApplication
<1>11. CASE CompleteRun(w)       BY <1>11 DEF CompleteRun
<1>12. CASE Unlock(w)            BY <1>12 DEF Unlock
<1>13. CASE CountAttempts(w)     BY <1>13 DEF CountAttempts
<1>14. CASE FailRun(w)           BY <1>14 DEF FailRun
<1>15. CASE Bury(w)              BY <1>15 DEF Bury
<1>16. CASE Terminate(w) \/ Exit(w) \/ Crash(w) \/ Restart(w)
  BY <1>16 DEF Terminate, Exit, Crash, Restart
<1> QED BY <1>1, <1>2, <1>3, <1>4, <1>5, <1>6, <1>7, <1>8, <1>9, <1>10, <1>11, <1>12, <1>13,
           <1>14, <1>15, <1>16 DEF WorkerMoves, WorkerStep

LEMMA CopiesStep ==
    ASSUME TypeOK, NEW w \in Worker, WorkerMoves(w), NEW m \in MatchId, CopiesOf(m)
    PROVE  CopiesOf(m)'
<1>1. OnlyMoves(w) /\ (Keeps(w) \/ Takes(w) \/ Pushes(w))
  BY MoverAlone, MessageMoves
<1>2. /\ IsFiniteSet(Handling(m)') /\ Cardinality(Handling(m)) \in Nat
      /\ Cardinality(Handling(m)') \in Nat
      /\ Cardinality(Handling(m)') + One(cur[w] = m) = Cardinality(Handling(m)) + One(cur'[w] = m)
  <2>1. \A v : v # w => (v \in Handling(m) <=> v \in Handling(m)')
    BY <1>1 DEF Handling, OnlyMoves
  <2>2. (w \in Handling(m) <=> cur[w] = m) /\ (w \in Handling(m)' <=> cur'[w] = m)
    BY DEF Handling
  <2>3. IsFiniteSet(Handling(m))
    BY DEF CopiesOf
  <2> QED BY <2>1, <2>2, <2>3, OneChanges DEF One
<1>3. queue \in Seq(MatchId) /\ Count(queue, m) \in Nat /\ m # NoMatch /\ sends[m] \in Nat /\ faults \in Nat
  BY CountType, TailorAssumption DEF TypeOK, RedisTypeOK, BoundTypeOK
<1>4. CASE Keeps(w)
  BY <1>1, <1>2, <1>3, <1>4 DEF Keeps, OnlyMoves, CopiesOf, One
<1>5. CASE Takes(w)
  <2>1. Count(queue, m) = Count(queue', m) + One(queue[Len(queue)] = m) /\ Count(queue', m) \in Nat
    BY <1>3, <1>5, CountPopped, CountType DEF Takes
  <2> QED BY <1>1, <1>2, <1>3, <1>5, <2>1, SMTT(30) DEF Takes, OnlyMoves, CopiesOf, One
<1>6. CASE Pushes(w)
  <2>1. Count(queue', m) = Count(queue, m) + One(cur[w] = m)
    BY <1>3, <1>6, CountAppend DEF Pushes
  <2> QED BY <1>1, <1>2, <1>3, <1>6, <2>1, SMTT(30) DEF Pushes, OnlyMoves, CopiesOf, One
<1> QED BY <1>1, <1>4, <1>5, <1>6

\* What comes from outside the workers: an enqueue, or nothing of the below.
Outside == Environment \/ (\E m \in MatchId : ExpireLock(m)) \/ UNCHANGED vars
Sent(x) == sends' = [sends EXCEPT ![x] = @ + 1] /\ queue' = Append(queue, x) /\ row[x] # "absent"

LEMMA OutsideMoves ==
    ASSUME Outside
    PROVE  /\ UNCHANGED <<pc, cur, tries, ctx, run, tried, faults, dlq>>
           /\ UNCHANGED <<queue, sends>> \/ \E x \in MatchId : Sent(x) /\ UNCHANGED dbVars
<1> USE DEF workerVars, redisVars, dbVars, boundVars, Sent
<1>1. CASE \E m \in MatchId : EnqueueMatch(m)
  BY <1>1 DEF EnqueueMatch
<1>2. CASE \E m \in MatchId : CreateMatch(m) \/ MarkSent(m) \/ UnmarkSent(m) \/ ExpireLock(m)
  BY <1>2 DEF CreateMatch, MarkSent, UnmarkSent, ExpireLock
<1>3. CASE SubmitProfile \/ SelectPurge \/ DeletePurge \/ UNCHANGED vars
  BY <1>3 DEF SubmitProfile, SelectPurge, DeletePurge, DeleteRows, vars
<1> QED BY <1>1, <1>2, <1>3 DEF Outside, Environment

LEMMA NextMoves == ASSUME [Next]_vars PROVE Outside \/ \E w \in Worker : WorkerMoves(w)
BY DEF Next, Outside, WorkerMoves

LEMMA CopiesOutside ==
    ASSUME TypeOK, Outside, NEW m \in MatchId, CopiesOf(m)
    PROVE  CopiesOf(m)'
<1>1. Handling(m)' = Handling(m) /\ faults' = faults
  BY OutsideMoves DEF Handling
<1>2. /\ queue \in Seq(MatchId) /\ Count(queue, m) \in Nat /\ Cardinality(Handling(m)) \in Nat
      /\ sends \in [MatchId -> Nat] /\ faults \in Nat
  BY CountType, FS_CardinalityType DEF TypeOK, RedisTypeOK, BoundTypeOK, CopiesOf
<1>3. CASE UNCHANGED <<queue, sends>>
  BY <1>1, <1>3 DEF CopiesOf
<1>4. CASE \E x \in MatchId : Sent(x)
  <2>1. PICK x \in MatchId : Sent(x)
    BY <1>4
  <2>2. Count(queue', m) = Count(queue, m) + One(x = m)
    BY <1>2, <2>1, CountAppend DEF Sent
  <2>3. sends'[m] = sends[m] + One(x = m)
    BY <1>2, <2>1 DEF Sent, One
  <2> QED BY <1>1, <1>2, <2>2, <2>3 DEF CopiesOf, One
<1> QED BY <1>3, <1>4, OutsideMoves

CopiesInv == \A m \in MatchId : CopiesOf(m)

LEMMA CopiesInit == Init => CopiesInv
<1> SUFFICES ASSUME Init, NEW m \in MatchId PROVE CopiesOf(m)
  BY DEF CopiesInv
<1>1. Handling(m) = {}
  BY TailorAssumption DEF Init, Handling
<1>2. At(queue, m) = {}
  BY DEF Init, At
<1>3. Cardinality({}) = 0 /\ IsFiniteSet({})
  BY FS_EmptySet
<1>4. Count(queue, m) = 0 /\ Cardinality(Handling(m)) = 0 /\ sends[m] = 0 /\ faults = 0
  BY <1>1, <1>2, <1>3 DEF Init, Count
<1> QED BY <1>1, <1>3, <1>4 DEF CopiesOf

LEMMA CopiesNext == TypeOK /\ CopiesInv /\ [Next]_vars => CopiesInv'
BY NextMoves, CopiesStep, CopiesOutside DEF CopiesInv

LEMMA CopiesInvariant == Spec => []CopiesInv
BY TypeCorrect, CopiesInit, CopiesNext, PTL DEF Spec

\* A retry never multiplies a message (jobs.Handle's EnqueueMatch after the
\* backoff replaces the copy that was popped), whatever locks expire.
THEOREM NoMessageMultiplied == Spec => []NoExtraCopies
<1>1. CopiesInv => NoExtraCopies
  BY DEF CopiesInv, CopiesOf, Count, At, Handling, NoExtraCopies, Copies
<1> QED BY <1>1, CopiesInvariant, PTL

-----------------------------------------------------------------------------
(* Tries.                                                                   *)

InLock(w, m) == cur[w] = m /\ pc[w] = "lock"
InTry(w, m) == cur[w] = m /\ Ready(w)

\* What a worker's step does to the budget of its message m: the row keeps its
\* count, and then no chance of another try is added, unless by a fault that
\* hides the count; or the row counts one more try, which is then to come.
CountKept(w, m) ==
    /\ run'[m].attempts = run[m].attempts
    /\ run'[m].status = "none" => run[m].status = "none"
    /\ tried'[m] + One(InLock(w, m))' <= tried[m] + One(InLock(w, m))
    /\ run[m].attempts >= MaxAttempts =>
         tried'[m] + Count(queue, m)' + One(InTry(w, m))' + faults
            <= tried[m] + Count(queue, m) + One(InTry(w, m)) + faults'
CountRisen(w, m) ==
    /\ run'[m].attempts = run[m].attempts + 1 /\ run'[m].status # "none"
    /\ tried' = tried /\ queue' = queue /\ InTry(w, m) /\ ~InLock(w, m)

LEMMA BudgetMoves ==
    ASSUME TypeOK, NEW w \in Worker, WorkerMoves(w), NEW m \in MatchId, cur[w] = m, BudgetOf(m)
    PROVE  CountKept(w, m) \/ CountRisen(w, m)
<1> DEFINE q == Count(queue, m)
<1> USE DEF CountKept, CountRisen, One, InLock, InTry, Ready, Succeeds, Fails, Landed, Goto, Finish,
            dbVars, redisVars, boundVars
<1>1. /\ pc \in [Worker -> Pc] /\ cur \in [Worker -> MatchId \cup {NoMatch}]
      /\ tries \in [Worker -> Nat] /\ ctx \in [Worker -> {"live", "cut", "gone"}]
      /\ run \in [MatchId -> [status : RunStatus, attempts : Nat]]
      /\ tried \in [MatchId -> Nat] /\ faults \in Nat
      /\ queue \in Seq(MatchId) /\ q \in Nat /\ run[m].attempts \in Nat /\ tried[m] \in Nat
      /\ m # NoMatch /\ MaxAttempts \in Nat \ {0}
  BY CountType, TailorAssumption DEF TypeOK, WorkerTypeOK, DbTypeOK, BoundTypeOK, RedisTypeOK
<1>2. pc[w] \notin {"down", "idle"}
  BY <1>1 DEF TypeOK, WorkerTypeOK
<1>3. queue' = queue => Count(queue, m)' = q
  OBVIOUS
<1>4. queue' = Append(queue, m) => Count(queue, m)' = q + 1
  BY <1>1, CountAppend
<1> HIDE DEF q
<1>5. CASE Pop(w) \/ Exit(w) \/ Restart(w)
  BY <1>2, <1>5 DEF Pop, Exit, Restart
<1>6. CASE BeginRun(w)
  BY <1>1, <1>3, <1>6 DEF BeginRun
<1>7. CASE CreateRun(w)
  BY <1>1, <1>3, <1>7 DEF CreateRun, BudgetOf
<1>8. CASE UpdateRun(w)
  BY <1>1, <1>3, <1>8 DEF UpdateRun
<1>9. CASE TryLock(w)
  BY <1>1, <1>3, <1>9, SMTT(30) DEF TryLock
<1>10. CASE Fetch(w) \/ Pipeline(w) \/ ClearApplication(w) \/ InsertApplication(w)
  BY <1>1, <1>3, <1>10, SMTT(30) DEF Fetch, Pipeline, ClearApplication, InsertApplication
<1>11. CASE CompleteRun(w)
  BY <1>1, <1>3, <1>11 DEF CompleteRun
<1>12. CASE Unlock(w)
  BY <1>1, <1>3, <1>12 DEF Unlock, Repeats
<1>13. CASE CountAttempts(w)
  <2>1. /\ pc[w] = "count" /\ pc'[w] = "fail" /\ cur' = cur /\ run' = run /\ tried' = tried
        /\ queue' = queue
    BY <1>1, <1>13 DEF CountAttempts
  <2>2. ~InTry(w, m) /\ ~InLock(w, m) /\ ~InLock(w, m)'
    BY <2>1
  <2>3. CASE Succeeds(w) /\ tries' = [tries EXCEPT ![w] = run[cur[w]].attempts]
    <3>1. faults' = faults /\ tries'[w] = run[m].attempts
      BY <1>1, <2>3
    <3>2. run[m].attempts >= MaxAttempts => ~InTry(w, m)'
      BY <1>1, <2>1, <3>1 DEF ShouldRetry
    <3> QED BY <1>1, <1>3, <2>1, <2>2, <3>1, <3>2
  <2>4. CASE ctx[w] = "live" /\ faults' = faults + 1
    BY <1>1, <1>3, <2>1, <2>2, <2>4
  <2>5. CASE ctx' = [ctx EXCEPT ![w] = "gone"] /\ faults' = faults
    <3>1. ~InTry(w, m)'
      BY <1>1, <2>1, <2>5
    <3> QED BY <1>1, <1>3, <2>1, <2>2, <2>5, <3>1
  <2> QED BY <1>13, <2>3, <2>4, <2>5 DEF CountAttempts
<1>14. CASE FailRun(w)
  BY <1>1, <1>3, <1>14 DEF FailRun, ShouldRetry
<1>15. CASE Retry(w)
  <2>1. /\ pc[w] = "retry" /\ run' = run /\ tried' = tried
        /\ pc'[w] \in {"retry", "idle"} /\ ~InLock(w, m) /\ ~InLock(w, m)'
    BY <1>1, <1>15 DEF Retry, Repeats
  <2>2. CASE queue' = Append(queue, m) /\ ctx[w] # "gone" /\ cur'[w] = NoMatch
    <3>1. InTry(w, m) /\ ~InTry(w, m)' /\ faults' >= faults /\ faults' \in Nat
      BY <1>1, <1>15, <2>1, <2>2 DEF Retry, Repeats
    <3> QED BY <1>1, <1>4, <2>1, <2>2, <3>1 DEF q
  <2>3. CASE queue' = queue /\ cur'[w] = NoMatch
    <3>1. ~InTry(w, m)' /\ faults' >= faults /\ faults' \in Nat
      BY <1>1, <1>15, <2>1, <2>3 DEF Retry, Repeats
    <3> QED BY <1>1, <1>3, <2>1, <2>3, <3>1
  <2>4. CASE queue' = Append(queue, m) /\ ctx[w] # "gone" /\ faults' = faults + 1
    <3>1. InTry(w, m)
      BY <2>1, <2>4
    <3> QED BY <1>1, <1>4, <2>1, <2>4, <3>1 DEF q
  <2>5. \/ queue' = Append(queue, m) /\ ctx[w] # "gone" /\ cur'[w] = NoMatch
        \/ queue' = queue /\ cur'[w] = NoMatch
        \/ queue' = Append(queue, m) /\ ctx[w] # "gone" /\ faults' = faults + 1
    BY <1>1, <1>15 DEF Retry, Repeats
  <2> QED BY <2>2, <2>3, <2>4, <2>5
<1>16. CASE Bury(w)
  BY <1>1, <1>3, <1>16 DEF Bury
<1>17. CASE Terminate(w) \/ Crash(w)
  BY <1>1, <1>3, <1>17 DEF Terminate, Crash
<1> QED BY <1>5, <1>6, <1>7, <1>8, <1>9, <1>10, <1>11, <1>12, <1>13, <1>14, <1>15, <1>16, <1>17
        DEF WorkerMoves, WorkerStep

\* Numbers of workers at a message, and how a step of w changes them.
LEMMA WorkersAt ==
    ASSUME TypeOK, NEW w \in Worker, OnlyMoves(w), NEW m, IsFiniteSet(Handling(m)),
           IsFiniteSet(Handling(m)')
    PROVE  /\ Cardinality(Locking(m)) \in Nat /\ Cardinality(Locking(m))' \in Nat
           /\ Cardinality(Trying(m)) \in Nat /\ Cardinality(Trying(m))' \in Nat
           /\ Cardinality(Trying(m)) <= Cardinality(Handling(m))
           /\ Cardinality(Trying(m))' <= Cardinality(Handling(m))'
           /\ Cardinality(Locking(m))' + One(InLock(w, m))
                = Cardinality(Locking(m)) + One(InLock(w, m))'
           /\ Cardinality(Trying(m))' + One(InTry(w, m))
                = Cardinality(Trying(m)) + One(InTry(w, m))'
<1>1. /\ IsFiniteSet(Locking(m)) /\ IsFiniteSet(Locking(m)')
      /\ IsFiniteSet(Trying(m)) /\ IsFiniteSet(Trying(m)')
      /\ Cardinality(Trying(m)) <= Cardinality(Handling(m))
      /\ Cardinality(Trying(m)') <= Cardinality(Handling(m)')
  <2>1. Locking(m) \subseteq Handling(m) /\ Trying(m) \subseteq Handling(m)
    BY DEF Locking, Trying
  <2>2. Locking(m)' \subseteq Handling(m)' /\ Trying(m)' \subseteq Handling(m)'
    BY DEF Locking, Trying
  <2> QED BY <2>1, <2>2, FS_Subset
<1>2. \A v : v # w => (v \in Locking(m) <=> v \in Locking(m)')
  BY DEF OnlyMoves, Locking, Handling
<1>3. \A v : v # w => (v \in Trying(m) <=> v \in Trying(m)')
  BY DEF OnlyMoves, Trying, Handling, Ready
<1>4. /\ w \in Locking(m) <=> InLock(w, m)
      /\ w \in Locking(m)' <=> InLock(w, m)'
      /\ w \in Trying(m) <=> InTry(w, m)
      /\ w \in Trying(m)' <=> InTry(w, m)'
  BY DEF Locking, Trying, Handling, InLock, InTry
<1>5. /\ Cardinality(Locking(m)) \in Nat /\ Cardinality(Locking(m)') \in Nat
      /\ Cardinality(Locking(m)') + One(w \in Locking(m))
           = Cardinality(Locking(m)) + One(w \in Locking(m)')
  BY <1>1, <1>2, OneChanges
<1>6. /\ Cardinality(Trying(m)) \in Nat /\ Cardinality(Trying(m)') \in Nat
      /\ Cardinality(Trying(m)') + One(w \in Trying(m))
           = Cardinality(Trying(m)) + One(w \in Trying(m)')
  BY <1>1, <1>3, OneChanges
<1> QED BY <1>1, <1>4, <1>5, <1>6 DEF One

LEMMA BudgetStep ==
    ASSUME TypeOK, TypeOK', NEW w \in Worker, WorkerMoves(w), NEW m \in MatchId,
           CopiesOf(m), BudgetOf(m)
    PROVE  BudgetOf(m)'
<1> DEFINE q == Count(queue, m)
           l == Cardinality(Locking(m))
           r == Cardinality(Trying(m))
           h == Cardinality(Handling(m))
<1>1. CopiesOf(m)' /\ OnlyMoves(w)
  BY CopiesStep, MoverAlone
<1>2. /\ q \in Nat /\ q' \in Nat /\ h \in Nat /\ h' \in Nat
      /\ run[m].attempts \in Nat /\ run'[m].attempts \in Nat
      /\ tried[m] \in Nat /\ tried'[m] \in Nat /\ sends[m] \in Nat /\ sends' = sends
      /\ faults \in Nat /\ faults' \in Nat /\ faults <= faults' /\ MaxAttempts \in Nat \ {0}
  <2>1. run[m].attempts \in Nat /\ run'[m].attempts \in Nat /\ tried'[m] \in Nat
    BY DEF TypeOK, DbTypeOK, BoundTypeOK
  <2>2. q \in Nat /\ q' \in Nat
    BY CountType DEF TypeOK, RedisTypeOK
  <2>3. h \in Nat /\ h' \in Nat
    BY <1>1, FS_CardinalityType DEF CopiesOf
  <2> QED BY <1>1, <2>1, <2>2, <2>3, TailorAssumption DEF TypeOK, BoundTypeOK, OnlyMoves
<1>3. /\ l \in Nat /\ l' \in Nat /\ r \in Nat /\ r' \in Nat /\ r <= h /\ r' <= h'
      /\ l' + One(InLock(w, m)) = l + One(InLock(w, m))'
      /\ r' + One(InTry(w, m)) = r + One(InTry(w, m))'
  BY <1>1, WorkersAt DEF CopiesOf
<1>4. q' + h' <= sends[m] + faults'
  BY <1>1, <1>2 DEF CopiesOf
<1>5. /\ tried[m] + l <= run[m].attempts
      /\ run[m].status = "none" => run[m].attempts = 0
      /\ run[m].attempts >= MaxAttempts => tried[m] + q + r <= MaxAttempts - 1 + sends[m] + faults
  BY DEF BudgetOf
<1> SUFFICES /\ tried'[m] + l' <= run'[m].attempts
             /\ run'[m].status = "none" => run'[m].attempts = 0
             /\ run'[m].attempts >= MaxAttempts =>
                  tried'[m] + q' + r' <= MaxAttempts - 1 + sends[m] + faults'
  BY <1>2 DEF BudgetOf
<1>6. CASE cur[w] # m
  <2>1. run'[m] = run[m] /\ tried'[m] = tried[m] /\ ~InLock(w, m) /\ ~InTry(w, m)
    BY <1>1, <1>6 DEF OnlyMoves, InLock, InTry
  <2>2. q' + One(InTry(w, m))' <= q /\ ~InLock(w, m)'
    <3>1. queue \in Seq(MatchId) /\ m # NoMatch
      BY TailorAssumption DEF TypeOK, RedisTypeOK
    <3>2. CASE Keeps(w)
      BY <1>2, <1>6, <3>1, <3>2 DEF Keeps, InLock, InTry, One
    <3>3. CASE Takes(w)
      <4>1. q = q' + One(queue[Len(queue)] = m)
        BY <3>1, <3>3, CountPopped DEF Takes
      <4> QED BY <1>2, <3>1, <3>3, <4>1 DEF Takes, InLock, InTry, One
    <3>4. CASE Pushes(w)
      <4>1. q' = q
        BY <1>2, <1>6, <3>1, <3>4, CountAppend DEF Pushes, One
      <4> QED BY <1>2, <1>6, <3>1, <3>4, <4>1 DEF Pushes, InLock, InTry, One
    <3> QED BY <3>2, <3>3, <3>4, MessageMoves
  <2> QED BY <1>2, <1>3, <1>5, <2>1, <2>2 DEF One
<1>7. CASE cur[w] = m /\ CountKept(w, m)
  BY <1>2, <1>3, <1>5, <1>7 DEF CountKept, One
<1>8. CASE cur[w] = m /\ CountRisen(w, m)
  BY <1>2, <1>3, <1>4, <1>5, <1>8 DEF CountRisen, One
<1> QED BY <1>6, <1>7, <1>8, BudgetMoves

LEMMA BudgetOutside ==
    ASSUME TypeOK, Outside, NEW m \in MatchId, CopiesOf(m), BudgetOf(m)
    PROVE  BudgetOf(m)'
<1>1. UNCHANGED <<pc, cur, tries, ctx, run, tried, faults>>
  BY OutsideMoves
<1>2. Locking(m)' = Locking(m) /\ Trying(m)' = Trying(m)
  BY <1>1 DEF Locking, Trying, Handling, Ready
<1>3. /\ queue \in Seq(MatchId) /\ Count(queue, m) \in Nat /\ faults \in Nat /\ tried[m] \in Nat
      /\ sends \in [MatchId -> Nat] /\ MaxAttempts \in Nat /\ Cardinality(Trying(m)) \in Nat
  <2>1. Trying(m) \subseteq Handling(m)
    BY DEF Trying
  <2> QED BY <2>1, CountType, FS_Subset, FS_CardinalityType, TailorAssumption
          DEF TypeOK, RedisTypeOK, BoundTypeOK, CopiesOf
<1>4. CASE UNCHANGED <<queue, sends>>
  BY <1>1, <1>2, <1>4 DEF BudgetOf
<1>5. CASE \E x \in MatchId : Sent(x)
  <2>1. PICK x \in MatchId : Sent(x)
    BY <1>5
  <2>2. Count(queue', m) = Count(queue, m) + One(x = m)
    BY <1>3, <2>1, CountAppend DEF Sent
  <2>3. sends'[m] = sends[m] + One(x = m)
    BY <1>3, <2>1 DEF Sent, One
  <2> QED BY <1>1, <1>2, <1>3, <2>2, <2>3, SMTT(30) DEF BudgetOf, One
<1> QED BY <1>4, <1>5, OutsideMoves

LEMMA BudgetInit == Init => BudgetInv
<1> SUFFICES ASSUME Init, NEW m \in MatchId PROVE BudgetOf(m)
  BY CopiesInit DEF BudgetInv, CopiesInv
<1>1. Locking(m) = {}
  BY DEF Init, Locking, Handling
<1>2. tried[m] = 0 /\ run[m] = [status |-> "none", attempts |-> 0]
  BY DEF Init
<1> QED BY <1>1, <1>2, FS_EmptySet, TailorAssumption DEF BudgetOf

LEMMA BudgetNext == TypeOK /\ TypeOK' /\ BudgetInv /\ [Next]_vars => BudgetInv'
<1> SUFFICES ASSUME TypeOK, TypeOK', BudgetInv, [Next]_vars, NEW m \in MatchId
             PROVE  CopiesOf(m)' /\ BudgetOf(m)'
  BY DEF BudgetInv
<1>1. CopiesOf(m) /\ BudgetOf(m)
  BY DEF BudgetInv
<1> QED BY <1>1, NextMoves, CopiesStep, CopiesOutside, BudgetStep, BudgetOutside

LEMMA BudgetInvariant == Spec => []BudgetInv
BY TypeCorrect, BudgetInit, BudgetNext, PTL DEF Spec

\* A match is not tailored more often than MaxAttempts, counting one more for
\* each further delivery and for each error that hid BeginRun's count: with any
\* number of workers, and with locks that expire under a slow run.
THEOREM TriesAreBounded == Spec => []RetryBudget
<1>1. TypeOK /\ BudgetInv => RetryBudget
  <2> SUFFICES ASSUME TypeOK, BudgetInv, NEW m \in MatchId, tried[m] > 0
               PROVE  tried[m] < MaxAttempts + sends[m] + faults
    BY DEF RetryBudget
  <2>1. CopiesOf(m) /\ BudgetOf(m)
    BY DEF BudgetInv
  <2>2. Locking(m) \subseteq Handling(m) /\ Trying(m) \subseteq Handling(m)
    BY DEF Locking, Trying
  <2>3. /\ Cardinality(Locking(m)) \in Nat /\ Cardinality(Trying(m)) \in Nat
        /\ Count(queue, m) \in Nat
    BY <2>1, <2>2, FS_Subset, FS_CardinalityType, CountType DEF CopiesOf, TypeOK, RedisTypeOK
  <2>4. /\ tried[m] \in Nat /\ sends[m] \in Nat /\ faults \in Nat /\ MaxAttempts \in Nat
        /\ run[m].attempts \in Nat
    BY TailorAssumption DEF TypeOK, BoundTypeOK, DbTypeOK
  <2> QED BY <2>1, <2>3, <2>4 DEF BudgetOf
<1> QED BY <1>1, TypeCorrect, BudgetInvariant, PTL

-----------------------------------------------------------------------------
(* Outcomes.                                                                *)

LEMMA InQueue ==
    ASSUME NEW q \in Seq(MatchId), NEW m
    PROVE  (\E i \in 1..Len(q) : q[i] = m) <=> Count(q, m) > 0
<1>1. (\E i \in 1..Len(q) : q[i] = m) <=> At(q, m) # {}
  BY DEF At
<1> QED BY <1>1, CountType, FS_EmptySet DEF Count

LEMMA NoneOrOne ==
    ASSUME NEW S, IsFiniteSet(S), Cardinality(S) <= 1, NEW x \in S
    PROVE  S = {x} /\ Cardinality(S) = 1
<1>1. /\ IsFiniteSet(S \ {x}) /\ Cardinality(S \ {x}) = Cardinality(S) - 1
      /\ Cardinality(S) \in Nat /\ Cardinality(S \ {x}) \in Nat
  BY FS_RemoveElement, FS_CardinalityType
<1>2. Cardinality(S) = 1 /\ Cardinality(S \ {x}) = 0
  BY <1>1
<1> QED BY <1>1, <1>2, FS_EmptySet

\* A single message is either in the list or with one worker.
LEMMA OneCopy ==
    ASSUME TypeOK, NEW m \in MatchId, CopiesOf(m), Lone(m)
    PROVE  /\ sends[m] = 0 => ~Queued(m) /\ Handling(m) = {}
           /\ Queued(m) => Handling(m) = {} /\ Count(queue, m) = 1
           /\ \A w \in Handling(m) : Handling(m) = {w} /\ ~Queued(m) /\ sends[m] = 1
<1>1. /\ Count(queue, m) + Cardinality(Handling(m)) <= sends[m] /\ sends[m] <= 1
      /\ Count(queue, m) \in Nat /\ Cardinality(Handling(m)) \in Nat /\ sends[m] \in Nat
      /\ Queued(m) <=> Count(queue, m) > 0
      /\ IsFiniteSet(Handling(m))
  BY CountType, FS_CardinalityType, InQueue
     DEF CopiesOf, Lone, SentOnce, Queued, TypeOK, RedisTypeOK, BoundTypeOK
<1>2. Cardinality(Handling(m)) = 0 => Handling(m) = {}
  BY <1>1, FS_EmptySet
<1>3. \A w \in Handling(m) : Handling(m) = {w} /\ Cardinality(Handling(m)) = 1
  BY <1>1, NoneOrOne
<1> QED BY <1>1, <1>2, <1>3

\* What the step of the only worker at the only message of m leaves behind.
Leaves(m, w) ==
    /\ run'[m].status = "none" => run'[m].attempts = 0
    /\ run'[m].status = "completed" =>
         cur'[w] = NoMatch /\ queue' = queue /\ (row[m] = "live" => app'[m] = 1)
    /\ queue' # queue => tried'[m] = run'[m].attempts
    /\ m \in dlq' => tried'[m] >= MaxAttempts
    /\ cur'[w] = m => HandledAlone(m, w)'

LEMMA AloneMoves ==
    ASSUME TypeOK, NEW w \in Worker, WorkerMoves(w), NEW m \in MatchId, cur[w] = m,
           AloneOf(m), ~(Resends /\ faults' > 0)
    PROVE  Leaves(m, w)
<1> USE DEF Leaves, HandledAlone, One, Succeeds, Fails, Landed, Goto, Finish, dbVars, redisVars, boundVars
<1>1. /\ pc \in [Worker -> Pc] /\ cur \in [Worker -> MatchId \cup {NoMatch}]
      /\ tries \in [Worker -> Nat] /\ ctx \in [Worker -> {"live", "cut", "gone"}]
      /\ run \in [MatchId -> [status : RunStatus, attempts : Nat]]
      /\ tried \in [MatchId -> Nat] /\ faults \in Nat /\ app \in [MatchId -> Nat]
      /\ run[m].attempts \in Nat /\ tried[m] \in Nat
      /\ m # NoMatch /\ MaxAttempts \in Nat \ {0}
  BY TailorAssumption DEF TypeOK, WorkerTypeOK, DbTypeOK, BoundTypeOK, RedisTypeOK
<1>2. pc[w] \notin {"down", "idle"}
  BY <1>1 DEF TypeOK, WorkerTypeOK
<1>3. /\ HandledAlone(m, w) /\ run[m].status # "completed"
      /\ run[m].status = "none" => run[m].attempts = 0
      /\ m \in dlq => tried[m] >= MaxAttempts
  BY DEF AloneOf, Handling
<1>5. CASE Pop(w) \/ Exit(w) \/ Restart(w)
  BY <1>2, <1>5 DEF Pop, Exit, Restart
<1>6. CASE BeginRun(w)
  BY <1>1, <1>3, <1>6 DEF BeginRun
<1>7. CASE CreateRun(w)
  BY <1>1, <1>3, <1>7 DEF CreateRun
<1>8. CASE UpdateRun(w)
  BY <1>1, <1>3, <1>8 DEF UpdateRun
<1>9. CASE TryLock(w)
  BY <1>1, <1>3, <1>9 DEF TryLock
<1>10. CASE Fetch(w) \/ Pipeline(w)
  BY <1>1, <1>3, <1>10 DEF Fetch, Pipeline
<1>11. CASE ClearApplication(w)
  BY <1>1, <1>3, <1>11 DEF ClearApplication
<1>12. CASE InsertApplication(w)
  BY <1>1, <1>3, <1>12 DEF InsertApplication
<1>13. CASE CompleteRun(w)
  BY <1>1, <1>3, <1>13 DEF CompleteRun
<1>14. CASE Unlock(w)
  BY <1>1, <1>3, <1>14 DEF Unlock, Repeats
<1>15. CASE CountAttempts(w)
  BY <1>1, <1>3, <1>15 DEF CountAttempts
<1>16. CASE FailRun(w)
  BY <1>1, <1>3, <1>16 DEF FailRun, ShouldRetry
<1>17. CASE Retry(w)
  BY <1>1, <1>3, <1>17 DEF Retry, Repeats
<1>18. CASE Bury(w)
  BY <1>1, <1>3, <1>18 DEF Bury
<1>19. CASE Terminate(w) \/ Crash(w)
  BY <1>1, <1>3, <1>19 DEF Terminate, Crash
<1> QED BY <1>5, <1>6, <1>7, <1>8, <1>9, <1>10, <1>11, <1>12, <1>13, <1>14, <1>15, <1>16, <1>17,
           <1>18, <1>19 DEF WorkerMoves, WorkerStep

LEMMA AloneStep ==
    ASSUME TypeOK, TypeOK', NEW w \in Worker, WorkerMoves(w), NEW m \in MatchId,
           CopiesOf(m), CopiesOf(m)', AloneOf(m), Lone(m), Lone(m)'
    PROVE  AloneOf(m)'
<1>1. OnlyMoves(w) /\ (Keeps(w) \/ Takes(w) \/ Pushes(w))
  BY MoverAlone, MessageMoves
<1>2. /\ faults \in Nat /\ faults' \in Nat /\ m # NoMatch /\ queue \in Seq(MatchId)
      /\ tried[m] \in Nat /\ run[m].attempts \in Nat /\ sends' = sends
      /\ ~(Resends /\ faults' > 0)
  BY <1>1, TailorAssumption DEF TypeOK, BoundTypeOK, RedisTypeOK, DbTypeOK, OnlyMoves, Lone
<1>3. CASE cur[w] = m
  <2>1. Handling(m) = {w} /\ ~Queued(m) /\ sends[m] = 1 /\ Leaves(m, w)
    BY <1>2, <1>3, OneCopy, AloneMoves DEF Handling
  <2>2. Handling(m)' \subseteq {w} /\ (w \in Handling(m)' <=> cur'[w] = m)
    BY <1>1, <2>1 DEF Handling, OnlyMoves
  <2>3. queue' = queue => ~Queued(m)'
    BY <2>1 DEF Queued
  <2>4. row' = row
    BY <1>1 DEF OnlyMoves
  <2>5. /\ sends'[m] # 0
        /\ run'[m].status = "none" => run'[m].attempts = 0
        /\ Queued(m)' => tried'[m] = run'[m].attempts
        /\ m \in dlq' => tried'[m] >= MaxAttempts
    BY <1>2, <2>1, <2>3 DEF Leaves
  <2>6. run'[m].status = "completed" =>
          ~Queued(m)' /\ Handling(m)' = {} /\ (row'[m] = "live" => app'[m] = 1)
    BY <1>2, <2>1, <2>2, <2>3, <2>4 DEF Leaves
  <2>7. \A v \in Handling(m)' : HandledAlone(m, v)'
    BY <2>1, <2>2 DEF Leaves
  <2> QED BY <2>5, <2>6, <2>7 DEF AloneOf
<1>4. CASE cur[w] # m
  <2>1. /\ run'[m] = run[m] /\ tried'[m] = tried[m] /\ app'[m] = app[m] /\ row' = row
        /\ m \in dlq' <=> m \in dlq
    BY <1>1, <1>4 DEF OnlyMoves
  <2>2. \A v \in Worker \ {w} : /\ v \in Handling(m)' <=> v \in Handling(m)
                                /\ HandledAlone(m, v) => HandledAlone(m, v)'
    BY <1>1, <2>1 DEF OnlyMoves, Handling, HandledAlone
  <2>3. Queued(m)' => Queued(m)
    <3>1. queue' \in Seq(MatchId) /\ Count(queue, m) \in Nat /\ Count(queue', m) \in Nat
      BY CountType DEF TypeOK, RedisTypeOK
    <3>2. Count(queue', m) <= Count(queue, m)
      <4>1. CASE Keeps(w)
        BY <3>1, <4>1 DEF Keeps
      <4>2. CASE Takes(w)
        BY <1>2, <3>1, <4>2, CountPopped DEF Takes, One
      <4>3. CASE Pushes(w)
        BY <1>2, <1>4, <3>1, <4>3, CountAppend DEF Pushes, One
      <4> QED BY <1>1, <4>1, <4>2, <4>3
    <3> QED BY <1>2, <3>1, <3>2, InQueue DEF Queued
  <2>4. CASE cur'[w] = m
    <3>1. Takes(w) /\ queue[Len(queue)] = m
      BY <1>1, <1>2, <1>4, <2>4 DEF Keeps, Takes, Pushes
    <3>2. Queued(m)
      BY <1>2, <3>1, CountPopped, CountType, InQueue DEF Takes, One, Queued
    <3>3. Handling(m) = {} /\ tried[m] = run[m].attempts /\ run[m].status # "completed" /\ sends[m] # 0
      BY <3>2, OneCopy DEF AloneOf
    <3>4. Handling(m)' = {w} /\ pc'[w] \in {"idle", "begin"}
      BY <2>2, <2>4, <3>1, <3>3 DEF Handling, Takes
    <3>5. HandledAlone(m, w)'
      BY <1>2, <2>1, <3>3, <3>4 DEF HandledAlone, One
    <3>6. sends'[m] # 0 /\ run'[m].status # "completed"
      BY <1>2, <2>1, <3>3
    <3>7. /\ run'[m].status = "none" => run'[m].attempts = 0
          /\ Queued(m)' => tried'[m] = run'[m].attempts
          /\ m \in dlq' => tried'[m] >= MaxAttempts
      BY <2>1, <3>3 DEF AloneOf
    <3> QED BY <3>4, <3>5, <3>6, <3>7 DEF AloneOf
  <2>5. CASE cur'[w] # m
    <3>1. Handling(m)' = Handling(m) /\ w \notin Handling(m)
      BY <1>4, <2>2, <2>5 DEF Handling
    <3>2. \A v \in Handling(m) : HandledAlone(m, v)'
      BY <2>2, <3>1 DEF AloneOf, Handling
    <3> QED BY <1>2, <2>1, <2>3, <3>1, <3>2 DEF AloneOf
  <2> QED BY <2>4, <2>5
<1> QED BY <1>3, <1>4

\* What the steps outside the workers do to the rows of m.
RowsKept(m) ==
    /\ app'[m] \in {0, app[m]}
    /\ row'[m] = "live" => app'[m] = app[m] /\ row[m] # "deleted"
    /\ row'[m] # "live" => app'[m] = 0
    /\ row'[m] = "absent" => row[m] = "absent"
    /\ row'[m] = "deleted" /\ app[m] > 0 => m \in purge
    /\ app[m] > 0 => app'[m] > 0 \/ row'[m] = "deleted"

LEMMA OutsideRows ==
    ASSUME TypeOK, Outside, NEW m \in MatchId, row[m] # "live" => app[m] = 0
    PROVE  RowsKept(m)
<1> USE DEF TypeOK, DbTypeOK, RowsKept, workerVars, redisVars, dbVars, boundVars
<1>1. CASE \E x \in MatchId : CreateMatch(x)
  BY <1>1 DEF CreateMatch
<1>2. CASE \E x \in MatchId : EnqueueMatch(x) \/ MarkSent(x) \/ UnmarkSent(x) \/ ExpireLock(x)
  BY <1>2 DEF EnqueueMatch, MarkSent, UnmarkSent, ExpireLock
<1>3. CASE SubmitProfile
  BY <1>3 DEF SubmitProfile, DeleteRows, PendingMatches
<1>4. CASE DeletePurge
  BY <1>4 DEF DeletePurge, DeleteRows
<1>5. CASE SelectPurge \/ UNCHANGED vars
  BY <1>5 DEF SelectPurge, vars
<1> QED BY <1>1, <1>2, <1>3, <1>4, <1>5 DEF Outside, Environment

LEMMA AloneOutside ==
    ASSUME TypeOK, TypeOK', Outside, NEW m \in MatchId, CopiesOf(m), Lone(m), Lone(m)',
           row[m] # "live" => app[m] = 0, sends[m] > 0 => row[m] # "absent", AloneOf(m)
    PROVE  AloneOf(m)'
<1>1. UNCHANGED <<pc, cur, tries, ctx, run, tried, faults, dlq>> /\ RowsKept(m)
  BY OutsideMoves, OutsideRows
<1>2. /\ queue \in Seq(MatchId) /\ sends \in [MatchId -> Nat] /\ tried[m] \in Nat
      /\ run \in [MatchId -> [status : RunStatus, attempts : Nat]] /\ MaxAttempts \in Nat \ {0}
      /\ app[m] \in Nat /\ app'[m] \in Nat
  BY TailorAssumption DEF TypeOK, RedisTypeOK, BoundTypeOK, DbTypeOK
<1>3. Handling(m)' = Handling(m)
  BY <1>1 DEF Handling
<1>4. CASE \E x \in MatchId : x = m /\ Sent(x) /\ UNCHANGED dbVars
  <2>1. sends[m] = 0 /\ sends'[m] = 1 /\ UNCHANGED <<run, app, row>>
    BY <1>2, <1>4 DEF Sent, Lone, SentOnce, dbVars
  <2>2. Handling(m)' = {} /\ tried'[m] = 0 /\ run'[m] = [status |-> "none", attempts |-> 0]
    BY <1>1, <1>3, <2>1, OneCopy DEF AloneOf
  <2> QED BY <1>1, <1>2, <2>1, <2>2 DEF AloneOf
<1>5. CASE \/ UNCHANGED <<queue, sends>>
           \/ \E x \in MatchId : x # m /\ Sent(x)
  <2>1. sends'[m] = sends[m] /\ (Queued(m)' <=> Queued(m))
    <3>1. CASE UNCHANGED <<queue, sends>>
      BY <3>1 DEF Queued
    <3>2. CASE \E x \in MatchId : x # m /\ Sent(x)
      <4>1. PICK x \in MatchId : x # m /\ Sent(x)
        BY <3>2
      <4>2. Count(queue', m) = Count(queue, m) /\ queue' \in Seq(MatchId) /\ Count(queue, m) \in Nat
        BY <1>2, <4>1, CountAppend, CountType DEF Sent, One
      <4> QED BY <1>2, <4>1, <4>2, InQueue DEF Sent, Queued
    <3> QED BY <1>5, <3>1, <3>2
  <2>2. sends[m] # 0 => sends[m] > 0
    BY <1>2
  <2>3. run'[m].status = "completed" =>
          ~Queued(m)' /\ Handling(m)' = {} /\ (row'[m] = "live" => app'[m] = 1)
    <3> SUFFICES ASSUME run[m].status = "completed"
                 PROVE  ~Queued(m) /\ Handling(m) = {} /\ (row'[m] = "live" => app'[m] = 1)
      BY <1>1, <1>3, <2>1
    <3>1. sends[m] # 0 /\ ~Queued(m) /\ Handling(m) = {} /\ (row[m] = "live" => app[m] = 1)
      BY DEF AloneOf
    <3>2. row[m] # "absent"
      BY <2>2, <3>1
    <3> QED BY <1>1, <3>1, <3>2 DEF RowsKept, TypeOK, DbTypeOK
  <2>4. \A w \in Handling(m)' : HandledAlone(m, w)'
    <3> SUFFICES ASSUME NEW w \in Handling(m) PROVE HandledAlone(m, w)'
      BY <1>3
    <3>1. HandledAlone(m, w) /\ sends[m] = 1
      BY OneCopy DEF AloneOf
    <3>2. row[m] # "absent"
      BY <2>2, <3>1
    <3> QED BY <1>1, <3>1, <3>2 DEF RowsKept, HandledAlone, TypeOK, DbTypeOK
  <2>5. sends'[m] = 0 => run'[m] = [status |-> "none", attempts |-> 0] /\ tried'[m] = 0 /\ app'[m] = 0
    BY <1>1, <2>1 DEF AloneOf, RowsKept
  <2>6. /\ run'[m].status = "none" => run'[m].attempts = 0
        /\ Queued(m)' => tried'[m] = run'[m].attempts
        /\ m \in dlq' => tried'[m] >= MaxAttempts
    BY <1>1, <2>1 DEF AloneOf
  <2> QED BY <2>3, <2>4, <2>5, <2>6 DEF AloneOf
<1> QED BY <1>4, <1>5, OutsideMoves

\* With one message and no fault, a worker that has stored the application
\* pushes nothing more.
LEMMA StaysMoves ==
    ASSUME TypeOK, NEW w \in Worker, WorkerMoves(w), NEW m \in MatchId, cur[w] = m,
           faults' = 0, app'[m] > 0, app[m] > 0 => Stopping(w)
    PROVE  queue' = queue /\ (cur'[w] = m => Stopping(w)')
<1> USE DEF Stopping, Succeeds, Fails, Landed, Goto, Finish, dbVars, redisVars, boundVars
<1>1. /\ pc \in [Worker -> Pc] /\ cur \in [Worker -> MatchId \cup {NoMatch}]
      /\ ctx \in [Worker -> {"live", "cut", "gone"}]
      /\ app \in [MatchId -> Nat] /\ m # NoMatch /\ faults \in Nat
  BY TailorAssumption DEF TypeOK, WorkerTypeOK, DbTypeOK, BoundTypeOK
<1>2. pc[w] \notin {"down", "idle"}
  BY <1>1 DEF TypeOK, WorkerTypeOK
<1>3. CASE app[m] > 0 /\ Stopping(w)
  <2>1. CASE CompleteRun(w)
    BY <1>1, <1>3, <2>1 DEF CompleteRun
  <2>2. CASE Unlock(w) \/ CountAttempts(w)
    BY <1>1, <1>3, <2>2 DEF Unlock, CountAttempts, Repeats
  <2>3. CASE FailRun(w)
    BY <1>1, <1>3, <2>3 DEF FailRun
  <2>4. CASE Retry(w) \/ Bury(w)
    BY <1>1, <1>3, <2>4 DEF Retry, Bury, Repeats
  <2>5. CASE Terminate(w) \/ Crash(w)
    BY <1>1, <1>3, <2>5 DEF Terminate, Crash
  <2>6. pc[w] \in {"complete", "unlock", "count", "fail", "retry", "bury"}
    BY <1>3
  <2> QED BY <2>1, <2>2, <2>3, <2>4, <2>5, <2>6
          DEF WorkerMoves, WorkerStep, Pop, BeginRun, CreateRun, UpdateRun, TryLock, Fetch, Pipeline,
              ClearApplication, InsertApplication, Exit, Restart
<1>4. CASE ~(app[m] > 0)
  <2>1. CASE InsertApplication(w)
    BY <1>1, <1>4, <2>1 DEF InsertApplication
  <2>2. CASE ClearApplication(w)
    BY <1>1, <1>4, <2>2 DEF ClearApplication
  <2>3. app' # app
    BY <1>4
  <2> QED BY <2>1, <2>2, <2>3
          DEF WorkerMoves, WorkerStep, Pop, BeginRun, CreateRun, UpdateRun, TryLock, Fetch, Pipeline,
              CompleteRun, Unlock, CountAttempts, FailRun, Retry, Bury, Terminate, Exit, Crash, Restart
<1> QED BY <1>3, <1>4

\* The two facts about rows that need no count of messages.
LEMMA RowsStep ==
    ASSUME TypeOK, NEW w \in Worker, WorkerMoves(w), NEW m \in MatchId, row[m] # "live" => app[m] = 0
    PROVE  row' = row /\ sends' = sends /\ (row'[m] # "live" => app'[m] = 0)
<1> USE DEF TypeOK, DbTypeOK, dbVars
<1>1. row' = row /\ sends' = sends
  BY MoverAlone DEF OnlyMoves
<1>2. CASE InsertApplication(w)
  BY <1>1, <1>2 DEF InsertApplication
<1>3. CASE ClearApplication(w)
  BY <1>1, <1>3 DEF ClearApplication
<1>4. CASE ~InsertApplication(w) /\ ~ClearApplication(w)
  <2>1. app' = app
    BY <1>4 DEF WorkerMoves, WorkerStep, Pop, BeginRun, CreateRun, UpdateRun, TryLock, Fetch, Pipeline,
        CompleteRun, Unlock, CountAttempts, FailRun, Retry, Bury, Terminate, Exit, Crash, Restart
  <2> QED BY <1>1, <2>1
<1> QED BY <1>2, <1>3, <1>4

\* A match was Lone if it is after a step: what was sent and lost only grows.
LEMMA LoneBefore ==
    ASSUME TypeOK, [Next]_vars, NEW m \in MatchId
    PROVE  /\ Lone(m)' => Lone(m)
           /\ faults' = 0 => faults = 0
           /\ SentOnce(m)' => SentOnce(m)
<1>1. /\ faults \in Nat /\ faults' \in Nat /\ faults <= faults'
      /\ sends[m] \in Nat /\ sends'[m] \in Nat /\ sends[m] <= sends'[m]
  <2>1. CASE \E w \in Worker : WorkerMoves(w)
    BY <2>1, MoverAlone DEF OnlyMoves, TypeOK, BoundTypeOK
  <2>2. CASE Outside
    BY <2>2, OutsideMoves DEF Sent, TypeOK, BoundTypeOK
  <2> QED BY <2>1, <2>2, NextMoves
<1>2. (faults' = 0 => faults = 0) /\ (sends'[m] <= 1 => sends[m] <= 1)
  BY <1>1
<1> QED BY <1>2 DEF Lone, SentOnce

LEMMA StaysStep ==
    ASSUME TypeOK, TypeOK', [Next]_vars, NEW m \in MatchId, CopiesOf(m), OutcomeOf(m),
           faults' = 0, SentOnce(m)', app'[m] > 0
    PROVE  StaysOf(m)'
<1>1. faults = 0 /\ SentOnce(m) /\ Lone(m) /\ m # NoMatch /\ queue \in Seq(MatchId)
  BY LoneBefore, TailorAssumption DEF Lone, TypeOK, RedisTypeOK
<1>2. CASE \E w \in Worker : WorkerMoves(w)
  <2>1. PICK w \in Worker : WorkerMoves(w)
    BY <1>2
  <2>2. OnlyMoves(w) /\ (Keeps(w) \/ Takes(w) \/ Pushes(w))
    BY <2>1, MoverAlone, MessageMoves
  <2>3. CASE cur[w] = m
    <3>1. Handling(m) = {w} /\ ~Queued(m)
      BY <1>1, <2>3, OneCopy DEF Handling
    <3>2. app[m] > 0 => Stopping(w)
      BY <1>1, <3>1 DEF OutcomeOf, StaysOf
    <3>3. queue' = queue /\ (cur'[w] = m => Stopping(w)')
      BY <2>1, <2>3, <3>2, StaysMoves
    <3>4. ~Queued(m)'
      BY <3>1, <3>3 DEF Queued
    <3>5. Handling(m)' \subseteq {w}
      BY <2>2, <3>1 DEF Handling, OnlyMoves
    <3> QED BY <3>3, <3>4, <3>5 DEF StaysOf, Handling
  <2>4. CASE cur[w] # m
    <3>1. app'[m] = app[m] /\ StaysOf(m)
      BY <1>1, <2>2, <2>4 DEF OnlyMoves, OutcomeOf
    <3>2. Count(queue, m) = 0
      BY <1>1, <3>1, CountType, InQueue DEF StaysOf, Queued
    <3>3. cur'[w] # m /\ queue' \in Seq(MatchId) /\ Count(queue', m) = 0
      <4>1. CASE Keeps(w)
        BY <1>1, <2>4, <3>2, <4>1 DEF Keeps
      <4>2. CASE Takes(w)
        BY <1>1, <3>2, <4>2, CountPopped, CountType DEF Takes, One
      <4>3. CASE Pushes(w)
        BY <1>1, <2>4, <3>2, <4>3, CountAppend DEF Pushes, One
      <4> QED BY <2>2, <4>1, <4>2, <4>3 DEF TypeOK, RedisTypeOK
    <3>4. ~Queued(m)'
      BY <3>3, InQueue DEF Queued
    <3>5. \A v \in Handling(m)' : v \in Handling(m) /\ (Stopping(v) => Stopping(v)')
      BY <2>2, <3>3 DEF Handling, OnlyMoves, Stopping
    <3> QED BY <3>1, <3>4, <3>5 DEF StaysOf
  <2> QED BY <2>3, <2>4
<1>3. CASE Outside
  <2>1. UNCHANGED <<pc, cur, ctx>> /\ app[m] > 0
    BY <1>3, OutsideMoves, OutsideRows DEF OutcomeOf, RowsKept, TypeOK, DbTypeOK
  <2>2. StaysOf(m) /\ Count(queue, m) = 0
    BY <1>1, <2>1, CountType, InQueue DEF OutcomeOf, StaysOf, Queued
  <2>3. CASE UNCHANGED <<queue, sends>>
    BY <2>1, <2>2, <2>3 DEF StaysOf, Queued, Handling, Stopping
  <2>4. CASE \E x \in MatchId : Sent(x)
    <3>1. PICK x \in MatchId : Sent(x)
      BY <2>4
    <3>2. x # m
      <4>1. ASSUME x = m PROVE sends[m] = 0
        BY <1>1, <3>1, <4>1 DEF Sent, SentOnce, TypeOK, BoundTypeOK
      <4> QED BY <1>1, <2>1, <4>1 DEF OutcomeOf, AloneOf
    <3>3. ~Queued(m)'
      <4>1. Count(queue', m) = 0 /\ queue' \in Seq(MatchId)
        BY <1>1, <2>2, <3>1, <3>2, CountAppend DEF Sent, One
      <4> QED BY <4>1, InQueue DEF Queued
    <3> QED BY <2>1, <2>2, <3>3 DEF StaysOf, Handling, Stopping
  <2> QED BY <1>3, <2>3, <2>4, OutsideMoves
<1> QED BY <1>2, <1>3, NextMoves

LEMMA OutcomeStep ==
    ASSUME TypeOK, TypeOK', [Next]_vars, NEW m \in MatchId, CopiesOf(m), CopiesOf(m)', OutcomeOf(m)
    PROVE  OutcomeOf(m)'
<1>1. /\ row'[m] # "live" => app'[m] = 0
      /\ sends'[m] > 0 => row'[m] # "absent"
  <2>1. row[m] # "live" => app[m] = 0
    BY DEF OutcomeOf
  <2>2. CASE \E w \in Worker : WorkerMoves(w)
    BY <2>1, <2>2, RowsStep DEF OutcomeOf
  <2>3. CASE Outside
    <3>1. RowsKept(m)
      BY <2>1, <2>3, OutsideRows
    <3>2. sends'[m] > 0 => row[m] # "absent"
      BY <2>3, OutsideMoves DEF Sent, OutcomeOf, TypeOK, BoundTypeOK
    <3> QED BY <3>1, <3>2 DEF RowsKept
  <2> QED BY <2>2, <2>3, NextMoves
<1>2. Lone(m)' => AloneOf(m)'
  <2> SUFFICES ASSUME Lone(m)' PROVE AloneOf(m)'
    OBVIOUS
  <2>1. Lone(m) /\ AloneOf(m)
    BY LoneBefore DEF OutcomeOf
  <2> QED BY <2>1, NextMoves, AloneStep, AloneOutside DEF OutcomeOf
<1>3. faults' = 0 /\ SentOnce(m)' /\ app'[m] > 0 => StaysOf(m)'
  BY StaysStep
<1> QED BY <1>1, <1>2, <1>3 DEF OutcomeOf

LEMMA OutcomeInit == Init => OutcomeInv
<1> SUFFICES ASSUME Init, NEW m \in MatchId PROVE OutcomeOf(m)
  BY DEF OutcomeInv
<1>1. /\ app[m] = 0 /\ tried[m] = 0 /\ run[m] = [status |-> "none", attempts |-> 0]
      /\ sends[m] = 0 /\ Handling(m) = {} /\ dlq = {}
  BY TailorAssumption DEF Init, Handling
<1> QED BY <1>1 DEF OutcomeOf, AloneOf

LEMMA OutcomeInvariant == Spec => [](TypeOK /\ CopiesInv /\ OutcomeInv)
<1>1. TypeOK /\ TypeOK' /\ CopiesInv /\ CopiesInv' /\ OutcomeInv /\ [Next]_vars => OutcomeInv'
  BY OutcomeStep DEF CopiesInv, OutcomeInv
<1> QED BY <1>1, TypeCorrect, CopiesInvariant, OutcomeInit, PTL DEF Spec

\* How a match's tailoring ended is what Postgres and the dead letters say,
\* whatever reply was lost or worker stopped, if no command is issued twice:
\* PushDLQ only after MaxAttempts tries, CompleteRun only with its application.
THEOREM OutcomesAreRecorded == ASSUME ~Resends PROVE Spec => []OutcomesAreTrue
<1>1. TypeOK /\ CopiesInv /\ OutcomeInv => OutcomesAreTrue
  <2> SUFFICES ASSUME TypeOK, OutcomeInv, NEW m \in MatchId, SentOnce(m)
               PROVE  /\ m \in dlq => tried[m] >= MaxAttempts
                      /\ run[m].status = "completed" /\ row[m] = "live" => app[m] = 1
    BY DEF OutcomesAreTrue, DeadLetterIsExhausted, CompletedHasApplication, TypeOK, RedisTypeOK
  <2>1. AloneOf(m)
    BY DEF OutcomeInv, OutcomeOf, Lone
  <2> QED BY <2>1 DEF AloneOf
<1> QED BY <1>1, OutcomeInvariant, PTL

\* No step sets a completed run of a match delivered once back to another
\* status: BeginRun's UPDATE and FailRun name the row by id alone, and only the
\* single message keeps them from meeting a completed one.
THEOREM CompletedStays == ASSUME ~Resends PROVE Spec => CompletedIsFinal
<1> DEFINE A == \A m \in MatchId : run[m].status = "completed" /\ SentOnce(m)
                                    => run'[m].status = "completed"
<1>1. TypeOK /\ CopiesInv /\ OutcomeInv /\ [Next]_vars => A
  <2> SUFFICES ASSUME TypeOK, CopiesInv, OutcomeInv, [Next]_vars, NEW m \in MatchId,
                      run[m].status = "completed", SentOnce(m)
               PROVE  run'[m].status = "completed"
    OBVIOUS
  <2>1. Handling(m) = {}
    BY DEF OutcomeInv, OutcomeOf, Lone, AloneOf
  <2>2. CASE \E w \in Worker : WorkerMoves(w)
    BY <2>1, <2>2, MoverAlone DEF OnlyMoves, Handling
  <2>3. CASE Outside
    BY <2>3, OutsideMoves
  <2> QED BY <2>2, <2>3, NextMoves
<1>2. (TypeOK /\ CopiesInv /\ OutcomeInv) /\ [Next]_vars => [A]_vars
  BY <1>1
<1>3. Spec => [][A]_vars
  BY <1>2, OutcomeInvariant, PTL DEF Spec
<1> QED BY <1>3 DEF CompletedIsFinal

\* Without a fault or a second delivery a stored application stays until its
\* match is deleted, whatever SIGTERM or crash comes; and a match with one is
\* deleted only if a settings change had selected it before.
THEOREM StoredApplicationsStay == Spec => ApplicationsStay
<1> DEFINE A == \A m \in MatchId : app[m] > 0 =>
                   /\ faults = 0 /\ SentOnce(m) => app'[m] > 0 \/ row'[m] = "deleted"
                   /\ row'[m] = "deleted" => m \in purge
<1>1. TypeOK /\ CopiesInv /\ OutcomeInv /\ [Next]_vars => A
  <2> SUFFICES ASSUME TypeOK, CopiesInv, OutcomeInv, [Next]_vars, NEW m \in MatchId, app[m] > 0
               PROVE  /\ faults = 0 /\ SentOnce(m) => app'[m] > 0 \/ row'[m] = "deleted"
                      /\ row'[m] = "deleted" => m \in purge
    OBVIOUS
  <2>1. /\ row[m] # "live" => app[m] = 0
        /\ faults = 0 /\ SentOnce(m) => StaysOf(m)
        /\ row[m] = "live"
    BY DEF OutcomeInv, OutcomeOf
  <2>2. CASE \E w \in Worker : WorkerMoves(w)
    <3>1. PICK w \in Worker : WorkerMoves(w)
      BY <2>2
    <3>2. row' = row
      BY <2>1, <3>1, RowsStep
    <3>3. cur[w] # m => app'[m] = app[m]
      BY <3>1, MoverAlone DEF OnlyMoves
    <3>4. cur[w] = m /\ Stopping(w) => app' = app
      BY <3>1 DEF Stopping, WorkerMoves, WorkerStep, Pop, BeginRun, CreateRun, UpdateRun, TryLock, Fetch,
         Pipeline, ClearApplication, InsertApplication, CompleteRun, Unlock, CountAttempts, FailRun,
         Retry, Bury, Terminate, Exit, Crash, Restart, dbVars
    <3> QED BY <2>1, <3>2, <3>3, <3>4 DEF StaysOf, Handling
  <2>3. CASE Outside
    BY <2>1, <2>3, OutsideRows DEF RowsKept
  <2> QED BY <2>2, <2>3, NextMoves
<1>2. (TypeOK /\ CopiesInv /\ OutcomeInv) /\ [Next]_vars => [A]_vars
  BY <1>1
<1>3. Spec => [][A]_vars
  BY <1>2, OutcomeInvariant, PTL DEF Spec
<1> QED BY <1>3 DEF ApplicationsStay
=============================================================================
