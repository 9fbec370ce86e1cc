----------------------------- MODULE JobSystem ------------------------------
(***************************************************************************)
(* The job pipeline: API handlers, Redis, the ARQ queue and the workers,     *)
(* under the faults an instance allows.                                     *)
(***************************************************************************)
EXTENDS JobRunner, JobApi, SequencesExt

CONSTANTS
    Faults,       \* the kinds of fault that may occur, a subset of FaultKinds
    MaxRestarts   \* bound: worker processes lost or stopped

(* "abort":      the ARQ abort that follows a cancel request reaches ARQ;    *)
(* "crash":      a worker process dies;                                      *)
(* "sigterm":    a worker is told to stop, cancels its runs and exits;       *)
(* "slow_model": job_timeout passes while the run awaits the model server;   *)
(* "slow_redis": job_timeout passes while it awaits Redis;                   *)
(* "redis":      a Redis command of a run fails;                             *)
(* "expiry":     keys expire while the job is still in use.                  *)
FaultKinds == {"abort", "crash", "sigterm", "slow_model", "slow_redis", "redis", "expiry"}

ASSUME FaultAssumption == Faults \subseteq FaultKinds /\ MaxRestarts \in Nat

VARIABLES
    stopping,  \* the workers that have received SIGTERM
    restarts   \* worker processes lost or stopped so far

sysVars == <<stopping, restarts>>
vars == <<storeVars, arqVars, runVars, apiVars, sysVars>>

TypeOK ==
    /\ StoreTypeOK
    /\ ArqTypeOK
    /\ RunnerTypeOK
    /\ ApiTypeOK
    /\ stopping \in SUBSET Workers
    /\ restarts \in 0..MaxRestarts

Init ==
    /\ StoreInit
    /\ ArqInit
    /\ RunnerInit
    /\ ApiInit
    /\ stopping = {}
    /\ restarts = 0

-----------------------------------------------------------------------------
Api ==
    /\ \/ ApiStep
       \/ "abort" \in Faults /\ AbortStep
    /\ UNCHANGED <<runVars, sysVars>>

Start(w, j) ==
    /\ w \notin stopping
    /\ StartRun(w, j)
    /\ UNCHANGED <<apiVars, sysVars>>

DiscardJob(j) ==
    /\ \E w \in Workers \ stopping : HasSlot(w)
    /\ DiscardRun(j)
    /\ UNCHANGED <<apiVars, sysVars>>

(* What the coroutine of job j and ARQ's wrapper around it do next.          *)
RunStep(j) ==
    \/ GetRecord(j) \/ CheckCancel(j) \/ MarkRunning(j) \/ AnnounceRunning(j)
    \/ EnterTry(j) \/ CallReturns(j) \/ ReceiveChunk(j) \/ StreamEnds(j)
    \/ PollCancel(j) \/ PushToken(j) \/ ArmTokens(j) \/ PublishToken(j)
    \/ CallFailsTransiently(j) \/ CallFails(j) \/ Requeue(j) \/ RaiseRetry(j)
    \/ RunFinal(j) \/ EndFinal(j) \/ EndRun(j)

Run(j) == RunStep(j) /\ UNCHANGED <<apiVars, sysVars>>

OrphanStep ==
    /\ \E o \in orphans : OrphanFinal(o) \/ OrphanEnds(o)
    /\ UNCHANGED <<apiVars, sysVars>>

Abort(j) ==
    /\ owner[j] \notin stopping
    /\ DeliverAbort(j)
    /\ UNCHANGED <<apiVars, sysVars>>

-----------------------------------------------------------------------------
Crash(w) ==
    /\ "crash" \in Faults
    /\ restarts < MaxRestarts
    /\ restarts' = restarts + 1
    /\ KillWorker(w)
    /\ stopping' = stopping \ {w}
    /\ UNCHANGED apiVars

Sigterm(w) ==
    /\ "sigterm" \in Faults
    /\ restarts < MaxRestarts
    /\ w \notin stopping
    /\ restarts' = restarts + 1
    /\ stopping' = stopping \cup {w}
    /\ Interrupt({j \in RunsOf(w) : Cancellable(j)}, "sigterm")
    /\ UNCHANGED <<storeVars, arqVars, apiVars>>

(* The process exits when its runs have ended, whatever its detached         *)
(* finalizers still have to do, and a new one takes its place.               *)
Exit(w) ==
    /\ w \in stopping
    /\ RunsOf(w) = {}
    /\ KillWorker(w)
    /\ stopping' = stopping \ {w}
    /\ UNCHANGED <<apiVars, restarts>>

JobTimeout(j) ==
    /\ IF pc[j] = "call" THEN "slow_model" \in Faults ELSE "slow_redis" \in Faults
    /\ Timeout(j)
    /\ UNCHANGED <<apiVars, sysVars>>

RedisFails(j) ==
    /\ "redis" \in Faults
    /\ RedisError(j)
    /\ UNCHANGED <<apiVars, sysVars>>

KeyExpires(j) ==
    /\ "expiry" \in Faults
    /\ DropHash(j) \/ DropTokens(j)
    /\ UNCHANGED <<arqVars, runVars, apiVars, sysVars>>

Recover(j) == InProgressExpires(j) /\ UNCHANGED <<apiVars, sysVars>>

-----------------------------------------------------------------------------
Next ==
    \/ Api
    \/ \E w \in Workers, j \in Jobs : Start(w, j)
    \/ \E j \in Jobs : DiscardJob(j) \/ Run(j) \/ Abort(j) \/ Recover(j)
    \/ OrphanStep
    \/ \E w \in Workers : Crash(w) \/ Sigterm(w) \/ Exit(w)
    \/ \E j \in Jobs : JobTimeout(j) \/ RedisFails(j) \/ KeyExpires(j)

Spec == Init /\ [][Next]_vars

(* Workers keep running and polling, in-progress keys expire, and a model    *)
(* server that streams for ever is cut off by job_timeout.  Nothing obliges  *)
(* a client, or the API process, to take a step.                             *)
Fairness ==
    /\ \A j \in Jobs :
         /\ WF_vars(Run(j)) /\ WF_vars(DiscardJob(j)) /\ WF_vars(Recover(j))
         /\ SF_vars(StreamEnds(j) /\ UNCHANGED <<apiVars, sysVars>>)
    /\ \A w \in Workers, j \in Jobs : WF_vars(Start(w, j))
    /\ \A w \in Workers : WF_vars(Exit(w))
    /\ WF_vars(OrphanStep)

FairSpec == Spec /\ Fairness

-----------------------------------------------------------------------------
(* Safety.                                                                  *)

(* A job whose record is terminal never goes back to QUEUED or RUNNING       *)
(* (models.TERMINAL_STATUSES): no retry, late cancel or second run of the    *)
(* same job undoes a finalize().                                            *)
NoReopening ==
    \A j \in Jobs : IsTerminal(j) => hash'[j].status \notin {"queued", "running"}

TerminalNeverReopens == [][NoReopening]_vars

(* What clients are promised (JobLifecycle) is what the pipeline does, when  *)
(* the terminal events of a channel are taken for the announcement.          *)
Ends(j) == {i \in DOMAIN channel[j] : channel[j][i].type \in {"done", "error"}}

Announced(j) ==
    IF Ends(j) = {} THEN "none"
    ELSE IF \E i \in Ends(j) : Ends(j) = {i}
      THEN channel[j][CHOOSE i \in Ends(j) : TRUE].status ELSE "again"

Lifecycle == INSTANCE JobLifecycle WITH
    status    <- [j \in Jobs |-> hash[j].status],
    attempts  <- [j \in Jobs |-> hash[j].attempts],
    announced <- [j \in Jobs |-> Announced(j)]

ImplementsLifecycle == Lifecycle!LifeSpec

(* A job ARQ has forgotten, which nothing will move again.                   *)
Abandoned(j) ==
    /\ phase[j] = "enqueued"
    /\ j \notin queue
    /\ pc[j] = "idle"
    /\ \A o \in orphans : o.job # j

(* The retry arithmetic of run_job and ARQ's max_tries agree: ARQ never       *)
(* drops a job run_job has requeued, so a job that is abandoned before its   *)
(* record is terminal has lost a worker process, aborts aside: what they do  *)
(* to a job that has not started, CancelledJobsSettle shows.                 *)
NeverStranded ==
    \A j \in Jobs : Abandoned(j) /\ ~IsTerminal(j) => restarts > 0

(* ARQ forgets a job for a reason: it completed or failed, its tries are used  *)
(* up, its client cancelled it, or run_job marked it CANCELLED by itself.     *)
(* That happens when the model answers null (tasks.py:57), when job_timeout   *)
(* cuts the run, and when a worker is told to stop (tasks.py:61): then ARQ    *)
(* keeps the job, but the next run finds a terminal record and returns       *)
(* (tasks.py:33), so that the work nobody cancelled is not done. (restarts   *)
(* counts lost workers, too, but those write nothing.)                       *)
Excused(j) ==
    \/ hash[j].status \in {"completed", "failed"}
    \/ tries[j] = MaxTries
    \/ hash[j].cancel
    \/ /\ hash[j].status = "cancelled"
       /\ j \notin streams \/ "timeout" \in intr[j] \/ restarts > 0

DropsOnlyTheExcused == \A j \in queue \ queue' : Excused(j)

JobsDroppedForAReason == [][DropsOnlyTheExcused]_vars

(* Once the cancel request is announced, the attempt in flight publishes at  *)
(* most the rest of the chunk it had polled for, and no other attempt        *)
(* publishes a token (tasks._run_chat_stream polls before every chunk).      *)
AfterCancel(j, i) ==
    \E k \in 1..(i - 1) : channel[j][k] = StatusEvent("cancelled")

LateTokens(j) ==
    {i \in DOMAIN channel[j] : channel[j][i].type = "token" /\ AfterCancel(j, i)}

CancelOvershoot == \A j \in Jobs : Cardinality(LateTokens(j)) <= MaxDeltas

(* The result of a completed stream is what the token buffer ends with, over *)
(* retries, lost workers and late finalizers.                                *)
BufferEndsWithResult ==
    \A j \in streams :
        hash[j].result # NoResult => IsSuffix(hash[j].result, tokens[j])

(* The live events carry the buffer's tokens under the buffer's positions,   *)
(* each once and in order, so that a position names the same token in the    *)
(* replay and in the live tail (streaming.stream_job_events).                *)
TokenEvents(j) == {i \in DOMAIN channel[j] : channel[j][i].type = "token"}

TokenEventsFaithful ==
    \A j \in Jobs : \A i \in TokenEvents(j) :
        LET e == channel[j][i] IN
        /\ e.index < Len(tokens[j])
        /\ tokens[j][e.index + 1] = e.delta
        /\ \A k \in TokenEvents(j) : k < i => channel[j][k].index < e.index

(* Whoever is told on the channel that a job ended finds a terminal record:  *)
(* streaming reads the record again after DONE or ERROR and presents it as    *)
(* the final one.                                                           *)
TerminalEventMeansTerminal ==
    \A j \in Jobs : Announced(j) # "none" => IsTerminal(j)

(* A record that ended keeps its expiry, and so does its token buffer, even   *)
(* when the key expired and was written again while the job ran: finalize()  *)
(* sets both, after its last write.                                         *)
FinalizedRecordsExpire ==
    \A j \in Jobs : Abandoned(j) /\ IsTerminal(j) =>
        j \in hashTtl /\ (tokens[j] # <<>> => j \in tokenTtl)

-----------------------------------------------------------------------------
(* Statements of the repository that the code does not keep.                 *)

(* tests/test_tasks.py (test_cancel_before_start): a job cancelled before it   *)
(* starts ends CANCELLED.  The abort that cancel_job also sends makes ARQ     *)
(* drop the job without calling run_job.                                    *)
CancelledJobsSettle ==
    \A j \in Jobs : Abandoned(j) /\ hash[j].cancel => IsTerminal(j)

(* README, LSM_JOB_TTL_S: "How long job records live in Redis."  An update of *)
(* a record that has just expired leaves a hash that never does.             *)
RecordsExpire ==
    \A j \in Jobs : Exists(j) /\ Abandoned(j) => j \in hashTtl

-----------------------------------------------------------------------------
(* Liveness: every job that reached the queue gets its final event on the     *)
(* channel, but for three cases in which the code publishes none.            *)

(* 1. A worker died, or exited, between a finalize()'s HSET and its PUBLISH   *)
(*    (job_store.py:126-136): ARQ reruns the job, and run_job returns because *)
(*    the record is terminal (tasks.py:34).                                  *)
LostWithItsWorker(j) == IsTerminal(j) /\ restarts > 0

(* 2. ARQ is out of tries and the last one ended with its worker.  A try that *)
(*    marked the record counts in attempts, each later one cost a worker.     *)
OutOfTries(j) ==
    /\ ~IsTerminal(j)
    /\ restarts > 0
    /\ hash[j].attempts + restarts >= MaxTries

(* 3. A client cancelled it, and the abort that cancel_job sends after the    *)
(*    flag reached ARQ (routes.py:111): it drops a job that no worker has     *)
(*    started, and ends a run at an await outside the try block, that of the  *)
(*    early finalize() included (tasks.py:37).                               *)
AbortSent(j) ==
    hash[j].cancel /\ \E c \in Cancellers : target[c] = j /\ cpc[c] = "done"

StoppedByAbort(j) ==
    AbortSent(j) /\ hash[j].status \in {"queued", "running", "cancelled"}

Silenced(j) ==
    /\ Abandoned(j)
    /\ Announced(j) = "none"
    /\ LostWithItsWorker(j) \/ OutOfTries(j) \/ StoppedByAbort(j)

EventuallyAnnounced ==
    \A j \in Jobs :
        phase[j] = "enqueued" ~> Announced(j) # "none" \/ Silenced(j)
=============================================================================
