------------------------------ MODULE ArqQueue ------------------------------
(***************************************************************************)
(* The ARQ queue as src/lsm uses it: WorkerSettings gives max_tries,        *)
(* job_timeout and allow_abort_jobs, the API enqueues with _job_id and       *)
(* aborts by id.  The library is not part of the repository: everything     *)
(* here is its contract, not a translation.                                 *)
(***************************************************************************)
EXTENDS Settings

VARIABLES
    streams,  \* the chat and vision jobs enqueued with stream = true
    queue,    \* the jobs in the queue's sorted set
    inprog,   \* the jobs with an in-progress key
    tries,    \* tries[j]: the retry counter ARQ passes on as ctx["job_try"]
    aborts    \* the jobs with an abort request nobody has served yet

arqVars == <<streams, queue, inprog, tries, aborts>>

MaxTries == MaxRetries + 1

ArqTypeOK ==
    /\ streams \in SUBSET Jobs
    /\ queue \in SUBSET Jobs
    /\ inprog \in SUBSET Jobs
    /\ tries \in [Jobs -> 0..MaxTries]
    /\ aborts \in SUBSET Jobs

ArqInit ==
    /\ streams = {}
    /\ queue = {}
    /\ inprog = {}
    /\ tries = [j \in Jobs |-> 0]
    /\ aborts = {}

-----------------------------------------------------------------------------
EnqueueJob(j, stream) ==
    /\ queue' = queue \cup {j}
    /\ streams' = IF stream THEN streams \cup {j} ELSE streams
    /\ UNCHANGED <<inprog, tries, aborts>>

(* Job.abort() of a job that is no longer queued leaves a request behind     *)
(* that no worker serves.                                                    *)
RequestAbort(j) ==
    /\ aborts' = aborts \cup {j}
    /\ UNCHANGED <<streams, queue, inprog, tries>>

Claimable(j) == j \in queue /\ j \notin inprog

(* A worker that starts a job counts the try and consumes a pending abort.   *)
Claim(j) ==
    /\ Claimable(j)
    /\ j \notin aborts
    /\ tries[j] < MaxTries
    /\ inprog' = inprog \cup {j}
    /\ tries' = [tries EXCEPT ![j] = @ + 1]
    /\ UNCHANGED <<streams, queue, aborts>>

(* A job aborted before it starts, or out of tries, leaves the queue without *)
(* its coroutine being called.                                               *)
Discard(j) ==
    /\ Claimable(j)
    /\ j \in aborts \/ tries[j] >= MaxTries
    /\ queue' = queue \ {j}
    /\ tries' = [tries EXCEPT ![j] = 0]
    /\ aborts' = aborts \ {j}
    /\ UNCHANGED <<streams, inprog>>

ServeAbort(j) ==
    /\ j \in aborts
    /\ aborts' = aborts \ {j}
    /\ UNCHANGED <<streams, queue, inprog, tries>>

(* finish_job(finish=True): the job is over.                                 *)
Finish(j) ==
    /\ queue' = queue \ {j}
    /\ inprog' = inprog \ {j}
    /\ tries' = [tries EXCEPT ![j] = 0]
    /\ aborts' = aborts \ {j}
    /\ UNCHANGED streams

(* finish_job(finish=False): a Retry, or a task cancelled by a shutdown. The *)
(* job stays in the queue and will be started again.                         *)
Release(j) ==
    /\ inprog' = inprog \ {j}
    /\ UNCHANGED <<streams, queue, tries, aborts>>
=============================================================================
