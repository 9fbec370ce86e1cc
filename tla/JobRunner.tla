----------------------------- MODULE JobRunner ------------------------------
(***************************************************************************)
(* The worker: lsm.tasks.run_job, its streaming loop and its finalizers.    *)
(* Each await is a step of its own, since other coroutines, the API process *)
(* and cancellation run between two awaits.  pc[j] names the await the run  *)
(* of job j is at; what an interruption does depends on the try block the   *)
(* await is in.                                                             *)
(***************************************************************************)
EXTENDS JobStore, ArqQueue

CONSTANTS
    Workers,    \* worker processes
    NoWorker,
    MaxTokens,  \* bound: deltas of one attempt
    MaxDeltas   \* bound: deltas of one chunk (one per choice)

ASSUME RunnerAssumption ==
    /\ NoWorker \notin Workers
    /\ MaxTokens \in Nat /\ MaxDeltas \in Nat

VARIABLES
    pc,       \* pc[j]: the await run_job is at; "idle" when no run exists
    owner,    \* owner[j]: the worker that runs j
    parts,    \* parts[j]: the deltas this attempt has received
    pending,  \* pending[j]: deltas of the current chunk not yet appended
    index,    \* index[j]: the list position RPUSH returned for the last delta
    fin,      \* fin[j]: the finalize() the run awaits
    outcome,  \* outcome[j]: how the coroutine ends
    intr,     \* intr[j]: who has cancelled the task
    orphans   \* shielded finalizers whose waiter was cancelled

runVars == <<pc, owner, parts, pending, index, fin, outcome, intr, orphans>>

-----------------------------------------------------------------------------
(* The awaits before the try block; the try block; its except clauses.       *)
EarlyScope   == {"get", "check", "cancel_early", "mark", "announce", "announced"}
TryScope     == {"call", "poll", "push", "arm", "publish", "finalize"}
HandlerScope == {"requeue", "requeued", "shielded"}
Running      == EarlyScope \cup TryScope \cup HandlerScope

NoFinal == Finalize("cancelled", NoResult)

Outcomes == {"returned", "retry", "cancelled"}
Causes   == {"abort", "timeout", "sigterm"}

RunnerTypeOK ==
    /\ pc \in [Jobs -> Running \cup {"idle", "ended"}]
    /\ owner \in [Jobs -> Workers \cup {NoWorker}]
    /\ parts \in [Jobs -> Seq(Delta)]
    /\ pending \in [Jobs -> Nat]
    /\ index \in [Jobs -> Nat]
    /\ fin \in [Jobs -> Finalizers]
    /\ outcome \in [Jobs -> Outcomes]
    /\ intr \in [Jobs -> SUBSET Causes]
    /\ orphans \in SUBSET [job : Jobs, worker : Workers, fin : Finalizers]

RunnerInit ==
    /\ pc = [j \in Jobs |-> "idle"]
    /\ owner = [j \in Jobs |-> NoWorker]
    /\ parts = [j \in Jobs |-> <<>>]
    /\ pending = [j \in Jobs |-> 0]
    /\ index = [j \in Jobs |-> 0]
    /\ fin = [j \in Jobs |-> NoFinal]
    /\ outcome = [j \in Jobs |-> "returned"]
    /\ intr = [j \in Jobs |-> {}]
    /\ orphans = {}

-----------------------------------------------------------------------------
(* Moves of the control state.                                               *)
Goto(j, l) ==
    /\ pc' = [pc EXCEPT ![j] = l]
    /\ UNCHANGED <<owner, parts, pending, index, fin, outcome, intr, orphans>>

EndWith(j, o) ==
    /\ pc' = [pc EXCEPT ![j] = "ended"]
    /\ outcome' = [outcome EXCEPT ![j] = o]
    /\ UNCHANGED <<owner, parts, pending, index, fin, intr, orphans>>

(* Await finalize(s, r) at label l; the coroutine then ends with outcome o.  *)
FinalizeAt(j, l, s, r, o) ==
    /\ pc' = [pc EXCEPT ![j] = l]
    /\ fin' = [fin EXCEPT ![j] = Finalize(s, r)]
    /\ outcome' = [outcome EXCEPT ![j] = o]
    /\ UNCHANGED <<owner, parts, pending, index, intr, orphans>>

Reset(S) ==
    /\ pc' = [j \in Jobs |-> IF j \in S THEN "idle" ELSE pc[j]]
    /\ owner' = [j \in Jobs |-> IF j \in S THEN NoWorker ELSE owner[j]]
    /\ parts' = [j \in Jobs |-> IF j \in S THEN <<>> ELSE parts[j]]
    /\ pending' = [j \in Jobs |-> IF j \in S THEN 0 ELSE pending[j]]
    /\ index' = [j \in Jobs |-> IF j \in S THEN 0 ELSE index[j]]
    /\ fin' = [j \in Jobs |-> IF j \in S THEN NoFinal ELSE fin[j]]
    /\ outcome' = [j \in Jobs |-> IF j \in S THEN "returned" ELSE outcome[j]]
    /\ intr' = [j \in Jobs |-> IF j \in S THEN {} ELSE intr[j]]

-----------------------------------------------------------------------------
(* ARQ starts a run on a worker with a free slot, and cleans up after it.    *)
HasSlot(w) == Cardinality({j \in Jobs : owner[j] = w}) < MaxJobs

StartRun(w, j) ==
    /\ pc[j] = "idle"
    /\ HasSlot(w)
    /\ Claim(j)
    /\ pc' = [pc EXCEPT ![j] = "get"]
    /\ owner' = [owner EXCEPT ![j] = w]
    /\ UNCHANGED <<parts, pending, index, fin, outcome, intr, orphans>>
    /\ UNCHANGED storeVars

DiscardRun(j) ==
    /\ pc[j] = "idle"
    /\ Discard(j)
    /\ UNCHANGED <<storeVars, runVars>>

(* A Retry or a shutdown keeps the job queued; an abort wins over a shutdown.*)
KeepsJob(j) ==
    \/ outcome[j] = "retry"
    \/ outcome[j] = "cancelled" /\ "sigterm" \in intr[j] /\ "abort" \notin intr[j]

EndRun(j) ==
    /\ pc[j] = "ended"
    /\ IF KeepsJob(j) THEN Release(j) ELSE Finish(j)
    /\ Reset({j})
    /\ UNCHANGED <<storeVars, orphans>>

-----------------------------------------------------------------------------
(* run_job up to its try block.                                              *)
(* Fault: a run starts whatever the record's status is.                      *)
GetAnyRecord(j) ==
    /\ pc[j] = "get"
    /\ IF Readable(j) THEN Goto(j, "check") ELSE EndWith(j, "returned")
    /\ UNCHANGED <<storeVars, arqVars>>

GetRecord(j) ==
    /\ pc[j] = "get"
    /\ IF Readable(j) /\ ~IsTerminal(j) THEN Goto(j, "check") ELSE EndWith(j, "returned")
    /\ UNCHANGED <<storeVars, arqVars>>

CheckCancel(j) ==
    /\ pc[j] = "check"
    /\ IF IsCancelRequested(j)
         THEN FinalizeAt(j, "cancel_early", "cancelled", NoResult, "returned")
         ELSE Goto(j, "mark")
    /\ UNCHANGED <<storeVars, arqVars>>

MarkRunning(j) ==
    /\ pc[j] = "mark"
    /\ WriteHash(j, [hash[j] EXCEPT !.status = "running", !.attempts = tries[j]])
    /\ Goto(j, "announce")
    /\ UNCHANGED arqVars

AnnounceRunning(j) ==
    /\ pc[j] = "announce"
    /\ Publish(j, StatusEvent("running"))
    /\ Goto(j, "announced")
    /\ UNCHANGED arqVars

EnterTry(j) ==
    /\ pc[j] = "announced"
    /\ Goto(j, "call")
    /\ UNCHANGED <<storeVars, arqVars>>

-----------------------------------------------------------------------------
(* The try block.                                                            *)

(* A plain call returns the response's JSON, and a null is taken for a       *)
(* cancelled stream.                                                         *)
CallReturns(j) ==
    /\ pc[j] = "call"
    /\ j \notin streams
    /\ \/ FinalizeAt(j, "finalize", "completed", parts[j], "returned")
       \/ FinalizeAt(j, "finalize", "cancelled", NoResult, "returned")
    /\ UNCHANGED <<storeVars, arqVars>>

ReceiveChunk(j) ==
    /\ pc[j] = "call"
    /\ j \in streams
    /\ \E n \in 0..MaxDeltas :
         /\ Len(parts[j]) + n <= MaxTokens
         /\ pending' = [pending EXCEPT ![j] = n]
    /\ pc' = [pc EXCEPT ![j] = "poll"]
    /\ UNCHANGED <<owner, parts, index, fin, outcome, intr, orphans>>
    /\ UNCHANGED <<storeVars, arqVars>>

(* The upstream connection closes, with or without a [DONE] line.            *)
StreamEnds(j) ==
    /\ pc[j] = "call"
    /\ j \in streams
    /\ FinalizeAt(j, "finalize", "completed", parts[j], "returned")
    /\ UNCHANGED <<storeVars, arqVars>>

NextDelta(j) == IF pending[j] > 0 THEN "push" ELSE "call"

(* Fault: the flag is read before the first chunk only.                      *)
PollFirstChunk(j) ==
    /\ pc[j] = "poll"
    /\ IF IsCancelRequested(j) /\ parts[j] = <<>>
         THEN FinalizeAt(j, "finalize", "cancelled", NoResult, "returned")
         ELSE Goto(j, NextDelta(j))
    /\ UNCHANGED <<storeVars, arqVars>>

PollCancel(j) ==
    /\ pc[j] = "poll"
    /\ IF IsCancelRequested(j)
         THEN FinalizeAt(j, "finalize", "cancelled", NoResult, "returned")
         ELSE Goto(j, NextDelta(j))
    /\ UNCHANGED <<storeVars, arqVars>>

(* Fault: RPUSH's reply, the new length, taken for the position.             *)
PushTokenLength(j) ==
    LET d == <<tries[j], Len(parts[j]) + 1>> IN
    /\ pc[j] = "push"
    /\ RpushToken(j, d)
    /\ parts' = [parts EXCEPT ![j] = Append(@, d)]
    /\ pending' = [pending EXCEPT ![j] = @ - 1]
    /\ index' = [index EXCEPT ![j] = Len(tokens[j]) + 1]
    /\ pc' = [pc EXCEPT ![j] = "arm"]
    /\ UNCHANGED <<owner, fin, outcome, intr, orphans>>
    /\ UNCHANGED arqVars

(* parts.append() and the RPUSH of append_token().                           *)
PushToken(j) ==
    LET d == <<tries[j], Len(parts[j]) + 1>> IN
    /\ pc[j] = "push"
    /\ RpushToken(j, d)
    /\ parts' = [parts EXCEPT ![j] = Append(@, d)]
    /\ pending' = [pending EXCEPT ![j] = @ - 1]
    /\ index' = [index EXCEPT ![j] = Len(tokens[j])]
    /\ pc' = [pc EXCEPT ![j] = "arm"]
    /\ UNCHANGED <<owner, fin, outcome, intr, orphans>>
    /\ UNCHANGED arqVars

ArmTokens(j) ==
    /\ pc[j] = "arm"
    /\ ExpireTokens(j)
    /\ Goto(j, "publish")
    /\ UNCHANGED arqVars

PublishToken(j) ==
    /\ pc[j] = "publish"
    /\ Publish(j, TokenEvent(index[j], parts[j][Len(parts[j])]))
    /\ Goto(j, NextDelta(j))
    /\ UNCHANGED arqVars

(* Fault: one retry more than max_tries allows.                              *)
RetryOnceMore(j) ==
    /\ pc[j] = "call"
    /\ IF tries[j] <= MaxRetries + 1
         THEN Goto(j, "requeue")
         ELSE FinalizeAt(j, "shielded", "failed", NoResult, "returned")
    /\ UNCHANGED <<storeVars, arqVars>>

(* Fault: the record is requeued with finalize().                            *)
RequeueByFinalize(j) ==
    /\ pc[j] = "call"
    /\ IF tries[j] <= MaxRetries
         THEN FinalizeAt(j, "finalize", "queued", NoResult, "retry")
         ELSE FinalizeAt(j, "shielded", "failed", NoResult, "returned")
    /\ UNCHANGED <<storeVars, arqVars>>

(* The model server answers with an error, or the connection fails: a        *)
(* transient error is retried while tries are left, any other one is final.  *)
CallFailsTransiently(j) ==
    /\ pc[j] = "call"
    /\ IF tries[j] <= MaxRetries
         THEN Goto(j, "requeue")
         ELSE FinalizeAt(j, "shielded", "failed", NoResult, "returned")
    /\ UNCHANGED <<storeVars, arqVars>>

CallFails(j) ==
    /\ pc[j] = "call"
    /\ FinalizeAt(j, "shielded", "failed", NoResult, "returned")
    /\ UNCHANGED <<storeVars, arqVars>>

Requeue(j) ==
    /\ pc[j] = "requeue"
    /\ WriteHash(j, [hash[j] EXCEPT !.status = "queued", !.error = TRUE])
    /\ Goto(j, "requeued")
    /\ UNCHANGED arqVars

(* Fault: run_job returns once the record is QUEUED again.                   *)
ReturnForRetry(j) ==
    /\ pc[j] = "requeued"
    /\ EndWith(j, "returned")
    /\ UNCHANGED <<storeVars, arqVars>>

RaiseRetry(j) ==
    /\ pc[j] = "requeued"
    /\ EndWith(j, "retry")
    /\ UNCHANGED <<storeVars, arqVars>>

-----------------------------------------------------------------------------
(* finalize(), awaited by the run or, after its waiter was cancelled, alone. *)
Finalizing(j) == pc[j] \in {"cancel_early", "finalize", "shielded"}

RunFinal(j) ==
    /\ Finalizing(j)
    /\ FinalStep(j, fin[j])
    /\ fin' = [fin EXCEPT ![j] = NextFinal(@)]
    /\ UNCHANGED <<pc, owner, parts, pending, index, outcome, intr, orphans>>
    /\ UNCHANGED arqVars

EndFinal(j) ==
    /\ Finalizing(j)
    /\ fin[j].step = "reply"
    /\ EndWith(j, outcome[j])
    /\ UNCHANGED <<storeVars, arqVars>>

OrphanFinal(o) ==
    /\ o.fin.step # "reply"
    /\ FinalStep(o.job, o.fin)
    /\ orphans' = (orphans \ {o}) \cup {[o EXCEPT !.fin = NextFinal(@)]}
    /\ UNCHANGED <<pc, owner, parts, pending, index, fin, outcome, intr>>
    /\ UNCHANGED arqVars

OrphanEnds(o) ==
    /\ o.fin.step = "reply"
    /\ orphans' = orphans \ {o}
    /\ UNCHANGED <<pc, owner, parts, pending, index, fin, outcome, intr>>
    /\ UNCHANGED <<storeVars, arqVars>>

-----------------------------------------------------------------------------
(* task.cancel() on the runs of S: CancelledError is raised at their awaits. *)
(* Inside the try block it starts a shielded finalize(CANCELLED); anywhere    *)
(* else it ends the coroutine, and a shielded finalize() goes on alone.      *)
Cancellable(j) == pc[j] \in Running

Interrupt(S, cause) ==
    LET caught == {j \in S : pc[j] \in TryScope}
        leaves == {j \in S : pc[j] = "shielded"}
    IN
    /\ pc' = [j \in Jobs |-> IF j \in caught THEN "shielded"
                              ELSE IF j \in S THEN "ended" ELSE pc[j]]
    /\ fin' = [j \in Jobs |-> IF j \in caught THEN Finalize("cancelled", NoResult)
                               ELSE fin[j]]
    /\ outcome' = [j \in Jobs |-> IF j \in S THEN "cancelled" ELSE outcome[j]]
    /\ intr' = [j \in Jobs |-> IF j \in S THEN intr[j] \cup {cause} ELSE intr[j]]
    /\ orphans' = orphans \cup
                    {[job |-> j, worker |-> owner[j], fin |-> fin[j]] : j \in leaves}
    /\ UNCHANGED <<owner, parts, pending, index>>

(* A worker's poll loop cancels the task of a job with an abort request.     *)
DeliverAbort(j) ==
    /\ Cancellable(j)
    /\ ServeAbort(j)
    /\ Interrupt({j}, "abort")
    /\ UNCHANGED storeVars

(* job_timeout: asyncio.wait_for cancels the task, once.                     *)
Timeout(j) ==
    /\ Cancellable(j)
    /\ "timeout" \notin intr[j]
    /\ Interrupt({j}, "timeout")
    /\ UNCHANGED <<storeVars, arqVars>>

(* A Redis command of the run raises: "except Exception" inside the try      *)
(* block, the end of the coroutine elsewhere.                                *)
RedisError(j) ==
    /\ Cancellable(j)
    /\ pc[j] # "call"
    /\ IF pc[j] \in TryScope
         THEN FinalizeAt(j, "shielded", "failed", NoResult, "returned")
         ELSE EndWith(j, "returned")
    /\ UNCHANGED <<storeVars, arqVars>>

-----------------------------------------------------------------------------
(* A worker process dies: its runs and its detached finalizers are gone, the *)
(* in-progress keys stay until they expire.                                  *)
RunsOf(w) == {j \in Jobs : owner[j] = w}

KillWorker(w) ==
    /\ Reset(RunsOf(w))
    /\ orphans' = {o \in orphans : o.worker # w}
    /\ UNCHANGED <<storeVars, arqVars>>

(* The key outlives the job's timeout by ten seconds, so no run is left.     *)
InProgressExpires(j) ==
    /\ j \in inprog
    /\ pc[j] = "idle"
    /\ Release(j)
    /\ UNCHANGED <<storeVars, runVars>>
=============================================================================
