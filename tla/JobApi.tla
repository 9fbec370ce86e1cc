------------------------------- MODULE JobApi -------------------------------
(***************************************************************************)
(* The API's handlers that change a job: POST /jobs and POST                *)
(* /jobs/{id}/cancel.  A handler that never takes its next step is one whose *)
(* process died or whose Redis command failed.                              *)
(***************************************************************************)
EXTENDS JobStore, ArqQueue

CONSTANT Cancellers   \* concurrent requests to cancel a job

VARIABLES
    phase,   \* phase[j]: how far POST /jobs got: "new", "created", "enqueued"
    cpc,     \* cpc[c]: the await of cancel request c
    target   \* target[c]: the job it names

apiVars == <<phase, cpc, target>>

CancelSteps == {"get", "exists", "flag", "announce", "abort", "done"}

ApiTypeOK ==
    /\ phase \in [Jobs -> {"new", "created", "enqueued"}]
    /\ cpc \in [Cancellers -> CancelSteps]
    /\ target \in [Cancellers -> Jobs]

ApiInit ==
    /\ phase = [j \in Jobs |-> "new"]
    /\ cpc = [c \in Cancellers |-> "get"]
    /\ target \in [Cancellers -> Jobs]

-----------------------------------------------------------------------------
CreateJob(j) ==
    /\ phase[j] = "new"
    /\ CreateRecord(j)
    /\ phase' = [phase EXCEPT ![j] = "created"]
    /\ UNCHANGED <<cpc, target, arqVars>>

Enqueue(j) ==
    /\ phase[j] = "created"
    /\ \E stream \in BOOLEAN : EnqueueJob(j, stream)
    /\ phase' = [phase EXCEPT ![j] = "enqueued"]
    /\ UNCHANGED <<cpc, target, storeVars>>

-----------------------------------------------------------------------------
CancelGoto(c, l) ==
    /\ cpc' = [cpc EXCEPT ![c] = l]
    /\ UNCHANGED <<phase, target>>

(* 404 for an unknown job, the record itself for a finished one.             *)
CancelGet(c) ==
    LET j == target[c] IN
    /\ cpc[c] = "get"
    /\ phase[j] # "new"
    /\ CancelGoto(c, IF Readable(j) /\ ~IsTerminal(j) THEN "exists" ELSE "done")
    /\ UNCHANGED <<storeVars, arqVars>>

(* request_cancel() gives up on a record that has expired since, and the      *)
(* handler aborts the ARQ job all the same.                                  *)
CancelExists(c) ==
    /\ cpc[c] = "exists"
    /\ CancelGoto(c, IF Exists(target[c]) THEN "flag" ELSE "abort")
    /\ UNCHANGED <<storeVars, arqVars>>

CancelFlag(c) ==
    LET j == target[c] IN
    /\ cpc[c] = "flag"
    /\ WriteHash(j, [hash[j] EXCEPT !.cancel = TRUE])
    /\ CancelGoto(c, "announce")
    /\ UNCHANGED arqVars

CancelAnnounce(c) ==
    /\ cpc[c] = "announce"
    /\ Publish(target[c], StatusEvent("cancelled"))
    /\ CancelGoto(c, "abort")
    /\ UNCHANGED arqVars

CancelAbort(c) ==
    /\ cpc[c] = "abort"
    /\ RequestAbort(target[c])
    /\ CancelGoto(c, "done")
    /\ UNCHANGED storeVars

ApiStep ==
    \/ \E j \in Jobs : CreateJob(j) \/ Enqueue(j)
    \/ \E c \in Cancellers :
         \/ CancelGet(c) \/ CancelExists(c) \/ CancelFlag(c)
         \/ CancelAnnounce(c)

AbortStep == \E c \in Cancellers : CancelAbort(c)
=============================================================================
