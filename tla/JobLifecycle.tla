---------------------------- MODULE JobLifecycle ----------------------------
(***************************************************************************)
(* What a client of the API is promised about a job, without Redis, ARQ or   *)
(* workers: the states of lsm.models.JobStatus and the moves between them, a *)
(* bounded number of attempts, and one final event that agrees with the      *)
(* record.                                                                  *)
(***************************************************************************)
EXTENDS Settings

VARIABLES
    status,     \* status[j]: the job's status, "none" before it is submitted
    attempts,   \* attempts[j]: the number of the latest attempt
    announced   \* announced[j]: the status of the final event, or "none"

lifeVars == <<status, attempts, announced>>

Ended == {"completed", "failed", "cancelled"}

MaxAttempts == MaxRetries + 1

LifeInit ==
    /\ status = [j \in Jobs |-> "none"]
    /\ attempts = [j \in Jobs |-> 0]
    /\ announced = [j \in Jobs |-> "none"]

Submit(j) ==
    /\ status[j] = "none"
    /\ status' = [status EXCEPT ![j] = "queued"]
    /\ UNCHANGED <<attempts, announced>>

(* A new attempt: the first, a retry, or one that replaces a lost worker's.  *)
Begin(j) ==
    /\ status[j] \in {"queued", "running"}
    /\ \E n \in (attempts[j] + 1)..MaxAttempts : attempts' = [attempts EXCEPT ![j] = n]
    /\ status' = [status EXCEPT ![j] = "running"]
    /\ UNCHANGED announced

(* A transient failure, with an attempt left.                                *)
Retry(j) ==
    /\ status[j] = "running"
    /\ attempts[j] < MaxAttempts
    /\ status' = [status EXCEPT ![j] = "queued"]
    /\ UNCHANGED <<attempts, announced>>

(* Only an attempt completes or fails; a job is also cancelled while queued. *)
Settle(j) ==
    /\ \/ status[j] = "running" /\ \E s \in Ended : status' = [status EXCEPT ![j] = s]
       \/ status[j] = "queued" /\ status' = [status EXCEPT ![j] = "cancelled"]
    /\ UNCHANGED <<attempts, announced>>

Announce(j) ==
    /\ status[j] \in Ended
    /\ announced[j] = "none"
    /\ announced' = [announced EXCEPT ![j] = status[j]]
    /\ UNCHANGED <<status, attempts>>

LifeNext == \E j \in Jobs : Submit(j) \/ Begin(j) \/ Retry(j) \/ Settle(j) \/ Announce(j)

LifeSpec == LifeInit /\ [][LifeNext]_lifeVars
=============================================================================
