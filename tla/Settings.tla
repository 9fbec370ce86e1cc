------------------------------ MODULE Settings ------------------------------
(***************************************************************************)
(* The job ids and the numbers of lsm.config.Settings the other modules      *)
(* share.                                                                   *)
(***************************************************************************)
EXTENDS Naturals

CONSTANTS
    Jobs,        \* job ids (uuid4 values: never reused)
    MaxRetries,  \* settings.max_retries
    MaxJobs      \* settings.worker_max_jobs

ASSUME SettingsAssumption == MaxRetries \in Nat /\ MaxJobs \in Nat
=============================================================================
