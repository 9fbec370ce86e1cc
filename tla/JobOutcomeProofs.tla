--------------------------- MODULE JobOutcomeProofs --------------------------
(***************************************************************************)
(* How jobs end: what a final event says, that no job is stranded or loses   *)
(* its expiry, what a cancel request stops, and the lifecycle promised to    *)
(* clients, each under the faults that cannot break it.                     *)
(***************************************************************************)
EXTENDS JobProofs, FiniteSetTheorems

-----------------------------------------------------------------------------
(* One command of finalize(): only the first changes the status, only the     *)
(* last publishes, and the other fields of the record stay.                  *)
LEMMA FinalStepCases ==
  ASSUME TypeOK, NEW j \in Jobs, NEW f \in Finalizers, FinalStep(j, f)
  PROVE  /\ f.status \in TerminalStatuses
         /\ NextFinal(f).status = f.status /\ NextFinal(f).step # "hset"
         /\ NextFinal(f).step = "reply" <=> f.step = "publish"
         /\ hash'[j].status = IF f.step = "hset" THEN f.status ELSE hash[j].status
         /\ /\ hash'[j].id = hash[j].id /\ hash'[j].attempts = hash[j].attempts
            /\ hash'[j].cancel = hash[j].cancel
         /\ channel'[j] = IF f.step = "publish" THEN Append(channel[j], TerminalEvent(f.status))
                                                ELSE channel[j]
         /\ tokens' = tokens
<1>1. hash[j] \in Hashes BY Domains
<1>2. f.status \in TerminalStatuses /\ f.step \in FinalSteps BY DEF Finalizers
<1>3. /\ NextFinal(f).status = f.status
      /\ NextFinal(f).step = CASE f.step = "hset" -> "hdel"
                               [] f.step = "hdel" -> "expire_hash"
                               [] f.step = "expire_hash" -> "expire_tokens"
                               [] f.step = "expire_tokens" -> "publish"
                               [] OTHER -> "reply"
  BY DEF NextFinal, Finalizers
<1>4. CASE f.step = "hset"
  <2>1. hash'[j] = FinalHset(f, hash[j]) /\ UNCHANGED <<tokens, channel>>
    BY <1>4, Domains DEF FinalStep, WriteHash
  <2>2. /\ FinalHset(f, hash[j]).status = f.status
        /\ FinalHset(f, hash[j]).id = hash[j].id /\ FinalHset(f, hash[j]).cancel = hash[j].cancel
        /\ FinalHset(f, hash[j]).attempts = hash[j].attempts
    BY <1>1 DEF FinalHset, Hashes
  <2> QED BY <1>2, <1>3, <1>4, <2>1, <2>2
<1>5. CASE f.step = "hdel"
  <2>1. hash'[j] = FinalHdel(f, hash[j]) /\ UNCHANGED <<tokens, channel>>
    BY <1>5, Domains DEF FinalStep, WriteHash
  <2>2. /\ FinalHdel(f, hash[j]).status = hash[j].status
        /\ FinalHdel(f, hash[j]).id = hash[j].id /\ FinalHdel(f, hash[j]).cancel = hash[j].cancel
        /\ FinalHdel(f, hash[j]).attempts = hash[j].attempts
    BY <1>1 DEF FinalHdel, Hashes
  <2> QED BY <1>2, <1>3, <1>5, <2>1, <2>2
<1>6. CASE f.step \in {"expire_hash", "expire_tokens"}
  BY <1>2, <1>3, <1>6 DEF FinalStep, ExpireHash, ExpireTokens
<1>7. CASE f.step = "publish"
  BY <1>2, <1>3, <1>7, Domains DEF FinalStep, Publish
<1> QED BY <1>4, <1>5, <1>6, <1>7 DEF FinalStep

(* The terminal events of a channel another event is appended to.             *)
LEMMA EndsAppend ==
  ASSUME TypeOK, NEW j \in Jobs, NEW e \in Events, channel'[j] = Append(channel[j], e)
  PROVE  \E n \in Nat :
           /\ n \notin Ends(j) /\ channel'[j][n] = e
           /\ Ends(j)' = IF e.type \in {"done", "error"} THEN Ends(j) \cup {n} ELSE Ends(j)
           /\ \A i \in Ends(j) : channel'[j][i] = channel[j][i] /\ i < n
<1>1. channel[j] \in Seq(Events) BY Domains
<1>2. PICK n \in Nat : n = Len(channel[j]) + 1 /\ DOMAIN channel[j] = 1..(n - 1)
  BY <1>1
<1>3. /\ DOMAIN channel'[j] = DOMAIN channel[j] \cup {n} /\ n \notin DOMAIN channel[j]
      /\ channel'[j][n] = e /\ \A i \in DOMAIN channel[j] : channel'[j][i] = channel[j][i]
  BY <1>1, <1>2
<1>4. \A i \in DOMAIN channel[j] : i < n BY <1>2
<1> QED BY <1>3, <1>4 DEF Ends

LEMMA EndsQuiet ==
  ASSUME TypeOK, NEW j \in Jobs,
         \/ channel'[j] = channel[j]
         \/ \E e \in Events : e.type \notin {"done", "error"} /\ channel'[j] = Append(channel[j], e)
  PROVE  Ends(j)' = Ends(j) /\ \A i \in Ends(j) : channel'[j][i] = channel[j][i]
  BY EndsAppend DEF Ends

(* Events other than those of finalize() are not terminal.                   *)
LEMMA QuietEvents ==
  ASSUME TypeOK, NEW j \in Jobs, Noticed(j) \/ Publishes(j), TypeOK'
  PROVE  Ends(j)' = Ends(j) /\ \A i \in Ends(j) : channel'[j][i] = channel[j][i]
<1>1. PICK e : channel'[j] = Append(channel[j], e) /\ e.type \in {"status", "token"}
  BY EventFields DEF Noticed, Publishes
<1>2. channel'[j] \in Seq(Events) /\ channel[j] \in Seq(Events) BY DEF TypeOK, StoreTypeOK
<1>3. Append(channel[j], e)[Len(channel[j]) + 1] = e BY <1>2
<1>4. Len(channel[j]) + 1 \in DOMAIN Append(channel[j], e) BY <1>2
<1>5. e \in Events BY <1>1, <1>2, <1>3, <1>4
<1> QED BY <1>1, <1>5, EndsQuiet

LEMMA AnnouncedNone ==
  ASSUME TypeOK, NEW j \in Jobs
  PROVE  Announced(j) = "none" <=> Ends(j) = {}
<1>1. ASSUME NEW i \in Ends(j) PROVE channel[j][i].status # "none"
  <2>1. channel[j][i] \in Events /\ channel[j][i].type \in {"done", "error"}
    BY Domains DEF Ends
  <2> QED BY <2>1 DEF Events, TerminalStatuses
<1>2. CASE \E i \in Ends(j) : Ends(j) = {i}
  <2>1. (CHOOSE i \in Ends(j) : TRUE) \in Ends(j) BY <1>2
  <2> QED BY <1>1, <1>2, <2>1 DEF Announced
<1> QED BY <1>2 DEF Announced

-----------------------------------------------------------------------------
(* Whoever is told that a job ended finds a terminal record.  A finalize()    *)
(* past its first command has made the record terminal, and it stays so.      *)
SettledJob(j) ==
    /\ Finalizing(j) /\ fin[j].step # "hset" => IsTerminal(j)
    /\ Ends(j) # {} => IsTerminal(j)

SettledInv ==
    /\ \A j \in Jobs : SettledJob(j)
    /\ \A o \in orphans : o.fin.step # "hset" => IsTerminal(o.job)

(* Only the expiry of its key takes the status from a record that has one.    *)
LEMMA StatusKept ==
  ASSUME "expiry" \notin Faults, TypeOK, [Next]_vars, NEW j \in Jobs, hash[j].status # "none"
  PROVE  hash'[j].status # "none"
<1>1. hash[j] \in Hashes /\ fin[j] \in Finalizers BY Domains
<1>2. CASE SameJob(j) BY <1>2 DEF SameJob
<1>3. CASE Submitted(j) BY <1>3 DEF Submitted, NoHash
<1>4. CASE Flagged(j) BY <1>1, <1>4 DEF Flagged, Hashes
<1>5. CASE SettledLate(j)
  <2>1. PICK o \in orphans : o.job = j /\ FinalStep(j, o.fin) BY <1>5 DEF SettledLate
  <2>2. o.fin \in Finalizers BY DEF TypeOK, RunnerTypeOK
  <2> QED BY <2>1, <2>2, FinalStepCases DEF TerminalStatuses
<1>6. CASE Records(j) BY <1>1, <1>6 DEF Records, Hashes
<1>7. CASE Finalizes(j) BY <1>1, <1>7, FinalStepCases DEF Finalizes, TerminalStatuses
<1>8. CASE \/ Queued(j) \/ Noticed(j) \/ Started(j) \/ Discarded(j) \/ Failed(j)
           \/ Interrupted(j) \/ Lost(j)
           \/ IsOver(j) \/ Thinks(j) \/ Receives(j) \/ Publishes(j) \/ Pushes(j) \/ Arms(j)
  BY <1>8 DEF Queued, Noticed, Started, Discarded, Failed, Interrupted, Lost, IsOver, Thinks,
     Receives, Publishes, Pushes, Arms, storeVars
<1> QED
  BY <1>2, <1>3, <1>4, <1>5, <1>6, <1>7, <1>8, StepFrame, TouchedCases, RunCases DEF Dropped

LEMMA StaysTerminal ==
  ASSUME "sigterm" \notin Faults, "expiry" \notin Faults, TypeInv, FinalityInv, [Next]_vars,
         TypeOK', NEW j \in Jobs, IsTerminal(j)
  PROVE  IsTerminal(j)'
<1>1. hash'[j].status \in Statuses \cup {"none"}
  <2>1. hash'[j] \in Hashes BY DEF TypeOK, StoreTypeOK
  <2> QED BY <2>1 DEF Hashes
<1>2. hash'[j].status # "none" BY StatusKept DEF TypeInv, IsTerminal, TerminalStatuses
<1>3. ~Reopens(j) BY NextFinality
<1> QED BY <1>1, <1>2, <1>3 DEF Reopens, IsTerminal, Statuses

LEMMA TouchedSettled ==
  ASSUME "expiry" \notin Faults, TypeOK, TypeOK', SettledInv, NEW j \in Jobs, Touched(j),
         IsTerminal(j) => IsTerminal(j)'
  PROVE  SettledJob(j)'
<1>1. SettledJob(j) /\ fin[j] \in Finalizers BY Domains DEF SettledInv
<1>2. ASSUME Ends(j)' = Ends(j), (Finalizing(j) /\ fin[j].step # "hset")' =>
                                    Finalizing(j) /\ fin[j].step # "hset"
      PROVE  SettledJob(j)'
  BY <1>1, <1>2 DEF SettledJob
<1>3. ASSUME channel'[j] = channel[j] PROVE Ends(j)' = Ends(j) BY <1>3 DEF Ends
<1>4. CASE Submitted(j) \/ Queued(j) \/ Flagged(j) \/ Started(j) \/ Discarded(j)
  BY <1>2, <1>3, <1>4 DEF Submitted, Queued, Flagged, Started, Discarded, RunRests, storeVars,
     Finalizing
<1>5. CASE Noticed(j)
  BY <1>2, <1>5, QuietEvents DEF Noticed, RunRests, Finalizing
<1>6. CASE Failed(j) \/ Interrupted(j) \/ Lost(j)
  BY <1>2, <1>3, <1>6 DEF Failed, Interrupted, Lost, Finalize, storeVars, Finalizing, TryScope
<1>7. CASE IsOver(j) \/ Thinks(j) \/ Receives(j)
  BY <1>2, <1>3, <1>7 DEF IsOver, Thinks, Receives, Goes, Decides, Leaves, NextDelta, storeVars,
     Finalizing
<1>8. CASE Records(j) \/ Pushes(j) \/ Arms(j)
  BY <1>2, <1>3, <1>8 DEF Records, Pushes, Arms, Goes, Finalizing
<1>9. CASE Publishes(j)
  BY <1>2, <1>9, QuietEvents DEF Publishes, Goes, NextDelta, Finalizing
<1>10. ASSUME NEW f \in Finalizers, FinalStep(j, f), f.step # "hset" => IsTerminal(j)
       PROVE  IsTerminal(j)' /\ (Ends(j)' = Ends(j) \/ IsTerminal(j)')
  BY <1>10, FinalStepCases DEF IsTerminal
<1>11. CASE Finalizes(j)
  BY <1>1, <1>10, <1>11 DEF Finalizes, SettledJob
<1>12. CASE SettledLate(j)
  <2>1. PICK o \in orphans : o.job = j /\ FinalStep(j, o.fin) BY <1>12 DEF SettledLate
  <2>2. o.fin \in Finalizers BY DEF TypeOK, RunnerTypeOK
  <2>3. o.fin.step # "hset" => IsTerminal(j) BY <2>1 DEF SettledInv
  <2> QED BY <2>1, <2>2, <2>3, <1>10 DEF SettledJob
<1> QED
  BY <1>4, <1>5, <1>6, <1>7, <1>8, <1>9, <1>11, <1>12, TouchedCases, RunCases DEF Dropped

LEMMA NextSettled ==
  ASSUME "sigterm" \notin Faults, "expiry" \notin Faults,
         TypeInv, FinalityInv, SettledInv, [Next]_vars, TypeInv'
  PROVE  SettledInv'
<1>0. TypeOK /\ TypeOK' BY DEF TypeInv
<1>1. \A j \in Jobs : IsTerminal(j) => IsTerminal(j)' BY <1>0, StaysTerminal
<1>2. ASSUME NEW j \in Jobs PROVE SettledJob(j)'
  <2>1. CASE SameJob(j)
    BY <2>1, <1>1 DEF SameJob, SettledInv, SettledJob, Finalizing, IsTerminal, Ends
  <2>2. CASE Touched(j) BY <2>2, <1>0, <1>1, TouchedSettled
  <2> QED BY <2>1, <2>2, <1>0, StepFrame
<1>3. ASSUME NEW o \in orphans', o.fin.step # "hset" PROVE IsTerminal(o.job)'
  <2>1. CASE o \in orphans
    BY <2>1, <1>0, <1>1, <1>3 DEF SettledInv, TypeOK, RunnerTypeOK
  <2>2. ASSUME NEW p \in orphans, OrphanFinal(p), o = [p EXCEPT !.fin = NextFinal(@)]
        PROVE  IsTerminal(o.job)'
    <3>1. p \in [job : Jobs, worker : Workers, fin : Finalizers] BY <1>0 DEF TypeOK, RunnerTypeOK
    <3>2. o.job = p.job /\ FinalStep(p.job, p.fin) BY <2>2, <3>1 DEF OrphanFinal
    <3>3. p.fin.step # "hset" => IsTerminal(p.job) BY DEF SettledInv
    <3> QED BY <3>1, <3>2, <3>3, <1>0, <1>1, FinalStepCases DEF IsTerminal
  <2>3. ASSUME NEW j \in Jobs, pc[j] = "shielded",
               o = [job |-> j, worker |-> owner[j], fin |-> fin[j]]
        PROVE  IsTerminal(o.job)'
    BY <2>3, <1>1, <1>3 DEF SettledInv, SettledJob, Finalizing
  <2> QED BY <2>1, <2>2, <2>3, <1>0, OrphanFrame
<1> QED BY <1>2, <1>3 DEF SettledInv

LEMMA InitSettled == Init => SettledInv
  BY DEF Init, StoreInit, RunnerInit, SettledInv, SettledJob, Finalizing, Ends

(* The inductive invariant holds in every reachable state.                   *)
THEOREM SettledInvariant ==
  ASSUME "sigterm" \notin Faults, "expiry" \notin Faults
  PROVE  Spec => [](TypeInv /\ SettledInv)
<1>1. Init => TypeInv /\ FinalityInv /\ SettledInv BY InitType, InitFinality, InitSettled
<1>2. TypeInv /\ FinalityInv /\ SettledInv /\ [Next]_vars
        => (TypeInv /\ FinalityInv /\ SettledInv)'
  BY NextType, NextFinality, NextSettled
<1> QED BY <1>1, <1>2, PTL DEF Spec

(* Whatever crashes, aborts, times out or fails, whoever is told on the        *)
(* channel that a job ended finds a terminal record: finalize() writes the     *)
(* record before it publishes, and no late cancel, retry or second run takes  *)
(* the status back between the two.                                          *)
THEOREM FinalEventIsFinal ==
  ASSUME "sigterm" \notin Faults, "expiry" \notin Faults
  PROVE  Spec => []TerminalEventMeansTerminal
<1>1. TypeInv /\ SettledInv => TerminalEventMeansTerminal
  BY AnnouncedNone DEF TypeInv, SettledInv, SettledJob, TerminalEventMeansTerminal
<1> QED BY <1>1, SettledInvariant, PTL

-----------------------------------------------------------------------------
(* No job is stranded, when no request aborts it, no Redis command fails and   *)
(* job_timeout strikes at the model server.  A run that ARQ does not keep has  *)
(* made the record terminal; while no worker is lost or stopped, a job that is *)
(* to be tried again has a try left.                                        *)
SettledRun(j) ==
    /\ Finalizing(j) /\ fin[j].step # "hset" => IsTerminal(j)
    /\ pc[j] = "ended" /\ ~KeepsJob(j) => IsTerminal(j)

KeptJob(j) ==
    /\ phase[j] # "new" => Readable(j)
    /\ QueuedWhenEnqueued(j)
    /\ pc[j] # "idle" => j \in queue
    /\ outcome[j] = "retry" => pc[j] = "ended"
    /\ "abort" \notin intr[j]
    /\ SettledRun(j)

FirstLife(j) ==
    /\ "sigterm" \notin intr[j]
    /\ pc[j] \in {"idle", "requeue", "requeued"} \/ outcome[j] = "retry" => tries[j] <= MaxRetries
    /\ phase[j] = "enqueued" /\ pc[j] = "idle" /\ j \notin queue => IsTerminal(j)

StrandInv ==
    /\ aborts = {}
    /\ \A j \in Jobs : KeptJob(j) /\ (restarts = 0 => FirstLife(j))

SafeFaults == Faults \cap {"abort", "slow_redis", "redis", "expiry"} = {}

LEMMA NoAborts ==
  ASSUME "abort" \notin Faults, TypeOK, aborts = {}, [Next]_vars
  PROVE  aborts' = {}
<1>1. CASE Api
  BY <1>1 DEF Api, ApiStep, CreateJob, Enqueue, EnqueueJob, CancelGet, CancelExists, CancelFlag,
     CancelAnnounce, arqVars
<1>2. ASSUME NEW w \in Workers, NEW j \in Jobs, Start(w, j) PROVE aborts' = {}
  BY <1>2 DEF Start, StartRun, Claim
<1>3. ASSUME NEW j \in Jobs, Run(j) PROVE aborts' = {} BY <1>3, RunFrame
<1>4. ASSUME NEW j \in Jobs, \/ DiscardJob(j) \/ Abort(j) \/ Recover(j) \/ JobTimeout(j)
                             \/ RedisFails(j) \/ KeyExpires(j)
      PROVE  aborts' = {}
  BY <1>4 DEF DiscardJob, DiscardRun, Discard, Abort, DeliverAbort, ServeAbort, Recover,
     InProgressExpires, Release, JobTimeout, Timeout, RedisFails, RedisError, KeyExpires, arqVars
<1>5. CASE OrphanStep BY <1>5 DEF OrphanStep, OrphanFinal, OrphanEnds, arqVars
<1>6. ASSUME NEW w \in Workers, Crash(w) \/ Sigterm(w) \/ Exit(w) PROVE aborts' = {}
  BY <1>6 DEF Crash, Sigterm, Exit, KillWorker, arqVars
<1>7. CASE UNCHANGED vars BY <1>7 DEF vars, arqVars
<1> QED BY <1>1, <1>2, <1>3, <1>4, <1>5, <1>6, <1>7 DEF Next

(* The count of lost or stopped workers never goes back to zero.              *)
LEMMA RestartsGrow ==
  ASSUME TypeOK, [Next]_vars, restarts' = 0
  PROVE  restarts = 0
<1>0. restarts \in Nat /\ 0 # restarts + 1 BY FaultAssumption DEF TypeOK
<1>1. ASSUME NEW j \in Jobs, Run(j) PROVE restarts' = restarts BY <1>1, RunFrame
<1>2. ASSUME NEW w \in Workers, Crash(w) \/ Sigterm(w) PROVE FALSE
  BY <1>0, <1>2 DEF Crash, Sigterm
<1>3. CASE \/ Api \/ OrphanStep \/ UNCHANGED vars
           \/ \E w \in Workers : Exit(w)
           \/ \E w \in Workers, j \in Jobs : Start(w, j)
           \/ \E j \in Jobs : \/ DiscardJob(j) \/ Abort(j) \/ Recover(j) \/ JobTimeout(j)
                              \/ RedisFails(j) \/ KeyExpires(j)
  BY <1>3 DEF Api, OrphanStep, Exit, Start, DiscardJob, Abort, Recover, JobTimeout, RedisFails,
     KeyExpires, vars, sysVars
<1> QED BY <1>1, <1>2, <1>3 DEF Next

(* The steps that leave a record's status and identity.                      *)
LEMMA RunKept ==
  ASSUME TypeOK, NEW j \in Jobs, KeptJob(j), Run(j)
  PROVE  KeptJob(j)' /\ (FirstLife(j) => FirstLife(j)')
<1>a. hash[j] \in Hashes /\ fin[j] \in Finalizers /\ phase' = phase BY Domains, RunFrame
<1> USE DEF KeptJob, FirstLife, QueuedWhenEnqueued, SettledRun, KeepsJob, Readable, IsTerminal
<1>1. CASE IsOver(j)
  <2>1. hash' = hash /\ pc[j] = "ended" /\ pc'[j] = "idle" /\ intr'[j] = {}
        /\ outcome'[j] = "returned"
    BY <1>1 DEF IsOver, storeVars
  <2>2. phase'[j] = "enqueued" BY <2>1, <1>a
  <2>3. KeptJob(j)' BY <2>1, <2>2 DEF Finalizing
  <2>4. CASE KeepsJob(j)
    <3>1. queue' = queue /\ tries' = tries BY <1>1, <2>4 DEF IsOver
    <3>2. j \in queue BY <2>1
    <3> QED BY <2>1, <2>2, <2>3, <2>4, <3>1, <3>2
  <2>5. CASE ~KeepsJob(j)
    <3>1. tries'[j] = 0 /\ 0 <= MaxRetries BY <1>1, <2>5, SettingsAssumption DEF IsOver
    <3> QED BY <2>1, <2>2, <2>3, <2>5, <3>1
  <2> QED BY <2>4, <2>5
<1> DEFINE Same == queue' = queue /\ tries' = tries /\ intr'[j] = intr[j]
<1>2. CASE Same /\ (Thinks(j) \/ Receives(j))
  BY <1>2, <1>a DEF Thinks, Receives, Goes, Decides, Leaves, NextDelta, Finalizing, storeVars
<1>3. CASE Same /\ Records(j)
  BY <1>3, <1>a DEF Records, Goes, Finalizing, Hashes
<1>4. CASE Same /\ (Publishes(j) \/ Pushes(j) \/ Arms(j))
  BY <1>4, <1>a DEF Publishes, Pushes, Arms, Goes, NextDelta, Finalizing
<1>5. CASE Same /\ Finalizes(j)
  BY <1>5, <1>a, FinalStepCases DEF Finalizes, Finalizing
<1> QED BY <1>1, <1>2, <1>3, <1>4, <1>5, RunCases

LEMMA TouchedKept ==
  ASSUME SafeFaults, TypeOK, TypeOK', NEW j \in Jobs, KeptJob(j), Touched(j), aborts = {}
  PROVE  KeptJob(j)' /\ (restarts' = 0 /\ FirstLife(j) => FirstLife(j)')
<1>a. hash[j] \in Hashes /\ fin[j] \in Finalizers BY Domains
<1>b. restarts' > 0 => restarts' # 0 BY FaultAssumption DEF TypeOK
<1>1. CASE Run(j) BY <1>1, RunKept
<1> USE DEF KeptJob, FirstLife, QueuedWhenEnqueued, SettledRun, KeepsJob, Readable, IsTerminal,
            Finalizing
<1>2. CASE Submitted(j) BY <1>2 DEF Submitted, RunRests, NoHash
<1>3. CASE Queued(j) BY <1>3 DEF Queued, RunRests, storeVars
<1>4. CASE Flagged(j) BY <1>4, <1>a DEF Flagged, RunRests, Hashes
<1>5. CASE Noticed(j) BY <1>5 DEF Noticed, RunRests
<1>6. CASE Started(j) BY <1>6 DEF Started, storeVars
<1>7. CASE Discarded(j)
  <2>1. tries[j] \in Nat /\ MaxTries = MaxRetries + 1 /\ MaxRetries \in Nat
    BY Domains, SettingsAssumption DEF MaxTries
  <2> QED BY <1>7, <2>1 DEF Discarded, storeVars
<1>8. CASE SettledLate(j)
  <2>1. PICK o \in orphans : o.job = j /\ FinalStep(j, o.fin) BY <1>8 DEF SettledLate
  <2>2. o.fin \in Finalizers BY DEF TypeOK, RunnerTypeOK
  <2>3. hash'[j].id = hash[j].id
        /\ (hash[j].status \in TerminalStatuses => hash'[j].status \in TerminalStatuses)
    BY <2>1, <2>2, FinalStepCases
  <2> QED BY <1>8, <2>3 DEF SettledLate, RunRests
<1>9. CASE Interrupted(j)
  <2>1. PICK cause \in Causes : Permitted(j, cause) /\ intr'[j] = intr[j] \cup {cause}
    BY <1>9 DEF Interrupted
  <2>2. \/ cause = "timeout" /\ pc[j] = "call"
        \/ cause = "sigterm" /\ restarts' > 0
    BY <2>1 DEF Permitted, SafeFaults
  <2>3. cause # "abort" BY <2>2
  <2>4. pc'[j] \in {"shielded", "ended"} /\ (pc'[j] = "shielded" => fin'[j].step = "hset")
        /\ (cause = "timeout" => pc'[j] = "shielded")
    BY <1>9, <2>2 DEF Interrupted, TryScope, Finalize
  <2> QED BY <1>9, <1>b, <2>1, <2>2, <2>3, <2>4
          DEF Interrupted, storeVars, Cancellable, Running, EarlyScope, TryScope, HandlerScope
<1>10. CASE Lost(j) BY <1>10, <1>b DEF Lost, storeVars, arqVars, apiVars
<1> QED
  BY <1>1, <1>2, <1>3, <1>4, <1>5, <1>6, <1>7, <1>8, <1>9, <1>10, TouchedCases
     DEF Failed, Dropped, SafeFaults

LEMMA NextStrand ==
  ASSUME SafeFaults, TypeOK, TypeOK', StrandInv, [Next]_vars
  PROVE  StrandInv'
<1>1. aborts' = {} BY NoAborts DEF StrandInv, SafeFaults
<1>2. ASSUME NEW j \in Jobs PROVE KeptJob(j)' /\ (restarts' = 0 => FirstLife(j)')
  <2>1. KeptJob(j) /\ aborts = {} /\ (restarts' = 0 => FirstLife(j))
    BY RestartsGrow DEF StrandInv
  <2>2. CASE SameJob(j)
    BY <2>1, <2>2 DEF SameJob, KeptJob, FirstLife, QueuedWhenEnqueued, SettledRun, KeepsJob,
       Readable, IsTerminal, Finalizing
  <2>3. CASE Touched(j) BY <2>1, <2>3, TouchedKept
  <2> QED BY <2>2, <2>3, StepFrame
<1> QED BY <1>1, <1>2 DEF StrandInv

LEMMA InitStrand == Init => StrandInv
  BY SettingsAssumption
     DEF Init, StoreInit, ArqInit, RunnerInit, ApiInit, StrandInv, KeptJob, FirstLife,
         QueuedWhenEnqueued, SettledRun, Finalizing

(* The inductive invariant holds in every reachable state.                   *)
THEOREM StrandInvariant ==
  ASSUME SafeFaults
  PROVE  Spec => [](TypeInv /\ StrandInv)
<1>1. Init => TypeInv /\ StrandInv BY InitType, InitStrand
<1>2. TypeInv /\ StrandInv /\ [Next]_vars => (TypeInv /\ StrandInv)'
  <2>1. TypeInv /\ [Next]_vars => TypeInv' BY NextType
  <2>2. TypeInv => TypeOK BY DEF TypeInv
  <2>3. TypeInv' => TypeOK' BY DEF TypeInv
  <2> QED BY <2>1, <2>2, <2>3, NextStrand
<1> QED BY <1>1, <1>2, PTL DEF Spec

(* The retry arithmetic of run_job and ARQ's max_tries agree, for every value *)
(* of max_retries: a job that ARQ has forgotten before its record is terminal *)
(* has lost a worker process.                                                *)
THEOREM NoJobStranded ==
  ASSUME SafeFaults
  PROVE  Spec => []NeverStranded
<1>1. TypeInv /\ StrandInv => NeverStranded
  <2> SUFFICES ASSUME TypeInv, StrandInv, NEW j \in Jobs, Abandoned(j), ~IsTerminal(j)
               PROVE  restarts > 0
    BY DEF NeverStranded
  <2>1. ~FirstLife(j) BY DEF Abandoned, FirstLife
  <2>2. restarts # 0 BY <2>1 DEF StrandInv
  <2> QED BY <2>2, FaultAssumption DEF TypeInv, TypeOK
<1> QED BY <1>1, StrandInvariant, PTL

(* Why a record is CANCELLED while no worker was lost or stopped: its client   *)
(* asked for it, the model answered null, or job_timeout cut the run, whose    *)
(* coroutine then ends cancelled and is not tried again.                      *)
Cancelling(j) ==
    hash[j].status = "cancelled" \/ (Finalizing(j) /\ fin[j].status = "cancelled")

ExcusedJob(j) ==
    /\ phase[j] # "enqueued" => hash[j].status # "cancelled"
    /\ "timeout" \in intr[j] => pc[j] \in {"shielded", "ended"} /\ outcome[j] = "cancelled"
    /\ j \in queue /\ Cancelling(j) =>
         hash[j].cancel \/ j \notin streams \/ "timeout" \in intr[j]

ExcuseInv == restarts = 0 => orphans = {} /\ \A j \in Jobs : ExcusedJob(j)

(* Only POST /jobs says that a job streams, and a null answer is none to a     *)
(* streaming call.                                                           *)
LEMMA StreamsKept ==
  ASSUME TypeOK, NEW j \in Jobs, Touched(j), j \in streams'
  PROVE  j \in streams \/ Queued(j)
<1>1. CASE Enqueue(j) /\ UNCHANGED runVars
  BY <1>1, Domains DEF Enqueue, EnqueueJob, runVars, Queued, RunRests
<1>2. CASE Run(j) BY <1>2 DEF Run, RunStep, EndRun, Release, Finish, GetRecord, CheckCancel,
  MarkRunning, AnnounceRunning, EnterTry, CallReturns, ReceiveChunk, StreamEnds, PollCancel,
  PushToken, ArmTokens, PublishToken, CallFailsTransiently, CallFails, Requeue, RaiseRetry,
  RunFinal, EndFinal, arqVars
<1>3. CASE \/ (CreateJob(j) \/ Cancelled(j)) /\ UNCHANGED runVars
           \/ \E w \in Workers : Start(w, j)
           \/ DiscardJob(j)
           \/ \E o \in orphans : o.job = j /\ OrphanFinal(o) /\ UNCHANGED apiVars
  BY <1>3 DEF CreateJob, Cancelled, CancelFlag, CancelAnnounce, Start, StartRun, Claim,
     DiscardJob, DiscardRun, Discard, OrphanFinal, arqVars
<1>4. CASE RedisFails(j) \/ KeyExpires(j) \/ Interrupted(j) \/ Lost(j)
  BY <1>4 DEF RedisFails, RedisError, KeyExpires, Interrupted, Lost, arqVars
<1> QED BY <1>1, <1>2, <1>3, <1>4 DEF Touched

LEMMA NullAnswer ==
  ASSUME TypeOK, NEW j \in Jobs, Run(j), pc[j] = "call", pc'[j] = "finalize",
         fin'[j].status = "cancelled"
  PROVE  j \notin streams
<1>1. CASE CallReturns(j) BY <1>1 DEF CallReturns
<1>2. CASE StreamEnds(j)
  BY <1>2, Domains DEF StreamEnds, FinalizeAt, Finalize
<1>3. CASE ReceiveChunk(j) BY <1>3, Domains DEF ReceiveChunk
<1>4. CASE CallFailsTransiently(j) \/ CallFails(j)
  BY <1>4, Domains DEF CallFailsTransiently, CallFails, Goto, FinalizeAt
<1> QED
  BY <1>1, <1>2, <1>3, <1>4
     DEF Run, RunStep, EndRun, GetRecord, CheckCancel, MarkRunning, AnnounceRunning, EnterTry,
         PollCancel, PushToken, ArmTokens, PublishToken, Requeue, RaiseRetry, RunFinal,
         Finalizing, EndFinal

LEMMA RunExcused ==
  ASSUME TypeOK, NEW j \in Jobs, KeptJob(j), FirstLife(j), ExcusedJob(j), Run(j)
  PROVE  ExcusedJob(j)'
<1>a. hash[j] \in Hashes /\ fin[j] \in Finalizers /\ phase' = phase BY Domains, RunFrame
<1>b. j \in streams' => j \in streams \/ Queued(j) BY StreamsKept DEF Touched
<1>c. j \in streams' => j \in streams BY <1>a, <1>b DEF Queued
<1>d. pc[j] # "idle" => phase[j] = "enqueued" /\ j \in queue
  BY DEF KeptJob, QueuedWhenEnqueued
<1> USE DEF ExcusedJob, Cancelling
<1>1. CASE IsOver(j)
  <2>1. hash' = hash /\ pc'[j] = "idle" /\ intr'[j] = {} /\ phase'[j] = "enqueued"
    BY <1>1, <1>a, <1>d DEF IsOver, storeVars
  <2>2. CASE KeepsJob(j)
    <3>1. "timeout" \notin intr[j]
      BY <2>2 DEF KeepsJob, FirstLife
    <3> QED BY <1>1, <1>c, <1>d, <2>1, <3>1 DEF IsOver, Finalizing
  <2>3. CASE ~KeepsJob(j) BY <1>1, <2>1, <2>3 DEF IsOver
  <2> QED BY <2>2, <2>3
<1> DEFINE Same == queue' = queue /\ tries' = tries /\ intr'[j] = intr[j]
<1>2. CASE Same /\ Thinks(j)
  <2>1. hash' = hash BY <1>2 DEF Thinks, storeVars
  <2>2. CASE Decides(j, "call", "finalize", {"completed", "cancelled"})
    BY <1>2, <1>a, <1>c, <1>d, <2>1, <2>2, NullAnswer DEF Decides, Finalizing
  <2>3. CASE ~Decides(j, "call", "finalize", {"completed", "cancelled"})
    BY <1>2, <1>a, <1>c, <1>d, <2>1, <2>3
       DEF Thinks, Goes, Decides, Leaves, NextDelta, Finalizing, IsCancelRequested
  <2> QED BY <2>2, <2>3
<1>3. CASE Same /\ (Receives(j) \/ Publishes(j) \/ Pushes(j) \/ Arms(j))
  BY <1>3, <1>a, <1>c, <1>d
     DEF Receives, Publishes, Pushes, Arms, Goes, NextDelta, Finalizing, storeVars
<1>4. CASE Same /\ Records(j)
  BY <1>4, <1>a, <1>c, <1>d DEF Records, Goes, Finalizing, Hashes
<1>5. CASE Same /\ Finalizes(j)
  BY <1>5, <1>a, <1>c, <1>d, FinalStepCases DEF Finalizes, Finalizing
<1> QED BY <1>1, <1>2, <1>3, <1>4, <1>5, RunCases

LEMMA TouchedExcused ==
  ASSUME SafeFaults, TypeOK, NEW j \in Jobs, KeptJob(j), FirstLife(j), ExcusedJob(j), Touched(j),
         aborts = {}, orphans = {}, restarts' = 0
  PROVE  ExcusedJob(j)'
<1>a. hash[j] \in Hashes /\ fin[j] \in Finalizers BY Domains
<1>b. j \in streams' => j \in streams \/ Queued(j) BY StreamsKept
<1>1. CASE Run(j) BY <1>1, RunExcused
<1> USE DEF ExcusedJob, Cancelling, Finalizing
<1>2. CASE Submitted(j)
  <2>1. hash'[j].status = "queued" BY <1>2 DEF Submitted, NoHash
  <2>2. phase[j] # "enqueued" BY <1>2 DEF Submitted
  <2> QED BY <1>2, <2>1, <2>2 DEF Submitted, RunRests, KeptJob, QueuedWhenEnqueued
<1>3. CASE Queued(j)
  BY <1>3 DEF Queued, RunRests, storeVars, KeptJob, QueuedWhenEnqueued
<1>4. CASE Flagged(j)
  <2>1. hash'[j].status = hash[j].status /\ hash'[j].cancel = TRUE
    BY <1>4, <1>a DEF Flagged, Hashes
  <2> QED BY <1>4, <1>b, <2>1 DEF Flagged, RunRests, Queued
<1>5. CASE Noticed(j) BY <1>5, <1>b DEF Noticed, RunRests, Queued
<1>6. CASE Started(j) BY <1>6, <1>b DEF Started, storeVars, Queued
<1>7. CASE Discarded(j) BY <1>7, <1>b DEF Discarded, storeVars, Queued
<1>8. CASE Interrupted(j)
  <2>1. PICK cause \in Causes : Permitted(j, cause) /\ intr'[j] = intr[j] \cup {cause}
    BY <1>8 DEF Interrupted
  <2>2. cause = "timeout" /\ pc[j] = "call"
    BY <2>1, <1>8 DEF Permitted, SafeFaults, Causes
  <2> QED BY <1>8, <2>1, <2>2 DEF Interrupted, TryScope, storeVars
<1>9. ~SettledLate(j) /\ ~Failed(j) /\ ~Dropped(j) /\ ~Lost(j)
  <2>1. ~(0 > 0) OBVIOUS
  <2> QED BY <2>1 DEF SettledLate, Failed, Dropped, Lost, SafeFaults
<1> QED BY <1>1, <1>2, <1>3, <1>4, <1>5, <1>6, <1>7, <1>8, <1>9, TouchedCases

LEMMA NextExcuse ==
  ASSUME SafeFaults, TypeOK, TypeOK', StrandInv, ExcuseInv, [Next]_vars
  PROVE  ExcuseInv'
<1> SUFFICES ASSUME restarts' = 0 PROVE orphans' = {} /\ \A j \in Jobs : ExcusedJob(j)'
  BY DEF ExcuseInv
<1>1. restarts = 0 /\ orphans = {} BY RestartsGrow DEF ExcuseInv
<1>2. ASSUME NEW j \in Jobs PROVE ExcusedJob(j)'
  <2>1. KeptJob(j) /\ FirstLife(j) /\ ExcusedJob(j) /\ aborts = {}
    BY <1>1 DEF StrandInv, ExcuseInv
  <2>2. CASE SameJob(j) BY <2>1, <2>2 DEF SameJob, ExcusedJob, Cancelling, Finalizing
  <2>3. CASE Touched(j) BY <1>1, <2>1, <2>3, TouchedExcused
  <2> QED BY <2>2, <2>3, StepFrame
<1>3. ASSUME NEW o \in orphans' PROVE FALSE
  <2>1. PICK j \in Jobs : pc[j] = "shielded" /\ Interrupted(j) BY <1>1, OrphanFrame
  <2>2. PICK cause \in Causes : Permitted(j, cause) BY <2>1 DEF Interrupted
  <2> QED BY <2>1, <2>2 DEF Permitted, SafeFaults, StrandInv
<1> QED BY <1>2, <1>3

(* ARQ forgets no job without a reason, for every value of max_retries and any *)
(* number of jobs, workers and stops: a record that is CANCELLED when ARQ lets *)
(* go of its job was cancelled by its client, by a null answer, by job_timeout *)
(* or by a worker that had been told to stop.                                *)
THEOREM DropsHaveReasons ==
  ASSUME SafeFaults
  PROVE  Spec => JobsDroppedForAReason
<1>1. Init => TypeInv /\ StrandInv /\ ExcuseInv
  <2>1. Init => ExcuseInv
    BY DEF Init, StoreInit, ArqInit, RunnerInit, ExcuseInv, ExcusedJob, Cancelling, Finalizing,
       NoHash
  <2> QED BY <2>1, InitType, InitStrand
<1>2. TypeInv /\ StrandInv /\ ExcuseInv /\ [Next]_vars => (TypeInv /\ StrandInv /\ ExcuseInv)'
  <2>1. TypeInv /\ [Next]_vars => TypeInv' BY NextType
  <2>2. TypeInv => TypeOK BY DEF TypeInv
  <2>3. TypeInv' => TypeOK' BY DEF TypeInv
  <2> QED BY <2>1, <2>2, <2>3, NextStrand, NextExcuse
<1>3. TypeInv /\ StrandInv /\ ExcuseInv /\ [Next]_vars => [DropsOnlyTheExcused]_vars
  <2> SUFFICES ASSUME TypeInv, StrandInv, ExcuseInv, [Next]_vars, NEW j \in queue \ queue'
               PROVE  Excused(j)
    BY DEF DropsOnlyTheExcused
  <2>0. j \in Jobs BY DEF TypeInv, TypeOK, ArqTypeOK
  <2>1. TypeOK /\ tries[j] \in 0..MaxTries /\ MaxTries \in Nat
    BY <2>0, Domains, SettingsAssumption DEF TypeInv, MaxTries
  <2>2. Touched(j) BY <2>0, <2>1, StepFrame DEF SameJob
  <2>3. CASE Discarded(j)
    <3>1. tries[j] >= MaxTries BY <2>3 DEF Discarded, StrandInv
    <3> QED BY <3>1, <2>1 DEF Excused
  <2>4. CASE IsOver(j)
    <3>1. IsTerminal(j) /\ j \in queue
      BY <2>0, <2>4 DEF IsOver, StrandInv, KeptJob, SettledRun
    <3>2. restarts = 0 \/ restarts > 0 BY <2>1, FaultAssumption DEF TypeOK
    <3>3. CASE restarts = 0
      BY <2>0, <3>1, <3>3
         DEF ExcuseInv, ExcusedJob, Cancelling, Excused, IsTerminal, TerminalStatuses
    <3> QED BY <3>1, <3>2, <3>3 DEF Excused, IsTerminal, TerminalStatuses
  <2> QED
    BY <2>0, <2>1, <2>2, <2>3, <2>4, TouchedCases, RunCases
       DEF Submitted, Queued, Flagged, Noticed, Started, SettledLate, Failed, Dropped,
           Interrupted, Lost, arqVars
<1> QED BY <1>1, <1>2, <1>3, PTL DEF Spec, JobsDroppedForAReason

-----------------------------------------------------------------------------
(* Ended records expire, when runs are not lost and finalize() is not cut      *)
(* short.  Between its HSET and its EXPIRE a record may be terminal without an *)
(* expiry, between RPUSH and EXPIRE the token buffer may have none.          *)
RecordExpires(j) ==
    IsTerminal(j) => \/ j \in hashTtl
                     \/ Finalizing(j) /\ fin[j].step \in {"hdel", "expire_hash"}

BufferExpires(j) == tokens[j] # <<>> => j \in tokenTtl \/ pc[j] = "arm"

Uncut == Faults \cap {"abort", "slow_redis", "redis", "crash", "sigterm"} = {}

ExpiryInv ==
    /\ aborts = {} /\ orphans = {}
    /\ \A j \in Jobs : RecordExpires(j) /\ BufferExpires(j)

(* A run is cut short only while it awaits the model server.                 *)
LEMMA InterruptedAtCall ==
  ASSUME Faults \cap {"abort", "slow_redis", "sigterm"} = {}, aborts = {},
         NEW j \in Jobs, Interrupted(j)
  PROVE  pc[j] = "call" /\ pc'[j] = "shielded" /\ fin'[j].step = "hset"
         /\ fin'[j].status = "cancelled"
<1>1. PICK cause \in Causes : Permitted(j, cause) BY DEF Interrupted
<1>2. pc[j] = "call" BY <1>1 DEF Permitted
<1> QED BY <1>2 DEF Interrupted, TryScope, Finalize

LEMMA NoOrphans ==
  ASSUME Faults \cap {"abort", "slow_redis", "sigterm"} = {}, TypeOK, aborts = {}, orphans = {},
         [Next]_vars
  PROVE  aborts' = {} /\ orphans' = {}
<1>1. aborts' = {} BY NoAborts
<1>2. ASSUME NEW o \in orphans' PROVE FALSE
  <2>1. PICK j \in Jobs : pc[j] = "shielded" /\ Interrupted(j) BY OrphanFrame
  <2> QED BY <2>1, InterruptedAtCall
<1> QED BY <1>1, <1>2

LEMMA TouchedExpiry ==
  ASSUME Uncut, TypeOK, ExpiryInv, NEW j \in Jobs, Touched(j)
  PROVE  RecordExpires(j)' /\ BufferExpires(j)'
<1>a. hash[j] \in Hashes /\ fin[j] \in Finalizers /\ RecordExpires(j) /\ BufferExpires(j)
  BY Domains DEF ExpiryInv
<1> USE DEF RecordExpires, BufferExpires, IsTerminal
<1>1. CASE Submitted(j) \/ Queued(j) \/ Noticed(j)
  BY <1>1, <1>a DEF Submitted, Queued, Noticed, RunRests, Finalizing, storeVars
<1>2. CASE Flagged(j)
  <2>1. hash'[j].status = hash[j].status BY <1>2, <1>a DEF Flagged, Hashes
  <2> QED BY <2>1, <1>2, <1>a DEF Flagged, RunRests, Finalizing
<1>3. CASE Started(j) \/ Discarded(j)
  BY <1>3, <1>a DEF Started, Discarded, Finalizing, storeVars
<1>4. CASE Dropped(j)
  <2>1. CASE DropHash(j)
    <3>1. hash'[j].status \notin TerminalStatuses /\ UNCHANGED <<tokens, tokenTtl>>
      BY <2>1, Domains DEF DropHash, NoHash, TerminalStatuses
    <3> QED BY <1>4, <3>1, <1>a DEF Dropped, RunRests
  <2>2. CASE DropTokens(j)
    <3>1. tokens'[j] = <<>> /\ UNCHANGED <<hash, hashTtl>> BY <2>2, Domains DEF DropTokens
    <3> QED BY <1>4, <3>1, <1>a DEF Dropped, RunRests, Finalizing
  <2> QED BY <1>4, <2>1, <2>2 DEF Dropped
<1>5. CASE Interrupted(j)
  <2>1. pc[j] = "call" /\ UNCHANGED storeVars
    BY <1>5, InterruptedAtCall DEF Uncut, ExpiryInv, Interrupted
  <2> QED BY <2>1, <1>a DEF Finalizing, storeVars
<1>6. CASE IsOver(j) \/ Thinks(j) \/ Receives(j)
  BY <1>6, <1>a DEF IsOver, Thinks, Receives, Goes, Decides, Leaves, Finalizing, storeVars
<1>7. CASE Records(j)
  <2>1. hash'[j].status \notin TerminalStatuses
    BY <1>7, <1>a DEF Records, Hashes, TerminalStatuses
  <2> QED BY <2>1, <1>7, <1>a DEF Records, Goes
<1>8. CASE Publishes(j) \/ Pushes(j)
  BY <1>8, <1>a DEF Publishes, Pushes, Goes, Finalizing
<1>9. CASE Arms(j)
  <2>1. tokens' = tokens /\ (tokens[j] # <<>> => j \in tokenTtl')
    BY <1>9 DEF Arms, ExpireTokens
  <2> QED BY <2>1, <1>9, <1>a DEF Arms, Goes, Finalizing
<1>10. CASE Finalizes(j)
  <2>1. /\ Finalizing(j) /\ pc[j] # "arm" /\ pc'[j] = pc[j] /\ fin'[j] = NextFinal(fin[j])
        /\ FinalStep(j, fin[j])
    BY <1>10 DEF Finalizes, Finalizing
  <2>2. /\ NextFinal(fin[j]).step = CASE fin[j].step = "hset" -> "hdel"
                                      [] fin[j].step = "hdel" -> "expire_hash"
                                      [] fin[j].step = "expire_hash" -> "expire_tokens"
                                      [] fin[j].step = "expire_tokens" -> "publish"
                                      [] OTHER -> "reply"
    BY <1>a DEF NextFinal, Finalizers
  <2>3. BufferExpires(j)'
    <3>1. tokens' = tokens /\ tokenTtl \subseteq tokenTtl'
      BY <2>1 DEF FinalStep, WriteHash, ExpireHash, ExpireTokens, Publish
    <3> QED BY <2>1, <3>1, <1>a
  <2>4. CASE fin[j].step \in {"hset", "hdel"}
    BY <2>1, <2>2, <2>3, <2>4 DEF Finalizing
  <2>5. CASE fin[j].step = "expire_hash"
    <3>1. ExpireHash(j) /\ hash' = hash BY <2>1, <2>5 DEF FinalStep, ExpireHash
    <3>2. hash[j].status \in TerminalStatuses => Exists(j)
      BY DEF Exists, NoHash, TerminalStatuses
    <3> QED BY <2>3, <3>1, <3>2 DEF ExpireHash
  <2>6. CASE fin[j].step \in {"expire_tokens", "publish"}
    <3>1. UNCHANGED <<hash, hashTtl>> BY <2>1, <2>6 DEF FinalStep, ExpireTokens, Publish
    <3> QED BY <2>3, <2>6, <3>1, <1>a
  <2>7. fin[j].step \in {"hset", "hdel", "expire_hash", "expire_tokens", "publish"}
    BY <2>1 DEF FinalStep
  <2> QED BY <2>3, <2>4, <2>5, <2>6, <2>7
<1> QED
  BY <1>1, <1>2, <1>3, <1>4, <1>5, <1>6, <1>7, <1>8, <1>9, <1>10, TouchedCases, RunCases
     DEF SettledLate, Failed, Lost, Uncut, ExpiryInv

(* The inductive invariant holds in every reachable state.                   *)
THEOREM ExpiryInvariant ==
  ASSUME Uncut
  PROVE  Spec => [](TypeInv /\ ExpiryInv)
<1>1. Init => TypeInv /\ ExpiryInv
  <2>1. Init => ExpiryInv
    BY DEF Init, StoreInit, ArqInit, RunnerInit, ExpiryInv, RecordExpires, BufferExpires,
       IsTerminal, NoHash, TerminalStatuses
  <2> QED BY <2>1, InitType
<1>2. TypeInv /\ ExpiryInv /\ [Next]_vars => (TypeInv /\ ExpiryInv)'
  <2> SUFFICES ASSUME TypeInv, ExpiryInv, [Next]_vars PROVE (TypeInv /\ ExpiryInv)' OBVIOUS
  <2>1. TypeInv' BY NextType
  <2>2. aborts' = {} /\ orphans' = {} BY NoOrphans DEF TypeInv, ExpiryInv, Uncut
  <2>3. ASSUME NEW j \in Jobs PROVE RecordExpires(j)' /\ BufferExpires(j)'
    <3>1. CASE SameJob(j)
      BY <3>1 DEF SameJob, ExpiryInv, RecordExpires, BufferExpires, IsTerminal, Finalizing
    <3>2. CASE Touched(j) BY <3>2, TouchedExpiry DEF TypeInv
    <3> QED BY <3>1, <3>2, StepFrame DEF TypeInv
  <2> QED BY <2>1, <2>2, <2>3 DEF ExpiryInv
<1> QED BY <1>1, <1>2, PTL DEF Spec

(* A record that ended keeps its expiry, and so does its token buffer, even    *)
(* when the keys expired and were written again while the job ran: finalize()  *)
(* sets the one after its last write, append_token() the other after each.    *)
THEOREM EndedRecordsExpire ==
  ASSUME Uncut
  PROVE  Spec => []FinalizedRecordsExpire
<1>1. TypeInv /\ ExpiryInv => FinalizedRecordsExpire
  BY DEF ExpiryInv, RecordExpires, BufferExpires, Finalizing, FinalizedRecordsExpire, Abandoned
<1> QED BY <1>1, ExpiryInvariant, PTL

-----------------------------------------------------------------------------
(* What a cancel request stops, unless the record expires and the flag with    *)
(* it.  From the announcement on the flag is set, so that the next poll ends   *)
(* the stream: what is left to publish is left of the chunk in hand.         *)
Notified(j) == \E k \in DOMAIN channel[j] : channel[j][k] = StatusEvent("cancelled")

Remaining(j) == IF pc[j] = "push" THEN pending[j]
                ELSE IF pc[j] \in {"arm", "publish"} THEN pending[j] + 1 ELSE 0

WithinChunk(j) ==
    /\ pc[j] = "poll" => pending[j] <= MaxDeltas
    /\ Remaining(j) <= MaxDeltas

CancelJob(j) ==
    /\ WithinChunk(j)
    /\ Notified(j) => /\ IsCancelRequested(j) /\ phase[j] # "new"
                      /\ Cardinality(LateTokens(j)) + Remaining(j) <= MaxDeltas

CancelRequest(c) ==
    /\ cpc[c] \in {"exists", "flag", "announce"} => phase[target[c]] # "new"
    /\ cpc[c] = "announce" => IsCancelRequested(target[c])

CancelInv == (\A j \in Jobs : CancelJob(j)) /\ \A c \in Cancellers : CancelRequest(c)

LEMMA LateFinite ==
  ASSUME TypeOK, NEW j \in Jobs
  PROVE  /\ IsFiniteSet(LateTokens(j)) /\ Cardinality(LateTokens(j)) \in Nat
         /\ ~Notified(j) => LateTokens(j) = {}
<1>1. channel[j] \in Seq(Events) BY Domains
<1>2. Len(channel[j]) \in Nat /\ DOMAIN channel[j] = 1..Len(channel[j]) BY <1>1
<1>3. IsFiniteSet(1..Len(channel[j])) BY <1>2, FS_Interval
<1>4. LateTokens(j) \in SUBSET (1..Len(channel[j])) BY <1>2 DEF LateTokens
<1>5. IsFiniteSet(LateTokens(j)) BY <1>3, <1>4, FS_Subset
<1>6. ASSUME NEW i \in LateTokens(j) PROVE Notified(j)
  <2>1. PICK k \in 1..(i - 1) : channel[j][k] = StatusEvent("cancelled")
    BY DEF LateTokens, AfterCancel
  <2>2. i \in 1..Len(channel[j]) BY <1>4
  <2>3. k \in 1..Len(channel[j]) BY <1>2, <2>2
  <2> QED BY <1>2, <2>1, <2>3 DEF Notified
<1> QED BY <1>5, <1>6, FS_CardinalityType

LEMMA LateAppend ==
  ASSUME TypeOK, NEW j \in Jobs, NEW e \in Events, channel'[j] = Append(channel[j], e)
  PROVE  /\ Notified(j)' <=> Notified(j) \/ e = StatusEvent("cancelled")
         /\ \/ LateTokens(j)' = LateTokens(j)
            \/ /\ e.type = "token" /\ Notified(j)
               /\ \E n : LateTokens(j)' = LateTokens(j) \cup {n}
<1>1. channel[j] \in Seq(Events) BY Domains
<1>2. PICK n \in Nat : n = Len(channel[j]) + 1 /\ DOMAIN channel[j] = 1..(n - 1)
  BY <1>1
<1>3. /\ DOMAIN channel'[j] = 1..n /\ n \notin 1..(n - 1) /\ 1..n = 1..(n - 1) \cup {n}
      /\ channel'[j][n] = e /\ \A i \in 1..(n - 1) : channel'[j][i] = channel[j][i]
  BY <1>1, <1>2
<1>4. ASSUME NEW i \in 1..(n - 1) PROVE AfterCancel(j, i)' <=> AfterCancel(j, i)
  <2>1. \A k \in 1..(i - 1) : k \in 1..(n - 1) BY <1>2
  <2> QED BY <1>3, <2>1 DEF AfterCancel
<1>5. AfterCancel(j, n)' <=> Notified(j) BY <1>2, <1>3 DEF AfterCancel, Notified
<1>6. Notified(j)' <=> Notified(j) \/ e = StatusEvent("cancelled")
  BY <1>2, <1>3 DEF Notified
<1>7. \A i : i \in LateTokens(j)' <=>
               i \in LateTokens(j) \/ (i = n /\ e.type = "token" /\ Notified(j))
  BY <1>2, <1>3, <1>4, <1>5 DEF LateTokens
<1>8. CASE e.type = "token" /\ Notified(j)
  <2>1. LateTokens(j)' = LateTokens(j) \cup {n} BY <1>7, <1>8
  <2> QED BY <1>6, <1>8, <2>1
<1>9. CASE ~(e.type = "token" /\ Notified(j))
  <2>1. LateTokens(j)' = LateTokens(j) BY <1>7, <1>9
  <2> QED BY <1>6, <2>1
<1> QED BY <1>8, <1>9

(* A flag that has been set stays set.                                       *)
LEMMA FlagKept ==
  ASSUME "expiry" \notin Faults, TypeOK, [Next]_vars, NEW j \in Jobs, phase[j] # "new"
  PROVE  phase'[j] # "new" /\ (IsCancelRequested(j) => IsCancelRequested(j)')
<1> USE DEF IsCancelRequested
<1>a. hash[j] \in Hashes /\ fin[j] \in Finalizers BY Domains
<1>1. CASE SameJob(j) BY <1>1 DEF SameJob
<1>2. CASE Queued(j) \/ Noticed(j) \/ Started(j) \/ Discarded(j) \/ Failed(j) \/ Interrupted(j)
           \/ Lost(j)
  BY <1>2 DEF Queued, Noticed, Started, Discarded, Failed, Interrupted, Lost, storeVars, apiVars
<1>3. CASE Flagged(j) BY <1>3, <1>a DEF Flagged, Hashes
<1>4. CASE SettledLate(j)
  <2>1. PICK o \in orphans : o.job = j /\ FinalStep(j, o.fin) BY <1>4 DEF SettledLate
  <2>2. o.fin \in Finalizers BY DEF TypeOK, RunnerTypeOK
  <2> QED BY <1>4, <2>1, <2>2, FinalStepCases DEF SettledLate
<1>5. CASE Run(j)
  <2>1. phase' = phase BY <1>5, RunFrame
  <2>2. CASE Records(j) BY <2>1, <2>2, <1>a DEF Records, Hashes
  <2>3. CASE Finalizes(j) BY <2>1, <2>3, <1>a, FinalStepCases DEF Finalizes
  <2>4. CASE \/ IsOver(j) \/ Thinks(j) \/ Receives(j) \/ Publishes(j) \/ Pushes(j) \/ Arms(j)
    BY <2>1, <2>4 DEF IsOver, Thinks, Receives, Publishes, Pushes, Arms, storeVars
  <2> QED BY <1>5, <2>2, <2>3, <2>4, RunCases
<1> QED
  BY <1>1, <1>2, <1>3, <1>4, <1>5, StepFrame, TouchedCases DEF Submitted, Dropped

LEMMA RequestFrame ==
  ASSUME TypeOK, [Next]_vars, NEW c \in Cancellers
  PROVE  /\ target' = target
         /\ \/ cpc'[c] = cpc[c]
            \/ cpc'[c] \in {"abort", "done"}
            \/ CancelGet(c) /\ cpc'[c] = "exists"
            \/ CancelExists(c) /\ cpc'[c] = "flag"
            \/ CancelFlag(c) /\ cpc'[c] = "announce"
<1>1. cpc \in [Cancellers -> CancelSteps] BY DEF TypeOK, ApiTypeOK
<1>2. CASE Api
  <2>1. ASSUME NEW j \in Jobs, CreateJob(j) \/ Enqueue(j) PROVE UNCHANGED <<cpc, target>>
    BY <2>1 DEF CreateJob, Enqueue
  <2>2. ASSUME NEW b \in Cancellers, \/ CancelGet(b) \/ CancelExists(b) \/ CancelFlag(b)
                                     \/ CancelAnnounce(b) \/ CancelAbort(b)
        PROVE  /\ target' = target
               /\ b # c => cpc'[c] = cpc[c]
    BY <2>2, <1>1 DEF CancelGet, CancelExists, CancelFlag, CancelAnnounce, CancelAbort, CancelGoto
  <2>3. CASE CancelGet(c) \/ CancelExists(c) \/ CancelFlag(c) \/ CancelAnnounce(c)
             \/ CancelAbort(c)
    BY <2>2, <2>3, <1>1
       DEF CancelGet, CancelExists, CancelFlag, CancelAnnounce, CancelAbort, CancelGoto
  <2> QED BY <1>2, <2>1, <2>2, <2>3 DEF Api, ApiStep, AbortStep
<1>3. CASE ~Api
  <2>1. UNCHANGED apiVars
    BY <1>3 DEF Next, Start, DiscardJob, Run, Abort, Recover, OrphanStep, Crash, Sigterm, Exit,
       JobTimeout, RedisFails, KeyExpires, vars
  <2> QED BY <2>1 DEF apiVars
<1> QED BY <1>2, <1>3

LEMMA NextRequest ==
  ASSUME "expiry" \notin Faults, TypeOK, CancelInv, [Next]_vars, NEW c \in Cancellers
  PROVE  CancelRequest(c)'
<1>1. CancelRequest(c) /\ target[c] \in Jobs BY DEF CancelInv, TypeOK, ApiTypeOK
<1>2. PICK j \in Jobs : j = target[c] /\ j = target'[c] BY <1>1, RequestFrame
<1>3. phase[j] # "new" =>
        phase'[j] # "new" /\ (IsCancelRequested(j) => IsCancelRequested(j)')
  BY FlagKept
<1> USE DEF CancelRequest
<1>4. CASE cpc'[c] = cpc[c] BY <1>1, <1>2, <1>3, <1>4 DEF IsCancelRequested
<1>5. CASE cpc'[c] \in {"abort", "done"} BY <1>5
<1>6. CASE CancelGet(c) /\ cpc'[c] = "exists" BY <1>2, <1>3, <1>6 DEF CancelGet
<1>7. CASE CancelExists(c) /\ cpc'[c] = "flag" BY <1>1, <1>2, <1>3, <1>7 DEF CancelExists
<1>8. CASE CancelFlag(c) /\ cpc'[c] = "announce"
  <2>1. hash'[j] = [hash[j] EXCEPT !.cancel = TRUE] /\ hash[j] \in Hashes /\ cpc[c] = "flag"
    BY <1>2, <1>8, Domains DEF CancelFlag, WriteHash
  <2>2. hash'[j].cancel = TRUE BY <2>1 DEF Hashes
  <2> QED BY <1>1, <1>2, <1>3, <1>8, <2>1, <2>2 DEF IsCancelRequested
<1> QED BY <1>4, <1>5, <1>6, <1>7, <1>8, RequestFrame

(* A step that appends no event, or one that is neither a token nor a cancel.  *)
LEMMA CancelQuiet ==
  ASSUME TypeOK, NEW j \in Jobs, CancelJob(j),
         phase[j] # "new" => phase'[j] # "new" /\ (IsCancelRequested(j) => IsCancelRequested(j)'),
         \/ channel'[j] = channel[j]
         \/ \E e \in Events : /\ e.type # "token" /\ e # StatusEvent("cancelled")
                              /\ channel'[j] = Append(channel[j], e),
         Remaining(j)' <= Remaining(j) \/ ~IsCancelRequested(j), WithinChunk(j)',
         Remaining(j) \in Nat, Remaining(j)' \in Nat
  PROVE  CancelJob(j)'
<1>1. LateTokens(j)' = LateTokens(j) /\ (Notified(j)' <=> Notified(j))
  <2>1. CASE channel'[j] = channel[j] BY <2>1 DEF LateTokens, AfterCancel, Notified
  <2> QED BY <2>1, LateAppend
<1>2. Cardinality(LateTokens(j)) \in Nat /\ MaxDeltas \in Nat BY LateFinite, RunnerAssumption
<1>3. Notified(j) => /\ IsCancelRequested(j) /\ phase[j] # "new"
                     /\ Cardinality(LateTokens(j)) + Remaining(j) <= MaxDeltas
  BY DEF CancelJob
<1>4. Notified(j)' => Cardinality(LateTokens(j))' + Remaining(j)' <= MaxDeltas
  BY <1>1, <1>2, <1>3
<1> QED BY <1>1, <1>3, <1>4 DEF CancelJob

LEMMA TouchedCancel ==
  ASSUME "expiry" \notin Faults, TypeOK, TypeOK', CancelInv, [Next]_vars, NEW j \in Jobs,
         Touched(j)
  PROVE  CancelJob(j)'
<1>a. CancelJob(j) /\ WithinChunk(j) /\ pending[j] \in Nat /\ MaxDeltas \in Nat
  BY Domains, RunnerAssumption DEF CancelInv, CancelJob
<1>b. pending'[j] \in Nat BY DEF TypeOK, RunnerTypeOK
<1>c. Remaining(j) \in Nat /\ Remaining(j)' \in Nat BY <1>a, <1>b DEF Remaining
<1>d. phase[j] # "new" => phase'[j] # "new" /\ (IsCancelRequested(j) => IsCancelRequested(j)')
  BY FlagKept
<1>e. ASSUME channel'[j] = channel[j], WithinChunk(j)',
             Remaining(j)' <= Remaining(j) \/ ~IsCancelRequested(j)
      PROVE  CancelJob(j)'
  BY <1>a, <1>c, <1>d, <1>e, CancelQuiet
<1>f. ASSUME NEW e \in Events, e.type # "token", e # StatusEvent("cancelled"),
             channel'[j] = Append(channel[j], e), WithinChunk(j)',
             Remaining(j)' <= Remaining(j)
      PROVE  CancelJob(j)'
  BY <1>a, <1>c, <1>d, <1>f, CancelQuiet
<1>g. ASSUME RunRests(j) PROVE WithinChunk(j)' /\ Remaining(j)' = Remaining(j)
  BY <1>a, <1>g DEF RunRests, WithinChunk, Remaining
<1>1. CASE Submitted(j) \/ Queued(j) \/ Flagged(j) \/ Dropped(j)
  BY <1>1, <1>c, <1>e, <1>g DEF Submitted, Queued, Flagged, Dropped, storeVars
<1>2. CASE Noticed(j)
  <2>1. PICK c \in Cancellers : target[c] = j /\ cpc[c] = "announce" BY <1>2 DEF Noticed
  <2>2. IsCancelRequested(j)' /\ phase'[j] # "new"
    BY <2>1, <1>d DEF CancelInv, CancelRequest
  <2>3. StatusEvent("cancelled") \in Events /\ StatusEvent("cancelled").type # "token"
    BY StatusEventType, EventFields
  <2>4. LateTokens(j)' = LateTokens(j) BY <1>2, <2>3, LateAppend DEF Noticed
  <2>5. Remaining(j)' = Remaining(j) /\ WithinChunk(j)' BY <1>2, <1>g DEF Noticed
  <2>6. Cardinality(LateTokens(j)) + Remaining(j) <= MaxDeltas
    <3>1. CASE Notified(j) BY <1>a, <3>1 DEF CancelJob
    <3>2. CASE ~Notified(j)
      <4>1. Cardinality(LateTokens(j)) = 0 BY <3>2, LateFinite, FS_EmptySet
      <4> QED BY <4>1, <1>a, <1>c DEF WithinChunk
    <3> QED BY <3>1, <3>2
  <2> QED BY <2>2, <2>4, <2>5, <2>6 DEF CancelJob
<1>3. CASE Started(j) \/ Discarded(j) \/ Failed(j) \/ Interrupted(j) \/ Lost(j) \/ IsOver(j)
  <2>1. channel' = channel
        /\ pc'[j] \in {"idle", "get", "shielded", "ended"}
    BY <1>3 DEF Started, Discarded, Failed, Interrupted, Lost, IsOver, storeVars
  <2>2. Remaining(j)' = 0 /\ WithinChunk(j)' BY <2>1, <1>a DEF Remaining, WithinChunk
  <2> QED BY <2>1, <2>2, <1>c, <1>e
<1>4. ASSUME NEW f \in Finalizers, FinalStep(j, f), WithinChunk(j)',
             Remaining(j)' <= Remaining(j)
      PROVE  CancelJob(j)'
  <2>1. TerminalEvent(f.status) \in Events /\ TerminalEvent(f.status).type # "token"
        /\ TerminalEvent(f.status).type # StatusEvent("cancelled").type
    BY <1>4, FinalStepCases, TerminalEventType, EventFields
  <2> QED BY <1>4, <2>1, <1>e, <1>f, FinalStepCases
<1>5. CASE SettledLate(j)
  <2>1. PICK o \in orphans : o.job = j /\ FinalStep(j, o.fin) BY <1>5 DEF SettledLate
  <2>2. o.fin \in Finalizers BY DEF TypeOK, RunnerTypeOK
  <2>3. WithinChunk(j)' /\ Remaining(j)' = Remaining(j) BY <1>5, <1>g DEF SettledLate
  <2>4. Remaining(j)' <= Remaining(j) BY <2>3, <1>c
  <2> QED BY <2>1, <2>2, <2>3, <2>4, <1>4
<1>6. CASE Finalizes(j)
  <2>1. pc[j] \notin {"poll", "push", "arm", "publish"} /\ pc'[j] = pc[j]
        /\ FinalStep(j, fin[j]) /\ fin[j] \in Finalizers
    BY <1>6, Domains DEF Finalizes, Finalizing
  <2>2. Remaining(j)' = 0 /\ Remaining(j) = 0 BY <2>1 DEF Remaining
  <2>3. WithinChunk(j)' BY <2>1, <2>2, <1>a DEF WithinChunk
  <2> QED BY <2>1, <2>2, <2>3, <1>4
<1>7. CASE Thinks(j)
  <2>1. channel' = channel BY <1>7 DEF Thinks, storeVars
  <2>2. \/ pc'[j] \notin {"poll", "push", "arm", "publish"}
        \/ /\ pc[j] = "poll" /\ pc'[j] = "push" /\ pending'[j] = pending[j]
           /\ ~IsCancelRequested(j)
    BY <1>7 DEF Thinks, Goes, Decides, Leaves, NextDelta
  <2>3. WithinChunk(j)' BY <2>2, <1>a DEF WithinChunk, Remaining
  <2>4. Remaining(j)' = 0 \/ ~IsCancelRequested(j) BY <2>2 DEF Remaining
  <2> QED BY <2>1, <2>3, <2>4, <1>c, <1>e
<1>8. CASE Receives(j)
  <2>1. channel' = channel /\ pc'[j] = "poll" /\ pending'[j] <= MaxDeltas
    BY <1>8, <1>a DEF Receives, Goes, storeVars
  <2> QED BY <2>1, <1>a, <1>c, <1>e DEF WithinChunk, Remaining
<1>9. CASE Records(j) \/ Arms(j) \/ Pushes(j)
  <2>1. channel' = channel BY <1>9 DEF Records, Arms, Pushes
  <2>2. Remaining(j)' = Remaining(j) /\ pc'[j] # "poll"
    BY <1>9, <1>a, <1>b DEF Records, Arms, Pushes, Goes, Remaining
  <2> QED BY <2>1, <2>2, <1>a, <1>c, <1>e DEF WithinChunk
<1>10. CASE Publishes(j) /\ pc[j] = "announce"
  <2>1. /\ pc'[j] = "announced" /\ channel'[j] = Append(channel[j], StatusEvent("running"))
        /\ StatusEvent("running") \in Events /\ StatusEvent("running").type # "token"
        /\ StatusEvent("running") # StatusEvent("cancelled")
    BY <1>10, StatusEventType, EventFields DEF Publishes, Goes, StatusEvent
  <2> QED BY <2>1, <1>10, <1>a, <1>f DEF WithinChunk, Remaining
<1>11. CASE Publishes(j) /\ pc[j] = "publish"
  <2> DEFINE e == TokenEvent(index[j], parts[j][Len(parts[j])])
  <2>1. /\ pc'[j] \in {"push", "call"} /\ pending'[j] = pending[j]
        /\ channel'[j] = Append(channel[j], e)
        /\ e.type = "token" /\ e # StatusEvent("cancelled")
    BY <1>11, EventFields DEF Publishes, Goes, NextDelta
  <2> HIDE DEF e
  <2>2. e \in Events
    <3>1. channel'[j] \in Seq(Events) /\ channel[j] \in Seq(Events) BY DEF TypeOK, StoreTypeOK
    <3>2. Append(channel[j], e)[Len(channel[j]) + 1] = e
          /\ Len(channel[j]) + 1 \in DOMAIN Append(channel[j], e)
      BY <3>1
    <3> QED BY <2>1, <3>1, <3>2
  <2>3. Notified(j)' => Notified(j) BY <2>1, <2>2, LateAppend
  <2>4. PICK k \in Nat : k = Cardinality(LateTokens(j)) BY LateFinite
  <2>5. \E m \in Nat : Cardinality(LateTokens(j))' = m /\ m <= k + 1
    <3>1. CASE LateTokens(j)' = LateTokens(j) BY <2>4, <3>1
    <3>2. ASSUME NEW n, LateTokens(j)' = LateTokens(j) \cup {n}
          PROVE  \E m \in Nat : Cardinality(LateTokens(j))' = m /\ m <= k + 1
      <4>1. IsFiniteSet(LateTokens(j)) BY LateFinite
      <4>2. Cardinality(LateTokens(j) \cup {n}) \in {k, k + 1} BY <2>4, <4>1, FS_AddElement
      <4> QED BY <3>2, <4>2
    <3> QED BY <3>1, <3>2, <2>1, <2>2, LateAppend
  <2>6. Remaining(j) = pending[j] + 1 /\ Remaining(j)' <= pending[j]
    BY <2>1, <1>11, <1>a DEF Remaining
  <2>7. WithinChunk(j)' BY <2>1, <2>6, <1>a, <1>c DEF WithinChunk
  <2>8. Notified(j) => k + Remaining(j) <= MaxDeltas BY <2>4, <1>a DEF CancelJob
  <2>9. Notified(j) => Cardinality(LateTokens(j))' + Remaining(j)' <= MaxDeltas
    BY <2>5, <2>6, <2>8, <1>a, <1>c
  <2> QED BY <2>3, <2>7, <2>9, <1>a, <1>d DEF CancelJob
<1> QED
  BY <1>1, <1>2, <1>3, <1>5, <1>6, <1>7, <1>8, <1>9, <1>10, <1>11, TouchedCases, RunCases
     DEF Publishes, Goes

(* The inductive invariant holds in every reachable state.                   *)
THEOREM CancelInvariant ==
  ASSUME "expiry" \notin Faults
  PROVE  Spec => [](TypeInv /\ CancelInv)
<1>1. Init => TypeInv /\ CancelInv
  <2>1. Init => CancelInv
    BY RunnerAssumption
       DEF Init, StoreInit, RunnerInit, ApiInit, CancelInv, CancelJob, WithinChunk, Remaining,
           Notified, CancelRequest
  <2> QED BY <2>1, InitType
<1>2. TypeInv /\ CancelInv /\ [Next]_vars => (TypeInv /\ CancelInv)'
  <2> SUFFICES ASSUME TypeInv, CancelInv, [Next]_vars PROVE (TypeInv /\ CancelInv)' OBVIOUS
  <2>1. TypeInv' BY NextType
  <2>2. TypeOK /\ TypeOK' BY <2>1 DEF TypeInv
  <2>3. ASSUME NEW j \in Jobs PROVE CancelJob(j)'
    <3>1. CASE SameJob(j)
      <4>1. LateTokens(j)' = LateTokens(j) /\ (Notified(j)' <=> Notified(j))
            /\ Remaining(j)' = Remaining(j)
        BY <3>1 DEF SameJob, LateTokens, AfterCancel, Notified, Remaining
      <4> QED BY <3>1, <4>1 DEF SameJob, CancelInv, CancelJob, WithinChunk, IsCancelRequested
    <3>2. CASE Touched(j) BY <3>2, <2>2, TouchedCancel
    <3> QED BY <3>1, <3>2, <2>2, StepFrame
  <2>4. ASSUME NEW c \in Cancellers PROVE CancelRequest(c)' BY <2>2, NextRequest
  <2> QED BY <2>1, <2>3, <2>4 DEF CancelInv
<1> QED BY <1>1, <1>2, PTL DEF Spec

(* Whatever crashes, stops, aborts, times out or fails: once a cancel request   *)
(* is announced, at most the rest of one chunk is published, over all later    *)
(* attempts and for every number of tokens, retries and workers.             *)
THEOREM CancelStops ==
  ASSUME "expiry" \notin Faults
  PROVE  Spec => []CancelOvershoot
<1>1. TypeInv /\ CancelInv => CancelOvershoot
  <2> SUFFICES ASSUME TypeInv, CancelInv, NEW j \in Jobs
               PROVE  Cardinality(LateTokens(j)) <= MaxDeltas
    BY DEF CancelOvershoot
  <2>1. TypeOK /\ pending[j] \in Nat /\ MaxDeltas \in Nat
    BY Domains, RunnerAssumption DEF TypeInv
  <2>2. Remaining(j) \in Nat /\ Cardinality(LateTokens(j)) \in Nat
    BY <2>1, LateFinite DEF Remaining
  <2>3. CASE Notified(j) BY <2>1, <2>2, <2>3 DEF CancelInv, CancelJob
  <2>4. CASE ~Notified(j)
    <3>1. LateTokens(j) = {} BY <2>1, <2>4, LateFinite
    <3>2. Cardinality(LateTokens(j)) = 0 BY <3>1, FS_EmptySet
    <3> QED BY <2>1, <3>2
  <2> QED BY <2>3, <2>4
<1> QED BY <1>1, CancelInvariant, PTL

-----------------------------------------------------------------------------
(* The lifecycle promised to clients, when only job_timeout at the model       *)
(* server and the death of workers disturb the runs.  The await a run is at   *)
(* says what its record's status is, the try it is says how many attempts     *)
(* there were, and the final event is still to come until finalize() ends.   *)
AttemptsCounted(j) ==
    /\ phase[j] = "new" => hash[j].status = "none"
    /\ phase[j] # "new" => hash[j].status # "none"
    /\ phase[j] # "enqueued" => hash[j].attempts = 0
    /\ j \in queue => hash[j].attempts <= tries[j]
    /\ pc[j] \in {"get", "check", "mark"} => hash[j].attempts < tries[j]
    /\ pc[j] = "requeue" => tries[j] <= MaxRetries

StatusAt(j) ==
    /\ pc[j] \in {"check", "mark"} => ~IsTerminal(j)
    /\ pc[j] \in {"announce", "announced", "call", "poll", "push", "arm", "publish", "requeue"}
         => hash[j].status = "running"
    /\ pc[j] = "requeued" => hash[j].status = "queued"
    /\ Finalizing(j) /\ fin[j].step # "hset" => hash[j].status = fin[j].status
    /\ Finalizing(j) /\ fin[j].step = "hset" =>
         IF pc[j] = "cancel_early" THEN ~IsTerminal(j) /\ fin[j].status = "cancelled"
                                   ELSE hash[j].status = "running"

FinalEventAt(j) ==
    /\ ~IsTerminal(j) => Ends(j) = {}
    /\ Finalizing(j) /\ fin[j].step # "reply" => Ends(j) = {}
    /\ Announced(j) \in {"none", hash[j].status}

PromisedJob(j) ==
    /\ QueuedWhenEnqueued(j)
    /\ pc[j] # "idle" => j \in queue
    /\ AttemptsCounted(j) /\ StatusAt(j) /\ FinalEventAt(j)

LifecycleInv == aborts = {} /\ orphans = {} /\ \A j \in Jobs : PromisedJob(j)

OnlyLosesWorkers == Faults \cap {"abort", "slow_redis", "redis", "expiry", "sigterm"} = {}

(* What a client sees of a step.                                             *)
Hidden(j) == hash'[j].status = hash[j].status /\ hash'[j].attempts = hash[j].attempts
             /\ Announced(j)' = Announced(j)

Visible(j) ==
    \/ /\ hash[j].status = "none" /\ hash'[j].status = "queued"
       /\ hash'[j].attempts = hash[j].attempts /\ Announced(j)' = Announced(j)
    \/ /\ hash[j].status \in {"queued", "running"} /\ hash'[j].status = "running"
       /\ hash'[j].attempts \in (hash[j].attempts + 1)..MaxTries
       /\ Announced(j)' = Announced(j)
    \/ /\ hash[j].status = "running" /\ hash[j].attempts < MaxTries
       /\ hash'[j].status = "queued"
       /\ hash'[j].attempts = hash[j].attempts /\ Announced(j)' = Announced(j)
    \/ /\ \/ hash[j].status = "running" /\ hash'[j].status \in TerminalStatuses
          \/ hash[j].status = "queued" /\ hash'[j].status = "cancelled"
       /\ hash'[j].attempts = hash[j].attempts /\ Announced(j)' = Announced(j)
    \/ /\ hash[j].status \in TerminalStatuses /\ Announced(j) = "none"
       /\ Announced(j)' = hash[j].status
       /\ hash'[j].status = hash[j].status /\ hash'[j].attempts = hash[j].attempts

LEMMA AnnouncedSame ==
  ASSUME NEW j \in Jobs, Ends(j)' = Ends(j), \A i \in Ends(j) : channel'[j][i] = channel[j][i]
  PROVE  Announced(j)' = Announced(j)
<1>1. CASE \E i \in Ends(j) : Ends(j) = {i}
  <2>1. (CHOOSE i \in Ends(j) : TRUE) \in Ends(j) BY <1>1
  <2> QED BY <1>1, <2>1 DEF Announced
<1>2. CASE ~\E i \in Ends(j) : Ends(j) = {i} BY <1>2 DEF Announced
<1> QED BY <1>1, <1>2

LEMMA AnnouncedFirst ==
  ASSUME TypeOK, NEW j \in Jobs, Ends(j) = {}, NEW s \in TerminalStatuses,
         channel'[j] = Append(channel[j], TerminalEvent(s))
  PROVE  Announced(j)' = s
<1> DEFINE e == TerminalEvent(s)
<1>1. e \in Events /\ e.type \in {"done", "error"} /\ e.status = s
  BY TerminalEventType, EventFields
<1> HIDE DEF e
<1>0. channel'[j] = Append(channel[j], e) BY DEF e
<1>2. PICK n \in Nat : channel'[j][n] = e /\ Ends(j)' = {n}
  <2>1. PICK n \in Nat :
          /\ channel'[j][n] = e
          /\ Ends(j)' = IF e.type \in {"done", "error"} THEN Ends(j) \cup {n} ELSE Ends(j)
    BY <1>0, <1>1, EndsAppend
  <2> QED BY <1>1, <2>1
<1>3. (CHOOSE i \in Ends(j)' : TRUE) = n BY <1>2
<1> QED BY <1>1, <1>2, <1>3 DEF Announced

(* The proof obligations of a step that leaves the record and its events.     *)
LEMMA PromisedQuiet ==
  ASSUME TypeOK, NEW j \in Jobs, PromisedJob(j),
         hash'[j].status = hash[j].status, hash'[j].attempts = hash[j].attempts,
         Ends(j)' = Ends(j), \A i \in Ends(j) : channel'[j][i] = channel[j][i],
         QueuedWhenEnqueued(j)', pc'[j] # "idle" => j \in queue',
         AttemptsCounted(j)', StatusAt(j)',
         Finalizing(j)' /\ fin'[j].step # "reply" => Ends(j) = {}
  PROVE  PromisedJob(j)' /\ Hidden(j)
<1>1. Hidden(j) BY AnnouncedSame DEF Hidden
<1>2. FinalEventAt(j)' BY <1>1 DEF PromisedJob, FinalEventAt, Hidden, IsTerminal
<1> QED BY <1>1, <1>2 DEF PromisedJob

LEMMA RunPromised ==
  ASSUME TypeOK, TypeOK', NEW j \in Jobs, PromisedJob(j), Run(j)
  PROVE  PromisedJob(j)' /\ (Hidden(j) \/ Visible(j))
<1>a. /\ hash[j] \in Hashes /\ fin[j] \in Finalizers /\ phase' = phase /\ tries[j] \in 0..MaxTries
      /\ MaxTries \in Nat /\ MaxRetries \in Nat /\ MaxTries = MaxRetries + 1
  BY Domains, RunFrame, SettingsAssumption DEF MaxTries
<1>b. hash[j].status \in Statuses \cup {"none"} /\ hash[j].attempts \in Nat BY <1>a DEF Hashes
<1> DEFINE Same == queue' = queue /\ tries' = tries /\ intr'[j] = intr[j]
<1>c. ASSUME channel'[j] = channel[j]
      PROVE  Ends(j)' = Ends(j) /\ \A i \in Ends(j) : channel'[j][i] = channel[j][i]
  BY <1>c DEF Ends
<1>d. QueuedWhenEnqueued(j) /\ (pc[j] # "idle" => j \in queue)
      /\ AttemptsCounted(j) /\ StatusAt(j) /\ FinalEventAt(j)
  BY DEF PromisedJob
<1>1. CASE IsOver(j)
  <2>1. /\ hash' = hash /\ channel' = channel /\ pc[j] = "ended" /\ pc'[j] = "idle"
        /\ \/ queue' = queue /\ tries' = tries
           \/ j \notin queue'
    BY <1>1 DEF IsOver, storeVars
  <2>2. QueuedWhenEnqueued(j)' /\ StatusAt(j)' /\ ~Finalizing(j)'
    BY <2>1, <1>a, <1>d DEF QueuedWhenEnqueued, StatusAt, Finalizing
  <2>3. AttemptsCounted(j)' BY <2>1, <1>a, <1>d DEF AttemptsCounted
  <2> QED BY <2>1, <2>2, <2>3, <1>c, PromisedQuiet
<1>2. CASE Same /\ (Thinks(j) \/ Receives(j) \/ Pushes(j) \/ Arms(j))
  <2>1. hash' = hash /\ channel' = channel
    BY <1>2 DEF Thinks, Receives, Pushes, Arms, storeVars
  <2>2. QueuedWhenEnqueued(j)' /\ (pc'[j] # "idle" => j \in queue') /\ AttemptsCounted(j)'
    BY <1>2, <2>1, <1>a, <1>d
       DEF Thinks, Receives, Pushes, Arms, Goes, Decides, Leaves, NextDelta, QueuedWhenEnqueued,
           AttemptsCounted, Finalizing
  <2>3. StatusAt(j)' /\ (Finalizing(j)' /\ fin'[j].step # "reply" => Ends(j) = {})
    BY <1>2, <2>1, <1>a, <1>d
       DEF Thinks, Receives, Pushes, Arms, Goes, Decides, Leaves, NextDelta, StatusAt,
           FinalEventAt, Finalizing, IsTerminal, TerminalStatuses
  <2> QED BY <2>1, <2>2, <2>3, <1>c, PromisedQuiet
<1>3. CASE Same /\ Publishes(j)
  <2>1. hash' = hash BY <1>3 DEF Publishes
  <2>2. Ends(j)' = Ends(j) /\ \A i \in Ends(j) : channel'[j][i] = channel[j][i]
    BY <1>3, QuietEvents
  <2>3. /\ QueuedWhenEnqueued(j)' /\ (pc'[j] # "idle" => j \in queue') /\ AttemptsCounted(j)'
        /\ StatusAt(j)' /\ ~Finalizing(j)'
    BY <1>3, <2>1, <1>a, <1>d
       DEF Publishes, Goes, NextDelta, QueuedWhenEnqueued, AttemptsCounted, StatusAt, Finalizing
  <2> QED BY <2>1, <2>2, <2>3, PromisedQuiet
<1>4. CASE Same /\ Records(j)
  <2>1. Ends(j) = {} /\ Announced(j) = "none" /\ ~IsTerminal(j)
    BY <1>4, <1>d, AnnouncedNone
       DEF Records, Goes, StatusAt, FinalEventAt, IsTerminal, TerminalStatuses
  <2>2. Ends(j)' = {} /\ Announced(j)' = "none"
    BY <1>4, <2>1 DEF Records, Ends, Announced
  <2>3. \/ /\ pc[j] = "mark" /\ pc'[j] = "announce"
           /\ hash'[j].status = "running" /\ hash'[j].attempts = tries[j]
        \/ /\ pc[j] = "requeue" /\ pc'[j] = "requeued"
           /\ hash'[j].status = "queued" /\ hash'[j].attempts = hash[j].attempts
    BY <1>4, <1>a DEF Records, Goes, Hashes
  <2> HIDE DEF Same
  <2>4. phase[j] = "enqueued" /\ j \in queue BY <2>3, <1>d DEF QueuedWhenEnqueued
  <2>5. PromisedJob(j)'
    BY <1>4, <2>2, <2>3, <2>4, <1>a, <1>b
       DEF PromisedJob, QueuedWhenEnqueued, AttemptsCounted, StatusAt, FinalEventAt, Finalizing,
           Same
  <2>6. Visible(j)
    BY <2>1, <2>2, <2>3, <2>4, <1>a, <1>b, <1>d
       DEF Visible, AttemptsCounted, StatusAt, IsTerminal, Statuses
  <2> QED BY <2>5, <2>6
<1>5. CASE Same /\ Finalizes(j)
  <2>1. /\ Finalizing(j) /\ Finalizing(j)' /\ pc'[j] = pc[j] /\ FinalStep(j, fin[j])
        /\ fin'[j] = NextFinal(fin[j]) /\ pc[j] \in {"cancel_early", "finalize", "shielded"}
    BY <1>5 DEF Finalizes, Finalizing
  <2>2. fin[j].step # "reply" BY <2>1 DEF FinalStep
  <2>3. Ends(j) = {} /\ Announced(j) = "none"
    BY <2>1, <2>2, <1>d, AnnouncedNone DEF FinalEventAt
  <2>4. phase[j] = "enqueued" /\ j \in queue BY <2>1, <1>d DEF QueuedWhenEnqueued
  <2>5. /\ fin[j].status \in TerminalStatuses /\ fin'[j].status = fin[j].status
        /\ fin'[j].step # "hset" /\ (fin'[j].step = "reply" <=> fin[j].step = "publish")
        /\ hash'[j].status = fin[j].status /\ hash'[j].attempts = hash[j].attempts
    BY <2>1, <1>a, <1>d, FinalStepCases DEF StatusAt
  <2>6. QueuedWhenEnqueued(j)' /\ AttemptsCounted(j)' /\ StatusAt(j)'
    BY <1>5, <2>1, <2>4, <2>5, <1>a, <1>d
       DEF QueuedWhenEnqueued, AttemptsCounted, StatusAt, TerminalStatuses
  <2>7. CASE fin[j].step = "publish"
    <3>1. Announced(j)' = fin[j].status /\ hash[j].status = fin[j].status
      BY <2>1, <2>3, <2>5, <2>7, <1>a, <1>d, FinalStepCases, AnnouncedFirst DEF StatusAt
    <3>2. FinalEventAt(j)' BY <3>1, <2>5, <2>7 DEF FinalEventAt, IsTerminal
    <3> QED BY <1>5, <3>1, <3>2, <2>3, <2>4, <2>5, <2>6 DEF PromisedJob, Visible
  <2>8. CASE fin[j].step # "publish"
    <3>1. channel'[j] = channel[j] BY <2>1, <2>8, <1>a, FinalStepCases
    <3>2. Ends(j)' = {} /\ Announced(j)' = Announced(j) /\ Announced(j)' = "none"
      BY <3>1, <2>3 DEF Ends, Announced
    <3>3. FinalEventAt(j)' BY <3>2 DEF FinalEventAt
    <3>4. CASE fin[j].step = "hset"
      BY <1>5, <3>2, <3>3, <3>4, <2>1, <2>4, <2>5, <2>6, <1>b, <1>d
         DEF PromisedJob, Visible, StatusAt, IsTerminal, Statuses, AttemptsCounted
    <3>5. CASE fin[j].step # "hset"
      BY <1>5, <3>2, <3>3, <3>5, <2>1, <2>4, <2>5, <2>6, <1>d DEF PromisedJob, Hidden, StatusAt
    <3> QED BY <3>4, <3>5
  <2> QED BY <2>7, <2>8
<1> QED BY <1>1, <1>2, <1>3, <1>4, <1>5, RunCases

LEMMA TouchedPromised ==
  ASSUME OnlyLosesWorkers, TypeOK, TypeOK', LifecycleInv, NEW j \in Jobs, Touched(j)
  PROVE  PromisedJob(j)' /\ (Hidden(j) \/ Visible(j))
<1>a. /\ PromisedJob(j) /\ QueuedWhenEnqueued(j) /\ (pc[j] # "idle" => j \in queue)
      /\ AttemptsCounted(j) /\ StatusAt(j) /\ FinalEventAt(j) /\ hash[j] \in Hashes
      /\ tries[j] \in Nat /\ hash[j].attempts \in Nat
  BY Domains, SettingsAssumption DEF LifecycleInv, PromisedJob, Hashes, MaxTries
<1>c. ASSUME channel'[j] = channel[j]
      PROVE  Ends(j)' = Ends(j) /\ \A i \in Ends(j) : channel'[j][i] = channel[j][i]
  BY <1>c DEF Ends
<1>1. CASE Run(j) BY <1>1, <1>a, RunPromised
<1>2. CASE Submitted(j)
  <2>1. /\ hash[j].status = "none" /\ hash[j].attempts = 0 /\ pc[j] = "idle" /\ j \notin queue
        /\ hash'[j].status = "queued" /\ hash'[j].attempts = 0
    BY <1>2, <1>a DEF Submitted, AttemptsCounted, QueuedWhenEnqueued, NoHash
  <2>2. Ends(j) = {} /\ Announced(j) = "none"
    BY <2>1, <1>a, AnnouncedNone DEF FinalEventAt, IsTerminal, TerminalStatuses
  <2>3. Ends(j)' = {} /\ Announced(j)' = "none" BY <1>2, <2>2 DEF Submitted, Ends, Announced
  <2>4. PromisedJob(j)'
    BY <1>2, <2>1, <2>3 DEF Submitted, RunRests, PromisedJob, QueuedWhenEnqueued, AttemptsCounted,
       StatusAt, FinalEventAt, Finalizing
  <2> QED BY <2>1, <2>2, <2>3, <2>4 DEF Visible
<1>3. CASE Queued(j) \/ Started(j) \/ Discarded(j)
  <2>1. hash' = hash /\ channel' = channel
    BY <1>3 DEF Queued, Started, Discarded, storeVars
  <2>2. /\ QueuedWhenEnqueued(j)' /\ (pc'[j] # "idle" => j \in queue')
        /\ AttemptsCounted(j)' /\ StatusAt(j)'
    BY <1>3, <2>1, <1>a
       DEF Queued, Started, Discarded, RunRests, QueuedWhenEnqueued, AttemptsCounted, StatusAt,
           Finalizing, IsTerminal
  <2>3. Finalizing(j)' /\ fin'[j].step # "reply" => Ends(j) = {}
    BY <1>3, <1>a DEF Queued, Started, Discarded, RunRests, Finalizing, FinalEventAt
  <2> QED BY <2>1, <2>2, <2>3, <1>a, <1>c, PromisedQuiet
<1>4. CASE Flagged(j) \/ Noticed(j)
  <2>1. hash'[j].status = hash[j].status /\ hash'[j].attempts = hash[j].attempts
    BY <1>4, <1>a DEF Flagged, Noticed, Hashes
  <2>2. Ends(j)' = Ends(j) /\ \A i \in Ends(j) : channel'[j][i] = channel[j][i]
    BY <1>4, <1>c, QuietEvents DEF Flagged
  <2>3. /\ QueuedWhenEnqueued(j)' /\ (pc'[j] # "idle" => j \in queue')
        /\ AttemptsCounted(j)' /\ StatusAt(j)'
        /\ (Finalizing(j)' /\ fin'[j].step # "reply" => Ends(j) = {})
    BY <1>4, <2>1, <1>a
       DEF Flagged, Noticed, RunRests, QueuedWhenEnqueued, AttemptsCounted, StatusAt,
           FinalEventAt, Finalizing, IsTerminal
  <2> QED BY <2>1, <2>2, <2>3, <1>a, PromisedQuiet
<1>5. CASE Interrupted(j)
  <2>1. /\ pc[j] = "call" /\ pc'[j] = "shielded" /\ fin'[j].step = "hset"
        /\ hash' = hash /\ channel' = channel /\ queue' = queue
        /\ tries'[j] = tries[j] /\ phase'[j] = phase[j]
    BY <1>5, InterruptedAtCall DEF OnlyLosesWorkers, LifecycleInv, Interrupted, storeVars
  <2>2. /\ QueuedWhenEnqueued(j)' /\ (pc'[j] # "idle" => j \in queue')
        /\ AttemptsCounted(j)' /\ StatusAt(j)'
    BY <2>1, <1>a DEF QueuedWhenEnqueued, AttemptsCounted, StatusAt, Finalizing
  <2>3. Ends(j) = {}
    BY <2>1, <1>a DEF StatusAt, FinalEventAt, IsTerminal, TerminalStatuses
  <2> QED BY <2>1, <2>2, <2>3, <1>a, <1>c, PromisedQuiet
<1>6. CASE Lost(j)
  <2>1. /\ hash' = hash /\ channel' = channel /\ queue' = queue /\ pc'[j] = "idle"
        /\ tries' = tries /\ phase' = phase
    BY <1>6 DEF Lost, storeVars, arqVars, apiVars
  <2>2. /\ QueuedWhenEnqueued(j)' /\ AttemptsCounted(j)' /\ StatusAt(j)' /\ ~Finalizing(j)'
    BY <2>1, <1>a DEF QueuedWhenEnqueued, AttemptsCounted, StatusAt, Finalizing
  <2> QED BY <2>1, <2>2, <1>a, <1>c, PromisedQuiet
<1> QED
  BY <1>1, <1>2, <1>3, <1>4, <1>5, <1>6, TouchedCases
     DEF SettledLate, Failed, Dropped, OnlyLosesWorkers, LifecycleInv

LEMMA NextPromised ==
  ASSUME OnlyLosesWorkers, TypeOK, TypeOK', LifecycleInv, [Next]_vars
  PROVE  LifecycleInv' /\ \A j \in Jobs : Hidden(j) \/ Visible(j)
<1>1. aborts' = {} /\ orphans' = {} BY NoOrphans DEF LifecycleInv, OnlyLosesWorkers
<1>2. ASSUME NEW j \in Jobs PROVE PromisedJob(j)' /\ (Hidden(j) \/ Visible(j))
  <2>1. CASE SameJob(j)
    <3>1. Announced(j)' = Announced(j) /\ Ends(j)' = Ends(j)
      BY <2>1 DEF SameJob, Announced, Ends
    <3> QED BY <2>1, <3>1 DEF SameJob, LifecycleInv, PromisedJob, QueuedWhenEnqueued,
            AttemptsCounted, StatusAt, FinalEventAt, Finalizing, IsTerminal, Hidden
  <2>2. CASE Touched(j) BY <2>2, TouchedPromised
  <2> QED BY <2>1, <2>2, StepFrame
<1> QED BY <1>1, <1>2 DEF LifecycleInv

LEMMA InitPromised ==
  ASSUME Init
  PROVE  LifecycleInv /\ Lifecycle!LifeInit
<1>1. ASSUME NEW j \in Jobs
      PROVE  PromisedJob(j) /\ Announced(j) = "none" /\ hash[j] = NoHash
  <2>1. /\ hash[j] = NoHash /\ channel[j] = <<>> /\ phase[j] = "new" /\ pc[j] = "idle"
        /\ j \notin queue
    BY DEF Init, StoreInit, ArqInit, RunnerInit, ApiInit
  <2>2. Ends(j) = {} BY <2>1 DEF Ends
  <2>3. Announced(j) = "none" BY <2>2 DEF Announced
  <2> QED BY <2>1, <2>2, <2>3 DEF PromisedJob, QueuedWhenEnqueued, AttemptsCounted, StatusAt,
          FinalEventAt, Finalizing, NoHash, IsTerminal
<1>2. aborts = {} /\ orphans = {} BY DEF Init, ArqInit, RunnerInit
<1>3. Lifecycle!LifeInit BY <1>1 DEF Lifecycle!LifeInit, NoHash
<1> QED BY <1>1, <1>2, <1>3 DEF LifecycleInv

(* A step writes the record and the channel of one job at most.               *)
SameRecord(k) == hash'[k] = hash[k] /\ channel'[k] = channel[k]

LEMMA OneRecord ==
  ASSUME TypeOK, [Next]_vars
  PROVE  \/ \A k \in Jobs : SameRecord(k)
         \/ \E j \in Jobs : \A k \in Jobs \ {j} : SameRecord(k)
<1>1. CASE Api
  <2>1. ASSUME NEW j \in Jobs, CreateJob(j) \/ Enqueue(j)
        PROVE  \A k \in Jobs \ {j} : SameRecord(k)
    BY <2>1, Domains DEF SameRecord, CreateJob, CreateRecord, Enqueue, storeVars
  <2>2. ASSUME NEW c \in Cancellers, \/ CancelGet(c) \/ CancelExists(c) \/ CancelFlag(c)
                                     \/ CancelAnnounce(c) \/ CancelAbort(c)
        PROVE  \A k \in Jobs \ {target[c]} : SameRecord(k)
    BY <2>2, Domains DEF SameRecord, CancelGet, CancelExists, CancelFlag, CancelAnnounce,
       CancelAbort, WriteHash, Publish, storeVars
  <2>3. \A c \in Cancellers : target[c] \in Jobs BY DEF TypeOK, ApiTypeOK
  <2> QED BY <1>1, <2>1, <2>2, <2>3 DEF Api, ApiStep, AbortStep
<1>2. ASSUME NEW j \in Jobs, Run(j) PROVE \A k \in Jobs \ {j} : SameRecord(k)
  BY <1>2, RunFrame DEF SameJob, SameRecord
<1>3. CASE OrphanStep
  <2>1. PICK o \in orphans : OrphanFinal(o) \/ OrphanEnds(o) BY <1>3 DEF OrphanStep
  <2>2. o.job \in Jobs BY DEF TypeOK, RunnerTypeOK
  <2>3. CASE OrphanFinal(o) BY <2>2, <2>3, FinalStepFrame DEF OrphanFinal, SameRecord
  <2>4. CASE OrphanEnds(o) BY <2>4 DEF OrphanEnds, storeVars, SameRecord
  <2> QED BY <2>1, <2>2, <2>3, <2>4
<1>4. ASSUME NEW j \in Jobs, KeyExpires(j) PROVE \A k \in Jobs \ {j} : SameRecord(k)
  BY <1>4, Domains DEF KeyExpires, DropHash, DropTokens, SameRecord
<1>5. CASE \/ \E w \in Workers, j \in Jobs : Start(w, j)
           \/ \E j \in Jobs : DiscardJob(j) \/ Abort(j) \/ Recover(j) \/ JobTimeout(j)
                              \/ RedisFails(j)
           \/ \E w \in Workers : Crash(w) \/ Sigterm(w) \/ Exit(w)
           \/ UNCHANGED vars
  <2>1. UNCHANGED storeVars
    BY <1>5 DEF Start, StartRun, DiscardJob, DiscardRun, Abort, DeliverAbort, Recover,
       InProgressExpires, JobTimeout, Timeout, RedisFails, RedisError, Crash, Sigterm, Exit,
       KillWorker, vars
  <2> QED BY <2>1 DEF storeVars, SameRecord
<1> QED BY <1>1, <1>2, <1>3, <1>4, <1>5 DEF Next

(* What one job shows is a move of the abstract lifecycle, when no other job   *)
(* shows anything.                                                           *)
LEMMA SeenIsLife ==
  ASSUME TypeOK, NEW j \in Jobs, Visible(j), \A k \in Jobs \ {j} : Hidden(k)
  PROVE  Lifecycle!LifeNext
<1> DEFINE S == [k \in Jobs |-> hash[k].status]
           A == [k \in Jobs |-> hash[k].attempts]
           E == [k \in Jobs |-> Announced(k)]
<1>1. /\ S' = [S EXCEPT ![j] = hash'[j].status]
      /\ A' = [A EXCEPT ![j] = hash'[j].attempts]
      /\ E' = [E EXCEPT ![j] = Announced(j)']
  BY DEF Hidden
<1>2. S[j] = hash[j].status /\ A[j] = hash[j].attempts /\ E[j] = Announced(j)
  OBVIOUS
<1>3. /\ hash'[j].status = hash[j].status => S' = S
      /\ hash'[j].attempts = hash[j].attempts => A' = A
      /\ Announced(j)' = Announced(j) => E' = E
  BY <1>1, <1>2
<1>4. Lifecycle!Submit(j) \/ Lifecycle!Begin(j) \/ Lifecycle!Retry(j) \/ Lifecycle!Settle(j)
      \/ Lifecycle!Announce(j)
  <2>1. Lifecycle!MaxAttempts = MaxTries /\ Lifecycle!Ended = TerminalStatuses
    BY DEF Lifecycle!MaxAttempts, MaxTries, Lifecycle!Ended, TerminalStatuses
  <2> QED BY <1>1, <1>2, <1>3, <2>1
          DEF Visible, Lifecycle!Submit, Lifecycle!Begin, Lifecycle!Retry, Lifecycle!Settle,
              Lifecycle!Announce
<1> QED BY <1>4 DEF Lifecycle!LifeNext

LEMMA StepIsLife ==
  ASSUME OnlyLosesWorkers, TypeOK, TypeOK', LifecycleInv, [Next]_vars
  PROVE  [Lifecycle!LifeNext]_(Lifecycle!lifeVars)
<1>1. \A j \in Jobs : Hidden(j) \/ Visible(j) BY NextPromised
<1>2. ASSUME NEW k \in Jobs, SameRecord(k) PROVE Hidden(k)
  BY <1>2 DEF SameRecord, Hidden, Announced, Ends
<1>3. CASE \A k \in Jobs : Hidden(k) BY <1>3 DEF Lifecycle!lifeVars, Hidden
<1>4. ASSUME NEW j \in Jobs, ~Hidden(j) PROVE Lifecycle!LifeNext
  <2>1. \A k \in Jobs \ {j} : SameRecord(k)
    <3>1. ~SameRecord(j) BY <1>2, <1>4
    <3> QED BY <3>1, OneRecord
  <2> QED BY <1>1, <1>2, <1>4, <2>1, SeenIsLife
<1> QED BY <1>3, <1>4

(* The inductive invariant holds in every reachable state.                   *)
THEOREM LifecycleInvariant ==
  ASSUME OnlyLosesWorkers
  PROVE  Spec => [](TypeInv /\ LifecycleInv)
<1>1. Init => TypeInv /\ LifecycleInv BY InitType, InitPromised
<1>2. TypeInv /\ LifecycleInv /\ [Next]_vars => (TypeInv /\ LifecycleInv)'
  <2>1. TypeInv /\ [Next]_vars => TypeInv' BY NextType
  <2>2. TypeInv => TypeOK BY DEF TypeInv
  <2>3. TypeInv' => TypeOK' BY DEF TypeInv
  <2> QED BY <2>1, <2>2, <2>3, NextPromised
<1> QED BY <1>1, <1>2, PTL DEF Spec

(* The pipeline implements the lifecycle that clients are promised, for every *)
(* number of jobs, workers, retries and lost workers: the states and moves of  *)
(* JobStatus, an attempt number that grows up to max_retries + 1, and one      *)
(* final event that agrees with the record.                                  *)
THEOREM LifecycleImplemented ==
  ASSUME OnlyLosesWorkers
  PROVE  Spec => ImplementsLifecycle
<1>1. Init => Lifecycle!LifeInit BY InitPromised
<1>2. TypeInv /\ TypeInv' /\ LifecycleInv /\ [Next]_vars
        => [Lifecycle!LifeNext]_(Lifecycle!lifeVars)
  BY StepIsLife DEF TypeInv
<1> QED BY <1>1, <1>2, LifecycleInvariant, PTL DEF Spec, ImplementsLifecycle, Lifecycle!LifeSpec
=============================================================================
