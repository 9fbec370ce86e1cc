------------------------------ MODULE JobProofs -----------------------------
(***************************************************************************)
(* The types of JobSystem, the finality of its records, and what its token  *)
(* buffers, live events and results have to do with each other, for every   *)
(* set of jobs and workers and every bound. Each theorem names the faults   *)
(* it excludes.                                                             *)
(***************************************************************************)
EXTENDS JobSystem, TLAPS

-----------------------------------------------------------------------------
(* Finalizers and hashes.                                                   *)
LEMMA NoHashType == NoHash \in Hashes
  BY DEF NoHash, Hashes

LEMMA FinalHsetType ==
  ASSUME NEW f \in Finalizers, NEW h \in Hashes
  PROVE  FinalHset(f, h) \in Hashes
<1>1. f.status \in Statuses /\ f.result \in Seq(Delta) \cup {NoResult}
  BY DEF Finalizers, Statuses
<1>2. h.result \in Seq(Delta) \cup {NoResult} /\ h.error \in BOOLEAN
  BY DEF Hashes
<1>3. (IF f.status = "completed" THEN f.result ELSE h.result) \in Seq(Delta) \cup {NoResult}
  BY <1>1, <1>2
<1>4. (IF f.status = "failed" THEN TRUE ELSE h.error) \in BOOLEAN
  BY <1>2
<1> QED BY <1>1, <1>3, <1>4 DEF FinalHset, Hashes

LEMMA FinalHdelType ==
  ASSUME NEW f \in Finalizers, NEW h \in Hashes
  PROVE  FinalHdel(f, h) \in Hashes
<1>1. h.result \in Seq(Delta) \cup {NoResult} /\ h.error \in BOOLEAN
  BY DEF Hashes
<1>2. (IF f.status = "completed" THEN h.result ELSE NoResult) \in Seq(Delta) \cup {NoResult}
  BY <1>1
<1>3. (IF f.status = "failed" THEN h.error ELSE FALSE) \in BOOLEAN
  BY <1>1
<1> QED BY <1>2, <1>3 DEF FinalHdel, Hashes

LEMMA NextFinalType ==
  ASSUME NEW f \in Finalizers
  PROVE  NextFinal(f) \in Finalizers
  BY SMT DEF NextFinal, Finalizers, FinalSteps

LEMMA FinalizeType ==
  ASSUME NEW s \in TerminalStatuses, NEW r \in Seq(Delta) \cup {NoResult}
  PROVE  Finalize(s, r) \in Finalizers
  BY DEF Finalize, Finalizers, FinalSteps

LEMMA NoFinalType == NoFinal \in Finalizers
  BY FinalizeType DEF NoFinal, TerminalStatuses

LEMMA StatusEventType ==
  ASSUME NEW s \in {"running", "cancelled"}
  PROVE  StatusEvent(s) \in Events
  BY DEF StatusEvent, Events

LEMMA TokenEventType ==
  ASSUME NEW i \in Nat, NEW d \in Delta
  PROVE  TokenEvent(i, d) \in Events
  BY DEF TokenEvent, Events

LEMMA TerminalEventType ==
  ASSUME NEW s \in TerminalStatuses
  PROVE  TerminalEvent(s) \in Events
  BY DEF TerminalEvent, Events

-----------------------------------------------------------------------------
(* Redis commands.                                                          *)
LEMMA StoreSame == StoreTypeOK /\ UNCHANGED storeVars => StoreTypeOK'
  BY DEF StoreTypeOK, storeVars

LEMMA WriteHashType ==
  ASSUME StoreTypeOK, NEW j \in Jobs, NEW h \in Hashes, WriteHash(j, h)
  PROVE  StoreTypeOK'
  BY DEF StoreTypeOK, WriteHash

LEMMA PublishType ==
  ASSUME StoreTypeOK, NEW j \in Jobs, NEW e \in Events, Publish(j, e)
  PROVE  StoreTypeOK'
  BY DEF StoreTypeOK, Publish

LEMMA RpushTokenType ==
  ASSUME StoreTypeOK, NEW j \in Jobs, NEW d \in Delta, RpushToken(j, d)
  PROVE  StoreTypeOK'
  BY DEF StoreTypeOK, RpushToken

LEMMA ExpireHashType ==
  ASSUME StoreTypeOK, NEW j \in Jobs, ExpireHash(j)
  PROVE  StoreTypeOK'
  BY DEF StoreTypeOK, ExpireHash

LEMMA ExpireTokensType ==
  ASSUME StoreTypeOK, NEW j \in Jobs, ExpireTokens(j)
  PROVE  StoreTypeOK'
  BY DEF StoreTypeOK, ExpireTokens

LEMMA CreateRecordType ==
  ASSUME StoreTypeOK, NEW j \in Jobs, CreateRecord(j)
  PROVE  StoreTypeOK'
<1>1. [NoHash EXCEPT !.id = TRUE, !.status = "queued"] \in Hashes
  <2>1. [NoHash EXCEPT !.id = TRUE] \in Hashes
    BY NoHashType DEF Hashes
  <2>2. ASSUME NEW h \in Hashes PROVE [h EXCEPT !.status = "queued"] \in Hashes
    BY DEF Hashes, Statuses
  <2> QED BY <2>1, <2>2, NoHashType DEF Hashes, Statuses
<1> QED BY <1>1 DEF StoreTypeOK, CreateRecord

LEMMA DropType ==
  ASSUME StoreTypeOK, NEW j \in Jobs, DropHash(j) \/ DropTokens(j)
  PROVE  StoreTypeOK'
<1>1. CASE DropHash(j) BY <1>1, NoHashType DEF StoreTypeOK, DropHash
<1>2. CASE DropTokens(j) BY <1>2 DEF StoreTypeOK, DropTokens
<1> QED BY <1>1, <1>2

LEMMA FinalStepType ==
  ASSUME StoreTypeOK, NEW j \in Jobs, NEW f \in Finalizers, FinalStep(j, f)
  PROVE  StoreTypeOK'
<1>1. hash[j] \in Hashes
  BY DEF StoreTypeOK
<1>2. CASE WriteHash(j, FinalHset(f, hash[j]))
  BY <1>1, <1>2, FinalHsetType, WriteHashType
<1>3. CASE WriteHash(j, FinalHdel(f, hash[j]))
  BY <1>1, <1>3, FinalHdelType, WriteHashType
<1>4. CASE ExpireHash(j)
  BY <1>4, ExpireHashType
<1>5. CASE ExpireTokens(j)
  BY <1>5, ExpireTokensType
<1>6. CASE Publish(j, TerminalEvent(f.status))
  <2>1. f.status \in TerminalStatuses BY DEF Finalizers
  <2> QED BY <1>6, <2>1, TerminalEventType, PublishType
<1> QED BY <1>2, <1>3, <1>4, <1>5, <1>6 DEF FinalStep

-----------------------------------------------------------------------------
(* The queue.                                                               *)
LEMMA ArqSame == ArqTypeOK /\ UNCHANGED arqVars => ArqTypeOK'
  BY DEF ArqTypeOK, arqVars

LEMMA QueueType ==
  ASSUME ArqTypeOK, NEW j \in Jobs,
         \/ \E stream \in BOOLEAN : EnqueueJob(j, stream)
         \/ RequestAbort(j) \/ ServeAbort(j) \/ Release(j)
  PROVE  ArqTypeOK'
  BY DEF ArqTypeOK, EnqueueJob, RequestAbort, ServeAbort, Release

LEMMA ClaimType ==
  ASSUME ArqTypeOK, NEW j \in Jobs, Claim(j)
  PROVE  ArqTypeOK'
<1>1. MaxTries \in Nat BY SettingsAssumption DEF MaxTries
<1>2. tries[j] + 1 \in 0..MaxTries
  BY <1>1 DEF ArqTypeOK, Claim
<1> QED BY <1>2 DEF ArqTypeOK, Claim

LEMMA DropJobType ==
  ASSUME ArqTypeOK, NEW j \in Jobs, Discard(j) \/ Finish(j)
  PROVE  ArqTypeOK'
<1>1. 0 \in 0..MaxTries BY SettingsAssumption DEF MaxTries
<1> QED BY <1>1 DEF ArqTypeOK, Discard, Finish

-----------------------------------------------------------------------------
(* The runs.                                                                *)
LEMMA RunnerSame == RunnerTypeOK /\ UNCHANGED runVars => RunnerTypeOK'
  BY DEF RunnerTypeOK, runVars

LEMMA GotoType ==
  ASSUME RunnerTypeOK, NEW j \in Jobs, NEW l \in Running, Goto(j, l)
  PROVE  RunnerTypeOK'
  BY DEF RunnerTypeOK, Goto

LEMMA EndWithType ==
  ASSUME RunnerTypeOK, NEW j \in Jobs, NEW o \in Outcomes, EndWith(j, o)
  PROVE  RunnerTypeOK'
  BY DEF RunnerTypeOK, EndWith

LEMMA FinalizeAtType ==
  ASSUME RunnerTypeOK, NEW j \in Jobs, NEW l \in Running, NEW s \in TerminalStatuses,
         NEW r \in Seq(Delta) \cup {NoResult}, NEW o \in Outcomes,
         FinalizeAt(j, l, s, r, o)
  PROVE  RunnerTypeOK'
  BY FinalizeType DEF RunnerTypeOK, FinalizeAt

LEMMA ResetType ==
  ASSUME RunnerTypeOK, NEW S, Reset(S), orphans' \subseteq orphans
  PROVE  RunnerTypeOK'
<1>1. "returned" \in Outcomes BY DEF Outcomes
<1> QED BY <1>1, NoFinalType DEF RunnerTypeOK, Reset

-----------------------------------------------------------------------------
(* TypeOK is not inductive: a delta is published from parts, so parts must   *)
(* not be empty then, a detached finalizer takes its run's worker, and       *)
(* pending counts down.                                                     *)
RunShape(j) ==
    /\ pc[j] # "idle" => owner[j] \in Workers
    /\ pc[j] \in {"arm", "publish"} => parts[j] # <<>>
    /\ pc[j] = "push" => pending[j] > 0

Shape == \A j \in Jobs : RunShape(j)

TypeInv == TypeOK /\ Shape

RestSame == UNCHANGED <<apiVars, sysVars>>

LEMMA RestType ==
  ASSUME TypeOK, RestSame, StoreTypeOK', ArqTypeOK', RunnerTypeOK'
  PROVE  TypeOK'
<1>1. ApiTypeOK' BY DEF TypeOK, ApiTypeOK, RestSame, apiVars
<1>2. (stopping \in SUBSET Workers)' /\ (restarts \in 0..MaxRestarts)'
  BY DEF TypeOK, RestSame, sysVars
<1> QED BY <1>1, <1>2 DEF TypeOK

LEMMA ShapeSame == Shape /\ UNCHANGED runVars => Shape'
  BY DEF Shape, RunShape, runVars

LEMMA GotoShape ==
  ASSUME RunnerTypeOK, Shape, NEW j \in Jobs, NEW l \in Running, Goto(j, l),
         pc[j] # "idle",
         l \in {"arm", "publish"} => parts[j] # <<>>,
         l = "push" => pending[j] > 0
  PROVE  Shape'
<1> SUFFICES ASSUME NEW k \in Jobs PROVE RunShape(k)'
  BY DEF Shape
<1> USE DEF RunnerTypeOK, Shape, RunShape, Goto
<1>1. CASE k = j BY <1>1
<1>2. CASE k # j BY <1>2
<1> QED BY <1>1, <1>2

LEMMA EndWithShape ==
  ASSUME RunnerTypeOK, Shape, NEW j \in Jobs, NEW o, EndWith(j, o), pc[j] # "idle"
  PROVE  Shape'
  BY DEF RunnerTypeOK, Shape, RunShape, EndWith

LEMMA FinalizeAtShape ==
  ASSUME RunnerTypeOK, Shape, NEW j \in Jobs, NEW s, NEW r, NEW o,
         NEW l \in {"cancel_early", "finalize", "shielded"},
         FinalizeAt(j, l, s, r, o), pc[j] # "idle"
  PROVE  Shape'
  BY DEF RunnerTypeOK, Shape, RunShape, FinalizeAt

LEMMA ResetShape ==
  ASSUME RunnerTypeOK, Shape, NEW S, Reset(S)
  PROVE  Shape'
  BY DEF RunnerTypeOK, Shape, RunShape, Reset

-----------------------------------------------------------------------------
(* One lemma per group of actions of a run.                                  *)
LEMMA StartType ==
  ASSUME TypeInv, NEW w \in Workers, NEW j \in Jobs, StartRun(w, j), RestSame
  PROVE  TypeInv'
<1>1. StoreTypeOK' BY StoreSame DEF StartRun, TypeInv, TypeOK
<1>2. ArqTypeOK' BY ClaimType DEF StartRun, TypeInv, TypeOK
<1>3. RunnerTypeOK'
  BY DEF StartRun, TypeInv, TypeOK, RunnerTypeOK, Running, EarlyScope
<1>4. Shape'
  BY DEF StartRun, TypeInv, TypeOK, RunnerTypeOK, Shape, RunShape
<1> QED BY <1>1, <1>2, <1>3, <1>4, RestType DEF TypeInv

LEMMA EndRunType ==
  ASSUME TypeInv, NEW j \in Jobs, EndRun(j), RestSame
  PROVE  TypeInv'
<1>1. StoreTypeOK' BY StoreSame DEF EndRun, TypeInv, TypeOK, storeVars
<1>2. ArqTypeOK' BY QueueType, DropJobType DEF EndRun, TypeInv, TypeOK
<1>3. Reset({j}) /\ orphans' \subseteq orphans BY DEF EndRun
<1>4. RunnerTypeOK' /\ Shape'
  BY <1>3, ResetType, ResetShape DEF TypeInv, TypeOK
<1> QED BY <1>1, <1>2, <1>4, RestType DEF TypeInv

(* Steps that only move a run, and change neither Redis nor the queue.       *)
LEMMA LocalType ==
  ASSUME TypeInv, RestSame, UNCHANGED <<storeVars, arqVars>>, RunnerTypeOK', Shape'
  PROVE  TypeInv'
<1>1. StoreTypeOK' /\ ArqTypeOK' BY StoreSame, ArqSame DEF TypeInv, TypeOK
<1> QED BY <1>1, RestType DEF TypeInv

LEMMA GotoInv ==
  ASSUME TypeInv, RestSame, UNCHANGED <<storeVars, arqVars>>,
         NEW j \in Jobs, pc[j] # "idle",
         NEW l \in Running \ {"push", "arm", "publish"}, Goto(j, l)
  PROVE  TypeInv'
<1>1. RunnerTypeOK' BY GotoType DEF TypeInv, TypeOK
<1>2. Shape' BY GotoShape DEF TypeInv, TypeOK
<1> QED BY <1>1, <1>2, LocalType

LEMMA EndWithInv ==
  ASSUME TypeInv, RestSame, UNCHANGED <<storeVars, arqVars>>,
         NEW j \in Jobs, pc[j] # "idle", NEW o \in Outcomes, EndWith(j, o)
  PROVE  TypeInv'
<1>1. RunnerTypeOK' BY EndWithType DEF TypeInv, TypeOK
<1>2. Shape' BY EndWithShape DEF TypeInv, TypeOK
<1> QED BY <1>1, <1>2, LocalType

LEMMA FinalizeAtInv ==
  ASSUME TypeInv, RestSame, UNCHANGED <<storeVars, arqVars>>,
         NEW j \in Jobs, pc[j] # "idle",
         NEW l \in {"cancel_early", "finalize", "shielded"}, NEW s \in TerminalStatuses,
         NEW r \in Seq(Delta) \cup {NoResult}, FinalizeAt(j, l, s, r, "returned")
  PROVE  TypeInv'
<1>1. "returned" \in Outcomes /\ l \in Running
  BY DEF Outcomes, Running, EarlyScope, TryScope, HandlerScope
<1>2. RunnerTypeOK' BY <1>1, FinalizeAtType DEF TypeInv, TypeOK
<1>3. Shape' BY FinalizeAtShape DEF TypeInv, TypeOK
<1> QED BY <1>2, <1>3, LocalType

(* The domains of the state, one by one.                                     *)
LEMMA Domains ==
  ASSUME TypeOK
  PROVE  /\ hash \in [Jobs -> Hashes] /\ tokens \in [Jobs -> Seq(Delta)]
         /\ channel \in [Jobs -> Seq(Events)] /\ tries \in [Jobs -> 0..MaxTries]
         /\ phase \in [Jobs -> {"new", "created", "enqueued"}]
         /\ pc \in [Jobs -> Running \cup {"idle", "ended"}]
         /\ owner \in [Jobs -> Workers \cup {NoWorker}] /\ parts \in [Jobs -> Seq(Delta)]
         /\ pending \in [Jobs -> Nat] /\ index \in [Jobs -> Nat]
         /\ fin \in [Jobs -> Finalizers] /\ outcome \in [Jobs -> Outcomes]
         /\ intr \in [Jobs -> SUBSET Causes]
  BY DEF TypeOK, StoreTypeOK, ArqTypeOK, RunnerTypeOK, ApiTypeOK

-----------------------------------------------------------------------------
(* Every action of a run.                                                   *)
LEMMA RunType ==
  ASSUME TypeInv, NEW j \in Jobs, Run(j)
  PROVE  TypeInv'
<1>0. RestSame /\ TypeOK /\ StoreTypeOK /\ ArqTypeOK /\ RunnerTypeOK /\ Shape
  BY DEF Run, RestSame, TypeInv, TypeOK
<1>01. /\ hash[j] \in Hashes /\ tries[j] \in Nat /\ parts[j] \in Seq(Delta)
       /\ pending[j] \in Nat /\ index[j] \in Nat /\ fin[j] \in Finalizers
       /\ outcome[j] \in Outcomes
  BY <1>0, Domains
<1>a. /\ RestSame /\ StoreTypeOK /\ ArqTypeOK /\ RunnerTypeOK /\ Shape
      /\ hash[j] \in Hashes /\ tries[j] \in Nat /\ parts[j] \in Seq(Delta)
      /\ pending[j] \in Nat /\ index[j] \in Nat /\ fin[j] \in Finalizers
      /\ outcome[j] \in Outcomes
  BY <1>0, <1>01
<1> USE DEF Run, RestSame
<1> DEFINE Local == UNCHANGED <<storeVars, arqVars>>
<1>b. /\ NoResult \in Seq(Delta) \cup {NoResult}
      /\ parts[j] \in Seq(Delta) \cup {NoResult}
      /\ "returned" \in Outcomes /\ "retry" \in Outcomes
      /\ {"completed", "failed", "cancelled"} = TerminalStatuses
  BY <1>a DEF Outcomes, TerminalStatuses
<1>c. Running = {"get", "check", "cancel_early", "mark", "announce", "announced", "call",
                 "poll", "push", "arm", "publish", "finalize", "requeue", "requeued",
                 "shielded"}
  BY DEF Running, EarlyScope, TryScope, HandlerScope
<1>1. CASE GetRecord(j)
  <2>1. Local /\ pc[j] # "idle" /\ "check" \in Running \ {"push", "arm", "publish"}
    BY <1>1, <1>c DEF GetRecord
  <2>2. CASE Goto(j, "check") BY <2>1, <2>2, <1>a, GotoInv
  <2>3. CASE EndWith(j, "returned") BY <2>1, <2>3, <1>a, <1>b, EndWithInv
  <2> QED BY <1>1, <2>2, <2>3 DEF GetRecord
<1>2. CASE CheckCancel(j)
  <2>1. Local /\ pc[j] # "idle" /\ "mark" \in Running \ {"push", "arm", "publish"}
    BY <1>2, <1>c DEF CheckCancel
  <2>2. CASE FinalizeAt(j, "cancel_early", "cancelled", NoResult, "returned")
    BY <2>1, <2>2, <1>a, <1>b, FinalizeAtInv
  <2>3. CASE Goto(j, "mark") BY <2>1, <2>3, <1>a, GotoInv
  <2> QED BY <1>2, <2>2, <2>3 DEF CheckCancel
<1>3. CASE MarkRunning(j)
  <2>1. [hash[j] EXCEPT !.status = "running", !.attempts = tries[j]] \in Hashes
    BY <1>a DEF Hashes, Statuses
  <2>2. StoreTypeOK' BY <1>3, <1>a, <2>1, WriteHashType DEF MarkRunning
  <2>3. RunnerTypeOK' BY <1>3, <1>a, <1>c, GotoType DEF MarkRunning
  <2>4. Shape' BY <1>3, <1>a, <1>c, GotoShape DEF MarkRunning
  <2>5. ArqTypeOK' BY <1>3, <1>a, ArqSame DEF MarkRunning
  <2> QED BY <1>a, <2>2, <2>3, <2>4, <2>5, RestType DEF TypeInv
<1>4. CASE AnnounceRunning(j)
  <2>2. StoreTypeOK' BY <1>4, <1>a, StatusEventType, PublishType DEF AnnounceRunning
  <2>3. RunnerTypeOK' BY <1>4, <1>a, <1>c, GotoType DEF AnnounceRunning
  <2>4. Shape' BY <1>4, <1>a, <1>c, GotoShape DEF AnnounceRunning
  <2>5. ArqTypeOK' BY <1>4, <1>a, ArqSame DEF AnnounceRunning
  <2> QED BY <1>a, <2>2, <2>3, <2>4, <2>5, RestType DEF TypeInv
<1>5. CASE EnterTry(j)
  BY <1>5, <1>a, <1>c, GotoInv DEF EnterTry
<1>6. CASE CallReturns(j)
  <2>1. Local /\ pc[j] # "idle" BY <1>6 DEF CallReturns
  <2>2. CASE FinalizeAt(j, "finalize", "completed", parts[j], "returned")
    BY <2>1, <2>2, <1>a, <1>b, FinalizeAtInv
  <2>3. CASE FinalizeAt(j, "finalize", "cancelled", NoResult, "returned")
    BY <2>1, <2>3, <1>a, <1>b, FinalizeAtInv
  <2> QED BY <1>6, <2>2, <2>3 DEF CallReturns
<1>7. CASE ReceiveChunk(j)
  <2>1. MaxDeltas \in Nat BY RunnerAssumption
  <2>2. RunnerTypeOK' BY <1>7, <1>a, <1>c, <2>1 DEF ReceiveChunk, RunnerTypeOK
  <2>3. Shape' BY <1>7, <1>a DEF ReceiveChunk, Shape, RunShape, RunnerTypeOK
  <2> QED BY <1>7, <1>a, <2>2, <2>3, LocalType DEF ReceiveChunk
<1>8. CASE StreamEnds(j)
  BY <1>8, <1>a, <1>b, FinalizeAtInv DEF StreamEnds
<1>9. CASE PollCancel(j)
  <2>1. Local /\ pc[j] # "idle" BY <1>9 DEF PollCancel
  <2>2. CASE FinalizeAt(j, "finalize", "cancelled", NoResult, "returned")
    BY <2>1, <2>2, <1>a, <1>b, FinalizeAtInv
  <2>3. CASE Goto(j, NextDelta(j))
    <3>1. NextDelta(j) \in Running /\ NextDelta(j) \in {"push", "call"}
      BY <1>c DEF NextDelta
    <3>2. NextDelta(j) = "push" => pending[j] > 0 BY DEF NextDelta
    <3>3. RunnerTypeOK' BY <2>3, <3>1, <1>a, GotoType
    <3>4. Shape' BY <2>1, <2>3, <3>1, <3>2, <1>a, GotoShape
    <3> QED BY <2>1, <3>3, <3>4, <1>a, LocalType
  <2> QED BY <1>9, <2>2, <2>3 DEF PollCancel
<1>10. CASE PushToken(j)
  <2> DEFINE d == <<tries[j], Len(parts[j]) + 1>>
  <2>1. d \in Delta BY <1>a DEF Delta
  <2>2. StoreTypeOK' BY <1>10, <1>a, <2>1, RpushTokenType DEF PushToken
  <2>3. ArqTypeOK' BY <1>10, <1>a, ArqSame DEF PushToken
  <2>4. Append(parts[j], d) \in Seq(Delta) /\ Append(parts[j], d) # <<>>
    BY <1>a, <2>1
  <2>5. pending[j] - 1 \in Nat
    BY <1>10, <1>a DEF PushToken, Shape, RunShape
  <2>6. Len(tokens[j]) \in Nat BY <1>a DEF StoreTypeOK
  <2>7. RunnerTypeOK'
    BY <1>10, <1>a, <1>c, <2>4, <2>5, <2>6 DEF PushToken, RunnerTypeOK
  <2>8. Shape'
    BY <1>10, <1>a, <2>4 DEF PushToken, Shape, RunShape, RunnerTypeOK
  <2> QED BY <1>a, <2>2, <2>3, <2>7, <2>8, RestType DEF TypeInv
<1>11. CASE ArmTokens(j)
  <2>1. pc[j] = "arm" /\ Goto(j, "publish") /\ parts[j] # <<>>
    BY <1>11, <1>a DEF ArmTokens, Shape, RunShape
  <2>2. StoreTypeOK' BY <1>11, <1>a, ExpireTokensType DEF ArmTokens
  <2>3. RunnerTypeOK' BY <2>1, <1>a, <1>c, GotoType
  <2>4. Shape' BY <2>1, <1>a, <1>c, GotoShape
  <2>5. ArqTypeOK' BY <1>11, <1>a, ArqSame DEF ArmTokens
  <2> QED BY <1>a, <2>2, <2>3, <2>4, <2>5, RestType DEF TypeInv
<1>12. CASE PublishToken(j)
  <2>1. pc[j] = "publish" /\ Goto(j, NextDelta(j)) /\ parts[j] # <<>>
    BY <1>12, <1>a DEF PublishToken, Shape, RunShape
  <2>2. parts[j][Len(parts[j])] \in Delta BY <2>1, <1>a
  <2>3. StoreTypeOK'
    BY <1>12, <1>a, <2>2, TokenEventType, PublishType DEF PublishToken
  <2>4. NextDelta(j) \in Running /\ NextDelta(j) \in {"push", "call"}
    BY <1>c DEF NextDelta
  <2>5. NextDelta(j) = "push" => pending[j] > 0 BY DEF NextDelta
  <2>6. RunnerTypeOK' BY <2>1, <2>4, <1>a, GotoType
  <2>7. Shape' BY <2>1, <2>4, <2>5, <1>a, GotoShape
  <2>8. ArqTypeOK' BY <1>12, <1>a, ArqSame DEF PublishToken
  <2> QED BY <1>a, <2>3, <2>6, <2>7, <2>8, RestType DEF TypeInv
<1>13. CASE CallFailsTransiently(j)
  <2>1. Local /\ pc[j] # "idle" /\ "requeue" \in Running \ {"push", "arm", "publish"}
    BY <1>13, <1>c DEF CallFailsTransiently
  <2>2. CASE Goto(j, "requeue") BY <2>1, <2>2, <1>a, GotoInv
  <2>3. CASE FinalizeAt(j, "shielded", "failed", NoResult, "returned")
    BY <2>1, <2>3, <1>a, <1>b, FinalizeAtInv
  <2> QED BY <1>13, <2>2, <2>3 DEF CallFailsTransiently
<1>14. CASE CallFails(j)
  BY <1>14, <1>a, <1>b, FinalizeAtInv DEF CallFails
<1>15. CASE Requeue(j)
  <2>1. [hash[j] EXCEPT !.status = "queued", !.error = TRUE] \in Hashes
    BY <1>a DEF Hashes, Statuses
  <2>2. StoreTypeOK' BY <1>15, <1>a, <2>1, WriteHashType DEF Requeue
  <2>3. RunnerTypeOK' BY <1>15, <1>a, <1>c, GotoType DEF Requeue
  <2>4. Shape' BY <1>15, <1>a, <1>c, GotoShape DEF Requeue
  <2>5. ArqTypeOK' BY <1>15, <1>a, ArqSame DEF Requeue
  <2> QED BY <1>a, <2>2, <2>3, <2>4, <2>5, RestType DEF TypeInv
<1>16. CASE RaiseRetry(j)
  BY <1>16, <1>a, <1>b, EndWithInv DEF RaiseRetry
<1>17. CASE RunFinal(j)
  <2>1. StoreTypeOK' BY <1>17, <1>a, FinalStepType DEF RunFinal
  <2>2. NextFinal(fin[j]) \in Finalizers BY <1>a, NextFinalType
  <2>3. RunnerTypeOK' BY <1>17, <1>a, <2>2 DEF RunFinal, RunnerTypeOK
  <2>4. Shape' BY <1>17, <1>a DEF RunFinal, Shape, RunShape
  <2>5. ArqTypeOK' BY <1>17, <1>a, ArqSame DEF RunFinal
  <2> QED BY <1>a, <2>1, <2>3, <2>4, <2>5, RestType DEF TypeInv
<1>18. CASE EndFinal(j)
  BY <1>18, <1>a, EndWithInv DEF EndFinal, Finalizing
<1>19. CASE EndRun(j)
  BY <1>19, <1>a, EndRunType
<1> QED
  BY <1>1, <1>2, <1>3, <1>4, <1>5, <1>6, <1>7, <1>8, <1>9, <1>10, <1>11, <1>12, <1>13,
     <1>14, <1>15, <1>16, <1>17, <1>18, <1>19 DEF RunStep

-----------------------------------------------------------------------------
(* Detached finalizers, cancellation and faults.                             *)
LEMMA OrphanType ==
  ASSUME TypeInv, OrphanStep
  PROVE  TypeInv'
<1>1. PICK o \in orphans : OrphanFinal(o) \/ OrphanEnds(o) BY DEF OrphanStep
<1>2. o \in [job : Jobs, worker : Workers, fin : Finalizers]
  BY DEF TypeInv, TypeOK, RunnerTypeOK
<1>3. RestSame /\ StoreTypeOK /\ ArqTypeOK /\ RunnerTypeOK /\ Shape
  BY DEF OrphanStep, RestSame, TypeInv, TypeOK
<1>4. CASE OrphanFinal(o)
  <2>1. o.job \in Jobs /\ o.fin \in Finalizers /\ NextFinal(o.fin) \in Finalizers
    BY <1>2, NextFinalType
  <2>2. StoreTypeOK' BY <1>3, <1>4, <2>1, FinalStepType DEF OrphanFinal
  <2>3. ArqTypeOK' BY <1>3, <1>4, ArqSame DEF OrphanFinal
  <2>4. [o EXCEPT !.fin = NextFinal(o.fin)] \in [job : Jobs, worker : Workers, fin : Finalizers]
    BY <1>2, <2>1
  <2>5. RunnerTypeOK' BY <1>3, <1>4, <2>4 DEF OrphanFinal, RunnerTypeOK
  <2>6. Shape' BY <1>3, <1>4 DEF OrphanFinal, Shape, RunShape
  <2> QED BY <1>3, <2>2, <2>3, <2>5, <2>6, RestType DEF TypeInv
<1>5. CASE OrphanEnds(o)
  <2>1. RunnerTypeOK' BY <1>3, <1>5 DEF OrphanEnds, RunnerTypeOK
  <2>2. Shape' BY <1>3, <1>5 DEF OrphanEnds, Shape, RunShape
  <2> QED BY <1>3, <1>5, <2>1, <2>2, LocalType DEF OrphanEnds
<1> QED BY <1>1, <1>4, <1>5

LEMMA InterruptType ==
  ASSUME RunnerTypeOK, Shape, NEW S \in SUBSET Jobs, NEW cause \in Causes,
         \A j \in S : Cancellable(j), Interrupt(S, cause)
  PROVE  RunnerTypeOK' /\ Shape'
<1>1. Finalize("cancelled", NoResult) \in Finalizers
  BY FinalizeType DEF TerminalStatuses
<1>2. \A j \in S : owner[j] \in Workers
  BY DEF Cancellable, Running, EarlyScope, TryScope, HandlerScope, Shape, RunShape
<1>3. "shielded" \in Running BY DEF Running, HandlerScope
<1>4. (pc \in [Jobs -> Running \cup {"idle", "ended"}])'
  BY <1>3 DEF Interrupt, RunnerTypeOK
<1>5. (fin \in [Jobs -> Finalizers])' BY <1>1 DEF Interrupt, RunnerTypeOK
<1>6. (outcome \in [Jobs -> Outcomes])' BY DEF Interrupt, RunnerTypeOK, Outcomes
<1>7. (intr \in [Jobs -> SUBSET Causes])' BY DEF Interrupt, RunnerTypeOK
<1>8. (orphans \in SUBSET [job : Jobs, worker : Workers, fin : Finalizers])'
  BY <1>2 DEF Interrupt, RunnerTypeOK
<1>9. RunnerTypeOK'
  BY <1>4, <1>5, <1>6, <1>7, <1>8 DEF Interrupt, RunnerTypeOK
<1>10. Shape'
  <2> SUFFICES ASSUME NEW k \in Jobs PROVE RunShape(k)' BY DEF Shape
  <2>1. owner' = owner /\ parts' = parts /\ pending' = pending BY DEF Interrupt
  <2>2. pc'[k] = pc[k] \/ (k \in S /\ pc'[k] \in {"shielded", "ended"})
    BY DEF Interrupt
  <2> QED BY <1>2, <2>1, <2>2 DEF Shape, RunShape
<1> QED BY <1>9, <1>10

LEMMA KillType ==
  ASSUME RunnerTypeOK, Shape, NEW w, KillWorker(w)
  PROVE  RunnerTypeOK' /\ Shape'
<1>1. Reset(RunsOf(w)) /\ orphans' \subseteq orphans BY DEF KillWorker
<1> QED BY <1>1, ResetType, ResetShape

LEMMA FaultType ==
  ASSUME TypeInv, NEW j \in Jobs,
         Abort(j) \/ JobTimeout(j) \/ RedisFails(j) \/ KeyExpires(j) \/ Recover(j)
  PROVE  TypeInv'
<1>a. StoreTypeOK /\ ArqTypeOK /\ RunnerTypeOK /\ Shape BY DEF TypeInv, TypeOK
<1>b. {j} \in SUBSET Jobs /\ "abort" \in Causes /\ "timeout" \in Causes BY DEF Causes
<1>1. CASE Abort(j)
  <2>1. RestSame BY <1>1 DEF Abort, RestSame
  <2>2. RunnerTypeOK' /\ Shape'
    BY <1>1, <1>a, <1>b, InterruptType DEF Abort, DeliverAbort
  <2>3. StoreTypeOK' BY <1>1, <1>a, StoreSame DEF Abort, DeliverAbort
  <2>4. ArqTypeOK' BY <1>1, <1>a, QueueType DEF Abort, DeliverAbort
  <2> QED BY <2>1, <2>2, <2>3, <2>4, RestType DEF TypeInv
<1>2. CASE JobTimeout(j)
  <2>1. RestSame BY <1>2 DEF JobTimeout, RestSame
  <2>2. RunnerTypeOK' /\ Shape'
    BY <1>2, <1>a, <1>b, InterruptType DEF JobTimeout, Timeout
  <2> QED BY <1>2, <2>1, <2>2, LocalType DEF JobTimeout, Timeout
<1>3. CASE RedisFails(j)
  <2>1. RestSame /\ UNCHANGED <<storeVars, arqVars>> /\ pc[j] # "idle"
    BY <1>3 DEF RedisFails, RedisError, RestSame, Cancellable, Running, EarlyScope,
                TryScope, HandlerScope
  <2>2. CASE FinalizeAt(j, "shielded", "failed", NoResult, "returned")
    BY <2>1, <2>2, FinalizeAtInv DEF TerminalStatuses
  <2>3. CASE EndWith(j, "returned")
    BY <2>1, <2>3, EndWithInv DEF Outcomes
  <2> QED BY <1>3, <2>2, <2>3 DEF RedisFails, RedisError
<1>4. CASE KeyExpires(j)
  <2>1. StoreTypeOK' BY <1>4, <1>a, DropType DEF KeyExpires
  <2>2. ArqTypeOK' BY <1>4, <1>a, ArqSame DEF KeyExpires
  <2>3. RunnerTypeOK' /\ Shape' BY <1>4, <1>a, RunnerSame, ShapeSame DEF KeyExpires
  <2> QED BY <1>4, <2>1, <2>2, <2>3, RestType DEF KeyExpires, RestSame, TypeInv
<1>5. CASE Recover(j)
  <2>1. StoreTypeOK' BY <1>5, <1>a, StoreSame DEF Recover, InProgressExpires
  <2>2. ArqTypeOK' BY <1>5, <1>a, QueueType DEF Recover, InProgressExpires
  <2>3. RunnerTypeOK' /\ Shape'
    BY <1>5, <1>a, RunnerSame, ShapeSame DEF Recover, InProgressExpires
  <2> QED BY <1>5, <2>1, <2>2, <2>3, RestType DEF Recover, RestSame, TypeInv
<1> QED BY <1>1, <1>2, <1>3, <1>4, <1>5

LEMMA WorkerType ==
  ASSUME TypeInv, NEW w \in Workers, Crash(w) \/ Sigterm(w) \/ Exit(w)
  PROVE  TypeInv'
<1>a. StoreTypeOK /\ ArqTypeOK /\ RunnerTypeOK /\ Shape /\ ApiTypeOK
      /\ stopping \in SUBSET Workers /\ restarts \in 0..MaxRestarts /\ MaxRestarts \in Nat
  BY FaultAssumption DEF TypeInv, TypeOK
<1>1. StoreTypeOK' /\ ArqTypeOK'
  BY <1>a, StoreSame, ArqSame DEF Crash, Sigterm, Exit, KillWorker
<1>2. ApiTypeOK' BY <1>a DEF Crash, Sigterm, Exit, ApiTypeOK, apiVars
<1>3. (stopping \in SUBSET Workers)' /\ (restarts \in 0..MaxRestarts)'
  BY <1>a DEF Crash, Sigterm, Exit
<1>4. RunnerTypeOK' /\ Shape'
  <2>1. CASE Crash(w) \/ Exit(w) BY <2>1, <1>a, KillType DEF Crash, Exit
  <2>2. CASE Sigterm(w)
    <3>1. "sigterm" \in Causes /\ {j \in RunsOf(w) : Cancellable(j)} \in SUBSET Jobs
      BY DEF Causes, RunsOf
    <3> QED BY <2>2, <3>1, <1>a, InterruptType DEF Sigterm
  <2> QED BY <2>1, <2>2
<1> QED BY <1>1, <1>2, <1>3, <1>4 DEF TypeInv, TypeOK

-----------------------------------------------------------------------------
(* The API.                                                                 *)
LEMMA ApiType ==
  ASSUME TypeInv, Api
  PROVE  TypeInv'
<1>a. StoreTypeOK /\ ArqTypeOK /\ RunnerTypeOK /\ Shape /\ ApiTypeOK
  BY DEF TypeInv, TypeOK
<1>b. RunnerTypeOK' /\ Shape' BY <1>a, RunnerSame, ShapeSame DEF Api
<1>c. (stopping \in SUBSET Workers)' /\ (restarts \in 0..MaxRestarts)'
  BY DEF TypeInv, TypeOK, Api, sysVars
<1> SUFFICES StoreTypeOK' /\ ArqTypeOK' /\ ApiTypeOK'
  BY <1>b, <1>c DEF TypeInv, TypeOK
<1>1. ASSUME NEW j \in Jobs, CreateJob(j) PROVE StoreTypeOK' /\ ArqTypeOK' /\ ApiTypeOK'
  <2>1. StoreTypeOK' BY <1>1, <1>a, CreateRecordType DEF CreateJob
  <2>2. ArqTypeOK' BY <1>1, <1>a, ArqSame DEF CreateJob
  <2>3. ApiTypeOK' BY <1>1, <1>a DEF CreateJob, ApiTypeOK
  <2> QED BY <2>1, <2>2, <2>3
<1>2. ASSUME NEW j \in Jobs, Enqueue(j) PROVE StoreTypeOK' /\ ArqTypeOK' /\ ApiTypeOK'
  <2>1. StoreTypeOK' BY <1>2, <1>a, StoreSame DEF Enqueue
  <2>2. ArqTypeOK' BY <1>2, <1>a, QueueType DEF Enqueue
  <2>3. ApiTypeOK' BY <1>2, <1>a DEF Enqueue, ApiTypeOK
  <2> QED BY <2>1, <2>2, <2>3
<1>3. ASSUME NEW c \in Cancellers,
             \/ CancelGet(c) \/ CancelExists(c) \/ CancelFlag(c)
             \/ CancelAnnounce(c) \/ CancelAbort(c)
      PROVE StoreTypeOK' /\ ArqTypeOK' /\ ApiTypeOK'
  <2>1. target[c] \in Jobs /\ hash[target[c]] \in Hashes
    BY <1>a DEF ApiTypeOK, StoreTypeOK
  <2>2. [hash[target[c]] EXCEPT !.cancel = TRUE] \in Hashes BY <2>1 DEF Hashes
  <2>3. StoreTypeOK'
    <3>1. CASE CancelFlag(c) BY <3>1, <1>a, <2>1, <2>2, WriteHashType DEF CancelFlag
    <3>2. CASE CancelAnnounce(c)
      BY <3>2, <1>a, <2>1, StatusEventType, PublishType DEF CancelAnnounce
    <3>3. CASE CancelGet(c) \/ CancelExists(c) \/ CancelAbort(c)
      BY <3>3, <1>a, StoreSame DEF CancelGet, CancelExists, CancelAbort
    <3> QED BY <1>3, <3>1, <3>2, <3>3
  <2>4. ArqTypeOK'
    <3>1. CASE CancelAbort(c) BY <3>1, <1>a, <2>1, QueueType DEF CancelAbort
    <3>2. CASE ~CancelAbort(c)
      BY <1>3, <3>2, <1>a, ArqSame DEF CancelGet, CancelExists, CancelFlag, CancelAnnounce
    <3> QED BY <3>1, <3>2
  <2>5. \E l \in CancelSteps : CancelGoto(c, l)
    BY <1>3 DEF CancelGet, CancelExists, CancelFlag, CancelAnnounce, CancelAbort, CancelSteps
  <2>6. ApiTypeOK' BY <1>a, <2>5 DEF ApiTypeOK, CancelGoto
  <2> QED BY <2>3, <2>4, <2>6
<1> QED BY <1>1, <1>2, <1>3 DEF Api, ApiStep, AbortStep

-----------------------------------------------------------------------------
LEMMA InitType == Init => TypeInv
<1> SUFFICES ASSUME Init PROVE TypeInv OBVIOUS
<1>1. StoreTypeOK BY NoHashType DEF Init, StoreInit, StoreTypeOK
<1>2. ArqTypeOK BY SettingsAssumption DEF Init, ArqInit, ArqTypeOK, MaxTries
<1>3. RunnerTypeOK BY NoFinalType DEF Init, RunnerInit, RunnerTypeOK, Outcomes
<1>4. ApiTypeOK BY DEF Init, ApiInit, ApiTypeOK, CancelSteps
<1>5. Shape BY DEF Init, RunnerInit, Shape, RunShape
<1> QED BY <1>1, <1>2, <1>3, <1>4, <1>5, FaultAssumption DEF Init, TypeInv, TypeOK

LEMMA NextType == TypeInv /\ [Next]_vars => TypeInv'
<1> SUFFICES ASSUME TypeInv, [Next]_vars PROVE TypeInv' OBVIOUS
<1>1. CASE Api BY <1>1, ApiType
<1>2. ASSUME NEW w \in Workers, NEW j \in Jobs, Start(w, j) PROVE TypeInv'
  BY <1>2, StartType DEF Start, RestSame
<1>3. ASSUME NEW j \in Jobs, DiscardJob(j) PROVE TypeInv'
  <2>1. StoreTypeOK' BY <1>3, StoreSame DEF DiscardJob, DiscardRun, TypeInv, TypeOK
  <2>2. ArqTypeOK' BY <1>3, DropJobType DEF DiscardJob, DiscardRun, TypeInv, TypeOK
  <2>3. RunnerTypeOK' /\ Shape'
    BY <1>3, RunnerSame, ShapeSame DEF DiscardJob, DiscardRun, TypeInv, TypeOK
  <2> QED BY <1>3, <2>1, <2>2, <2>3, RestType DEF DiscardJob, RestSame, TypeInv
<1>4. ASSUME NEW j \in Jobs, Run(j) PROVE TypeInv' BY <1>4, RunType
<1>5. CASE OrphanStep BY <1>5, OrphanType
<1>6. ASSUME NEW j \in Jobs,
             Abort(j) \/ JobTimeout(j) \/ RedisFails(j) \/ KeyExpires(j) \/ Recover(j)
      PROVE  TypeInv'
  BY <1>6, FaultType
<1>7. ASSUME NEW w \in Workers, Crash(w) \/ Sigterm(w) \/ Exit(w) PROVE TypeInv'
  BY <1>7, WorkerType
<1>8. CASE UNCHANGED vars
  BY <1>8, StoreSame, ArqSame, RunnerSame, ShapeSame
     DEF vars, TypeInv, TypeOK, ApiTypeOK, apiVars, sysVars
<1> QED BY <1>1, <1>2, <1>3, <1>4, <1>5, <1>6, <1>7, <1>8 DEF Next

(* Redis, the queue, the runs and the API's handlers only ever hold values   *)
(* of their types, whatever fails: in particular a job is never tried more   *)
(* than max_retries + 1 times, and a delta is published only when the        *)
(* attempt has one.                                                         *)
THEOREM TypeCorrect == Spec => []TypeOK
<1>1. Init => TypeInv BY InitType
<1>2. TypeInv /\ [Next]_vars => TypeInv' BY NextType
<1>3. TypeInv => TypeOK BY DEF TypeInv
<1> QED BY <1>1, <1>2, <1>3, PTL DEF Spec

-----------------------------------------------------------------------------
(* What a step leaves alone.  SameJob(k) holds of a step that changes         *)
(* nothing of job k but, at most, its in-progress key and its abort request.  *)
SameJob(k) ==
    /\ hash'[k] = hash[k] /\ tokens'[k] = tokens[k] /\ channel'[k] = channel[k]
    /\ (k \in hashTtl' <=> k \in hashTtl) /\ (k \in tokenTtl' <=> k \in tokenTtl)
    /\ (k \in queue' <=> k \in queue) /\ (k \in streams' <=> k \in streams)
    /\ tries'[k] = tries[k] /\ phase'[k] = phase[k]
    /\ pc'[k] = pc[k] /\ owner'[k] = owner[k] /\ parts'[k] = parts[k]
    /\ pending'[k] = pending[k] /\ index'[k] = index[k] /\ fin'[k] = fin[k]
    /\ outcome'[k] = outcome[k] /\ intr'[k] = intr[k]

(* task.cancel() on the run of k, by a cause the instance's faults allow.     *)
Permitted(k, cause) ==
    \/ cause = "abort" /\ k \in aborts
    \/ cause = "timeout" /\ IF pc[k] = "call" THEN "slow_model" \in Faults
                                               ELSE "slow_redis" \in Faults
    \/ cause = "sigterm" /\ "sigterm" \in Faults /\ restarts' > 0

Interrupted(k) ==
    /\ Cancellable(k)
    /\ pc'[k] = IF pc[k] \in TryScope THEN "shielded" ELSE "ended"
    /\ fin'[k] = IF pc[k] \in TryScope THEN Finalize("cancelled", NoResult) ELSE fin[k]
    /\ outcome'[k] = "cancelled"
    /\ \E cause \in Causes : Permitted(k, cause) /\ intr'[k] = intr[k] \cup {cause}
    /\ owner'[k] = owner[k] /\ parts'[k] = parts[k] /\ pending'[k] = pending[k]
    /\ index'[k] = index[k] /\ phase'[k] = phase[k] /\ tries'[k] = tries[k]
    /\ UNCHANGED <<storeVars, queue, streams>>

(* The worker of k's run is gone.                                            *)
Lost(k) ==
    /\ "crash" \in Faults /\ restarts' > 0
    /\ pc'[k] = "idle" /\ owner'[k] = NoWorker /\ parts'[k] = <<>> /\ pending'[k] = 0
    /\ index'[k] = 0 /\ fin'[k] = NoFinal /\ outcome'[k] = "returned" /\ intr'[k] = {}
    /\ UNCHANGED <<storeVars, arqVars, apiVars>>

Cancelled(k) ==
    \E c \in Cancellers : target[c] = k /\ (CancelFlag(c) \/ CancelAnnounce(c))

Touched(k) ==
    \/ (CreateJob(k) \/ Enqueue(k) \/ Cancelled(k)) /\ UNCHANGED runVars
    \/ \E w \in Workers : Start(w, k)
    \/ DiscardJob(k)
    \/ Run(k)
    \/ \E o \in orphans : o.job = k /\ OrphanFinal(o) /\ UNCHANGED apiVars
    \/ RedisFails(k)
    \/ KeyExpires(k)
    \/ Interrupted(k)
    \/ Lost(k)

(* The domains that make an EXCEPT at one job leave the others alone.         *)
LEMMA FinalStepFrame ==
  ASSUME TypeOK, NEW j \in Jobs, NEW f, FinalStep(j, f), NEW k \in Jobs \ {j}
  PROVE  /\ hash'[k] = hash[k] /\ tokens'[k] = tokens[k] /\ channel'[k] = channel[k]
         /\ (k \in hashTtl' <=> k \in hashTtl) /\ (k \in tokenTtl' <=> k \in tokenTtl)
  BY Domains DEF FinalStep, WriteHash, ExpireHash, ExpireTokens, Publish

(* A step of one run is local to its job.                                     *)
LEMMA RunFrame ==
  ASSUME TypeOK, NEW j \in Jobs, Run(j)
  PROVE  /\ \A k \in Jobs \ {j} : SameJob(k)
         /\ UNCHANGED <<phase, orphans, streams, stopping, restarts>>
         /\ aborts' \subseteq aborts
<1> USE DEF SameJob
<1>a. UNCHANGED <<phase, stopping, restarts>> BY DEF Run, apiVars, sysVars
<1>1. CASE GetRecord(j) \/ CheckCancel(j) \/ EnterTry(j) \/ CallReturns(j) \/ StreamEnds(j)
           \/ PollCancel(j) \/ CallFailsTransiently(j) \/ CallFails(j) \/ RaiseRetry(j)
           \/ EndFinal(j)
  <2>1. UNCHANGED <<storeVars, arqVars>>
        /\ \/ \E l : Goto(j, l)
           \/ \E o : EndWith(j, o)
           \/ \E l, s, r, o : FinalizeAt(j, l, s, r, o)
    BY <1>1 DEF GetRecord, CheckCancel, EnterTry, CallReturns, StreamEnds, PollCancel,
       CallFailsTransiently, CallFails, RaiseRetry, EndFinal
  <2> QED BY <2>1, <1>a, Domains DEF Goto, EndWith, FinalizeAt, storeVars, arqVars
<1>2. CASE MarkRunning(j) \/ Requeue(j)
  BY <1>2, <1>a, Domains DEF MarkRunning, Requeue, WriteHash, Goto, arqVars
<1>3. CASE AnnounceRunning(j) \/ PublishToken(j)
  BY <1>3, <1>a, Domains DEF AnnounceRunning, PublishToken, Publish, Goto, arqVars
<1>4. CASE ReceiveChunk(j)
  BY <1>4, <1>a, Domains DEF ReceiveChunk, storeVars, arqVars
<1>5. CASE PushToken(j)
  BY <1>5, <1>a, Domains DEF PushToken, RpushToken, arqVars
<1>6. CASE ArmTokens(j)
  BY <1>6, <1>a, Domains DEF ArmTokens, ExpireTokens, Goto, arqVars
<1>7. CASE RunFinal(j)
  <2>1. FinalStep(j, fin[j]) /\ UNCHANGED arqVars BY <1>7 DEF RunFinal
  <2> QED BY <2>1, <1>7, <1>a, Domains, FinalStepFrame DEF RunFinal, arqVars
<1>8. CASE EndRun(j)
  <2>1. Reset({j}) /\ UNCHANGED <<storeVars, orphans>> BY <1>8 DEF EndRun
  <2>2. /\ \A k \in Jobs \ {j} : (k \in queue' <=> k \in queue) /\ tries'[k] = tries[k]
        /\ streams' = streams /\ aborts' \subseteq aborts
    BY <1>8, Domains DEF EndRun, Release, Finish
  <2> QED BY <2>1, <2>2, <1>a DEF Reset, storeVars
<1> QED
  BY <1>1, <1>2, <1>3, <1>4, <1>5, <1>6, <1>7, <1>8 DEF Run, RunStep

LEMMA InterruptFrame ==
  ASSUME TypeOK, NEW S \in SUBSET Jobs, NEW cause \in Causes, Interrupt(S, cause),
         UNCHANGED <<storeVars, queue, streams, tries, phase>>, NEW k \in Jobs,
         k \in S => Cancellable(k) /\ Permitted(k, cause)
  PROVE  IF k \in S THEN Interrupted(k) ELSE SameJob(k)
<1>1. CASE k \in S
  BY <1>1 DEF Interrupt, Interrupted
<1>2. CASE k \notin S
  BY <1>2 DEF Interrupt, SameJob, storeVars
<1> QED BY <1>1, <1>2

LEMMA ApiFrame ==
  ASSUME TypeOK, Api, NEW k \in Jobs
  PROVE  SameJob(k) \/ Touched(k)
<1>a. UNCHANGED runVars BY DEF Api
<1>1. ASSUME NEW j \in Jobs, CreateJob(j) PROVE SameJob(k) \/ Touched(k)
  <2>1. CASE k = j BY <1>1, <1>a, <2>1 DEF Touched
  <2>2. CASE k # j
    BY <1>1, <1>a, <2>2, Domains DEF SameJob, CreateJob, CreateRecord, arqVars, runVars
  <2> QED BY <2>1, <2>2
<1>2. ASSUME NEW j \in Jobs, Enqueue(j) PROVE SameJob(k) \/ Touched(k)
  <2>1. CASE k = j BY <1>2, <1>a, <2>1 DEF Touched
  <2>2. CASE k # j
    BY <1>2, <1>a, <2>2, Domains DEF SameJob, Enqueue, EnqueueJob, storeVars, runVars
  <2> QED BY <2>1, <2>2
<1>3. ASSUME NEW c \in Cancellers, CancelFlag(c) \/ CancelAnnounce(c)
      PROVE  SameJob(k) \/ Touched(k)
  <2>1. CASE k = target[c] BY <1>3, <1>a, <2>1 DEF Touched, Cancelled
  <2>2. CASE k # target[c]
    BY <1>3, <1>a, <2>2, Domains DEF SameJob, CancelFlag, CancelAnnounce, WriteHash, Publish,
       CancelGoto, arqVars, runVars
  <2> QED BY <2>1, <2>2
<1>4. ASSUME NEW c \in Cancellers, CancelGet(c) \/ CancelExists(c) \/ CancelAbort(c)
      PROVE  SameJob(k)
  BY <1>4, <1>a DEF SameJob, CancelGet, CancelExists, CancelAbort, RequestAbort, CancelGoto,
     storeVars, arqVars, runVars
<1> QED BY <1>1, <1>2, <1>3, <1>4 DEF Api, ApiStep, AbortStep

(* Every step leaves a job alone or is one of the steps that touch it.        *)
LEMMA StepFrame ==
  ASSUME TypeOK, [Next]_vars, NEW k \in Jobs
  PROVE  SameJob(k) \/ Touched(k)
<1>1. CASE Api BY <1>1, ApiFrame
<1>2. ASSUME NEW w \in Workers, NEW j \in Jobs, Start(w, j) PROVE SameJob(k) \/ Touched(k)
  <2>1. CASE k = j BY <1>2, <2>1 DEF Touched
  <2>2. CASE k # j
    BY <1>2, <2>2, Domains DEF SameJob, Start, StartRun, Claim, storeVars, apiVars
  <2> QED BY <2>1, <2>2
<1>3. ASSUME NEW j \in Jobs, DiscardJob(j) PROVE SameJob(k) \/ Touched(k)
  <2>1. CASE k = j BY <1>3, <2>1 DEF Touched
  <2>2. CASE k # j
    BY <1>3, <2>2, Domains DEF SameJob, DiscardJob, DiscardRun, Discard, storeVars, runVars,
       apiVars
  <2> QED BY <2>1, <2>2
<1>4. ASSUME NEW j \in Jobs, Run(j) PROVE SameJob(k) \/ Touched(k)
  BY <1>4, RunFrame DEF Touched
<1>5. CASE OrphanStep
  <2>1. PICK o \in orphans : OrphanFinal(o) \/ OrphanEnds(o) BY <1>5 DEF OrphanStep
  <2>2. o.job \in Jobs BY DEF TypeOK, RunnerTypeOK
  <2>3. CASE OrphanEnds(o)
    BY <1>5, <2>3 DEF OrphanStep, OrphanEnds, SameJob, storeVars, arqVars, apiVars
  <2>4. CASE OrphanFinal(o) /\ k = o.job BY <1>5, <2>4 DEF OrphanStep, Touched
  <2>5. CASE OrphanFinal(o) /\ k # o.job
    <3>1. FinalStep(o.job, o.fin) BY <2>5 DEF OrphanFinal
    <3> QED BY <1>5, <2>2, <2>5, <3>1, FinalStepFrame
            DEF OrphanStep, OrphanFinal, SameJob, arqVars, apiVars
  <2> QED BY <2>1, <2>3, <2>4, <2>5
<1>6. ASSUME NEW j \in Jobs, Abort(j) PROVE SameJob(k) \/ Touched(k)
  <2>1. /\ Interrupt({j}, "abort") /\ Cancellable(j) /\ j \in aborts
        /\ UNCHANGED <<storeVars, queue, streams, tries, phase>>
    BY <1>6 DEF Abort, DeliverAbort, ServeAbort, apiVars
  <2>2. IF k \in {j} THEN Interrupted(k) ELSE SameJob(k)
    BY <2>1, InterruptFrame DEF Permitted, Causes
  <2> QED BY <2>2 DEF Touched
<1>7. ASSUME NEW j \in Jobs, JobTimeout(j) PROVE SameJob(k) \/ Touched(k)
  <2>1. /\ Interrupt({j}, "timeout") /\ Cancellable(j) /\ Permitted(j, "timeout")
        /\ UNCHANGED <<storeVars, queue, streams, tries, phase>>
    BY <1>7 DEF JobTimeout, Timeout, Permitted, arqVars, apiVars
  <2>2. IF k \in {j} THEN Interrupted(k) ELSE SameJob(k)
    BY <2>1, InterruptFrame DEF Causes
  <2> QED BY <2>2 DEF Touched
<1>8. ASSUME NEW j \in Jobs, RedisFails(j) PROVE SameJob(k) \/ Touched(k)
  <2>1. CASE k = j BY <1>8, <2>1 DEF Touched
  <2>2. CASE k # j
    BY <1>8, <2>2, Domains DEF SameJob, RedisFails, RedisError, FinalizeAt, EndWith,
       storeVars, arqVars, apiVars
  <2> QED BY <2>1, <2>2
<1>9. ASSUME NEW j \in Jobs, KeyExpires(j) PROVE SameJob(k) \/ Touched(k)
  <2>1. CASE k = j BY <1>9, <2>1 DEF Touched
  <2>2. CASE k # j
    BY <1>9, <2>2, Domains DEF SameJob, KeyExpires, DropHash, DropTokens, arqVars, runVars,
       apiVars
  <2> QED BY <2>1, <2>2
<1>10. ASSUME NEW j \in Jobs, Recover(j) PROVE SameJob(k)
  BY <1>10 DEF SameJob, Recover, InProgressExpires, Release, storeVars, runVars, apiVars
<1>11. ASSUME NEW w \in Workers, Crash(w) \/ Exit(w) PROVE SameJob(k) \/ Touched(k)
  <2>1. /\ Reset(RunsOf(w)) /\ UNCHANGED <<storeVars, arqVars, apiVars>>
        /\ k \in RunsOf(w) => Crash(w)
    BY <1>11 DEF Crash, Exit, KillWorker
  <2>2. CASE k \in RunsOf(w)
    <3>1. "crash" \in Faults /\ restarts' > 0
      BY <2>1, <2>2, FaultAssumption DEF Crash, TypeOK
    <3> QED BY <2>1, <2>2, <3>1 DEF Reset, Touched, Lost
  <2>3. CASE k \notin RunsOf(w)
    BY <2>1, <2>3 DEF Reset, SameJob, storeVars, arqVars, apiVars
  <2> QED BY <2>2, <2>3
<1>12. ASSUME NEW w \in Workers, Sigterm(w) PROVE SameJob(k) \/ Touched(k)
  <2> DEFINE S == {j \in RunsOf(w) : Cancellable(j)}
  <2>1. /\ Interrupt(S, "sigterm") /\ "sigterm" \in Faults /\ restarts' > 0
        /\ UNCHANGED <<storeVars, queue, streams, tries, phase>>
    BY <1>12, FaultAssumption DEF Sigterm, TypeOK, arqVars, apiVars
  <2>2. S \in SUBSET Jobs /\ (k \in S => Cancellable(k) /\ Permitted(k, "sigterm"))
    BY <2>1 DEF RunsOf, Permitted
  <2> HIDE DEF S
  <2>3. IF k \in S THEN Interrupted(k) ELSE SameJob(k)
    BY <2>1, <2>2, InterruptFrame DEF Causes
  <2> QED BY <2>3 DEF Touched
<1>13. CASE UNCHANGED vars
  BY <1>13 DEF SameJob, vars, storeVars, arqVars, runVars, apiVars
<1> QED
  BY <1>1, <1>2, <1>3, <1>4, <1>5, <1>6, <1>7, <1>8, <1>9, <1>10, <1>11, <1>12, <1>13
     DEF Next

(* Where the detached finalizers of the next state come from: they stay, take *)
(* a step, or are left behind by a run that was interrupted.                 *)
LEMMA OrphanFrame ==
  ASSUME TypeOK, [Next]_vars, NEW o \in orphans', o \notin orphans
  PROVE  \/ \E p \in orphans : /\ OrphanFinal(p) /\ UNCHANGED apiVars
                               /\ o = [p EXCEPT !.fin = NextFinal(@)]
         \/ \E j \in Jobs : /\ pc[j] = "shielded" /\ Interrupted(j)
                            /\ o = [job |-> j, worker |-> owner[j], fin |-> fin[j]]
<1> DEFINE Left(j) == /\ pc[j] = "shielded"
                      /\ o = [job |-> j, worker |-> owner[j], fin |-> fin[j]]
<1>1. CASE OrphanStep BY <1>1 DEF OrphanStep, OrphanFinal, OrphanEnds
<1>2. ASSUME NEW S \in SUBSET Jobs, NEW cause \in Causes, Interrupt(S, cause),
             UNCHANGED <<storeVars, queue, streams, tries, phase>>,
             \A k \in S : Cancellable(k) /\ Permitted(k, cause)
      PROVE  \E j \in Jobs : Left(j) /\ Interrupted(j)
  <2>1. PICK j \in S : Left(j) BY <1>2 DEF Interrupt
  <2>2. Interrupted(j) BY <1>2, <2>1, InterruptFrame
  <2> QED BY <2>1, <2>2
<1>3. ASSUME NEW j \in Jobs, Abort(j) PROVE \E i \in Jobs : Left(i) /\ Interrupted(i)
  <2>1. /\ Interrupt({j}, "abort") /\ Cancellable(j) /\ Permitted(j, "abort")
        /\ UNCHANGED <<storeVars, queue, streams, tries, phase>>
    BY <1>3 DEF Abort, DeliverAbort, ServeAbort, Permitted, apiVars
  <2> QED BY <2>1, <1>2 DEF Causes
<1>4. ASSUME NEW j \in Jobs, JobTimeout(j) PROVE \E i \in Jobs : Left(i) /\ Interrupted(i)
  <2>1. /\ Interrupt({j}, "timeout") /\ Cancellable(j) /\ Permitted(j, "timeout")
        /\ UNCHANGED <<storeVars, queue, streams, tries, phase>>
    BY <1>4 DEF JobTimeout, Timeout, Permitted, arqVars, apiVars
  <2> QED BY <2>1, <1>2 DEF Causes
<1>5. ASSUME NEW w \in Workers, Sigterm(w) PROVE \E i \in Jobs : Left(i) /\ Interrupted(i)
  <2> DEFINE S == {j \in RunsOf(w) : Cancellable(j)}
  <2>1. /\ Interrupt(S, "sigterm") /\ "sigterm" \in Faults /\ restarts' > 0
        /\ UNCHANGED <<storeVars, queue, streams, tries, phase>>
    BY <1>5, FaultAssumption DEF Sigterm, TypeOK, arqVars, apiVars
  <2>2. S \in SUBSET Jobs /\ \A k \in S : Cancellable(k) /\ Permitted(k, "sigterm")
    BY <2>1 DEF RunsOf, Permitted
  <2> HIDE DEF S
  <2> QED BY <2>1, <2>2, <1>2 DEF Causes
<1>6. ASSUME NEW w \in Workers, Crash(w) \/ Exit(w) PROVE FALSE
  BY <1>6 DEF Crash, Exit, KillWorker
<1>7. ASSUME NEW j \in Jobs, Run(j) PROVE FALSE BY <1>7, RunFrame
<1>8. CASE \/ Api \/ UNCHANGED vars
           \/ \E w \in Workers, j \in Jobs : Start(w, j)
           \/ \E j \in Jobs : DiscardJob(j) \/ Recover(j) \/ RedisFails(j) \/ KeyExpires(j)
  BY <1>8 DEF Api, vars, runVars, Start, StartRun, DiscardJob, DiscardRun, Recover,
     InProgressExpires, RedisFails, RedisError, FinalizeAt, EndWith, KeyExpires
<1> QED BY <1>1, <1>3, <1>4, <1>5, <1>6, <1>7, <1>8 DEF Next

-----------------------------------------------------------------------------
(* What a step of the run of j does, seen from job j alone.                   *)
Goes(j, l, m) == pc[j] = l /\ pc'[j] = m /\ fin'[j] = fin[j] /\ outcome'[j] = outcome[j]

Decides(j, l, m, S) ==
    /\ pc[j] = l /\ pc'[j] = m /\ outcome'[j] = "returned"
    /\ fin'[j].step = "hset" /\ fin'[j].status \in S

Leaves(j, o) == pc'[j] = "ended" /\ fin'[j] = fin[j] /\ outcome'[j] = o

(* Steps that leave Redis alone.                                             *)
Thinks(j) ==
    /\ UNCHANGED storeVars /\ pending'[j] = pending[j]
    /\ \/ Goes(j, "get", "check") /\ Readable(j) /\ ~IsTerminal(j)
       \/ Goes(j, "check", "mark") /\ ~IsCancelRequested(j)
       \/ Goes(j, "announced", "call")
       \/ Goes(j, "poll", NextDelta(j)) /\ ~IsCancelRequested(j)
       \/ Goes(j, "call", "requeue") /\ tries[j] <= MaxRetries
       \/ Decides(j, "check", "cancel_early", {"cancelled"}) /\ IsCancelRequested(j)
       \/ Decides(j, "call", "finalize", {"completed", "cancelled"})
       \/ Decides(j, "poll", "finalize", {"cancelled"}) /\ IsCancelRequested(j)
       \/ Decides(j, "call", "shielded", {"failed"})
       \/ pc[j] = "get" /\ (~Readable(j) \/ IsTerminal(j)) /\ Leaves(j, "returned")
       \/ pc[j] = "requeued" /\ Leaves(j, "retry")
       \/ Finalizing(j) /\ fin[j].step = "reply" /\ Leaves(j, outcome[j])

Receives(j) ==
    /\ UNCHANGED storeVars /\ pending'[j] \in 0..MaxDeltas
    /\ Goes(j, "call", "poll")

(* Steps that write to Redis.                                                *)
Records(j) ==
    /\ UNCHANGED <<hashTtl, tokens, tokenTtl, channel>> /\ pending'[j] = pending[j]
    /\ \/ /\ Goes(j, "mark", "announce")
          /\ hash'[j] = [hash[j] EXCEPT !.status = "running", !.attempts = tries[j]]
       \/ /\ Goes(j, "requeue", "requeued")
          /\ hash'[j] = [hash[j] EXCEPT !.status = "queued", !.error = TRUE]

Publishes(j) ==
    /\ UNCHANGED <<hash, hashTtl, tokens, tokenTtl>> /\ pending'[j] = pending[j]
    /\ \/ /\ Goes(j, "announce", "announced")
          /\ channel'[j] = Append(channel[j], StatusEvent("running"))
       \/ /\ Goes(j, "publish", NextDelta(j))
          /\ channel'[j] = Append(channel[j], TokenEvent(index[j], parts[j][Len(parts[j])]))

Pushes(j) ==
    /\ UNCHANGED <<hash, hashTtl, tokenTtl, channel>>
    /\ Goes(j, "push", "arm") /\ pending'[j] = pending[j] - 1

Arms(j) ==
    /\ UNCHANGED <<hash, hashTtl, tokens, channel>> /\ pending'[j] = pending[j]
    /\ Goes(j, "arm", "publish") /\ ExpireTokens(j)

Finalizes(j) ==
    /\ Finalizing(j) /\ FinalStep(j, fin[j]) /\ fin'[j] = NextFinal(fin[j])
    /\ pc'[j] = pc[j] /\ outcome'[j] = outcome[j] /\ pending'[j] = pending[j]

(* The end of the run.                                                       *)
IsOver(j) ==
    /\ UNCHANGED storeVars
    /\ pc[j] = "ended" /\ pc'[j] = "idle" /\ outcome'[j] = "returned" /\ pending'[j] = 0
    /\ intr'[j] = {}
    /\ IF KeepsJob(j) THEN queue' = queue /\ tries' = tries
                      ELSE queue' = queue \ {j} /\ tries'[j] = 0

LEMMA RunCases ==
  ASSUME TypeOK, NEW j \in Jobs, Run(j)
  PROVE  \/ IsOver(j)
         \/ /\ queue' = queue /\ tries' = tries /\ intr'[j] = intr[j]
            /\ \/ Thinks(j) \/ Receives(j) \/ Records(j) \/ Publishes(j) \/ Pushes(j)
               \/ Arms(j) \/ Finalizes(j)
<1>1. CASE GetRecord(j)
  BY <1>1, Domains DEF GetRecord, Goto, EndWith, arqVars, Thinks, Goes, Leaves
<1>2. CASE CheckCancel(j)
  BY <1>2, Domains DEF CheckCancel, Goto, FinalizeAt, Finalize, arqVars, Thinks, Goes, Decides
<1>3. CASE EnterTry(j)
  BY <1>3, Domains DEF EnterTry, Goto, arqVars, Thinks, Goes
<1>4. CASE CallReturns(j) \/ StreamEnds(j)
  BY <1>4, Domains DEF CallReturns, StreamEnds, FinalizeAt, Finalize, arqVars, Thinks, Decides
<1>5. CASE PollCancel(j)
  BY <1>5, Domains DEF PollCancel, Goto, FinalizeAt, Finalize, arqVars, Thinks, Goes, Decides
<1>6. CASE CallFailsTransiently(j) \/ CallFails(j)
  BY <1>6, Domains DEF CallFailsTransiently, CallFails, Goto, FinalizeAt, Finalize, arqVars,
     Thinks, Goes, Decides
<1>7. CASE RaiseRetry(j) \/ EndFinal(j)
  BY <1>7, Domains DEF RaiseRetry, EndFinal, EndWith, arqVars, Thinks, Leaves
<1>8. CASE ReceiveChunk(j)
  BY <1>8, Domains DEF ReceiveChunk, arqVars, Receives, Goes
<1>9. CASE MarkRunning(j) \/ Requeue(j)
  BY <1>9, Domains DEF MarkRunning, Requeue, WriteHash, Goto, arqVars, Records, Goes
<1>10. CASE AnnounceRunning(j) \/ PublishToken(j)
  BY <1>10, Domains DEF AnnounceRunning, PublishToken, Publish, Goto, arqVars, Publishes, Goes
<1>11. CASE PushToken(j)
  BY <1>11, Domains DEF PushToken, RpushToken, arqVars, Pushes, Goes
<1>12. CASE ArmTokens(j)
  <2>1. UNCHANGED <<hash, hashTtl, tokens, channel>> /\ ExpireTokens(j)
    BY <1>12 DEF ArmTokens, ExpireTokens
  <2> QED BY <2>1, <1>12, Domains DEF ArmTokens, Goto, arqVars, Arms, Goes
<1>13. CASE RunFinal(j)
  BY <1>13, Domains DEF RunFinal, arqVars, Finalizes
<1>14. CASE EndRun(j)
  BY <1>14, Domains DEF EndRun, Reset, Release, Finish, IsOver
<1> QED
  BY <1>1, <1>2, <1>3, <1>4, <1>5, <1>6, <1>7, <1>8, <1>9, <1>10, <1>11, <1>12, <1>13, <1>14
     DEF Run, RunStep

-----------------------------------------------------------------------------
(* What the other steps that touch job j do, seen from j alone.               *)
RunRests(j) ==
    /\ pc'[j] = pc[j] /\ fin'[j] = fin[j] /\ outcome'[j] = outcome[j] /\ intr'[j] = intr[j]
    /\ pending'[j] = pending[j] /\ tries'[j] = tries[j]

Submitted(j) ==
    /\ phase[j] = "new" /\ phase'[j] = "created"
    /\ hash'[j] = [NoHash EXCEPT !.id = TRUE, !.status = "queued"] /\ j \in hashTtl'
    /\ RunRests(j) /\ UNCHANGED <<tokens, tokenTtl, channel, queue>>

Queued(j) ==
    /\ phase[j] = "created" /\ phase'[j] = "enqueued" /\ queue' = queue \cup {j}
    /\ RunRests(j) /\ UNCHANGED storeVars

Flagged(j) ==
    /\ \E c \in Cancellers : target[c] = j /\ cpc[c] = "flag"
    /\ hash'[j] = [hash[j] EXCEPT !.cancel = TRUE]
    /\ RunRests(j) /\ UNCHANGED <<hashTtl, tokens, tokenTtl, channel, queue, phase>>

Noticed(j) ==
    /\ \E c \in Cancellers : target[c] = j /\ cpc[c] = "announce"
    /\ channel'[j] = Append(channel[j], StatusEvent("cancelled"))
    /\ RunRests(j) /\ UNCHANGED <<hash, hashTtl, tokens, tokenTtl, queue, phase>>

Started(j) ==
    /\ pc[j] = "idle" /\ pc'[j] = "get" /\ j \in queue
    /\ tries[j] < MaxTries /\ tries'[j] = tries[j] + 1
    /\ fin'[j] = fin[j] /\ outcome'[j] = outcome[j] /\ intr'[j] = intr[j]
    /\ pending'[j] = pending[j] /\ UNCHANGED <<storeVars, queue, phase>>

Discarded(j) ==
    /\ pc[j] = "idle" /\ pc'[j] = "idle"
    /\ j \in queue /\ (j \in aborts \/ tries[j] >= MaxTries)
    /\ queue' = queue \ {j} /\ tries'[j] = 0
    /\ fin'[j] = fin[j] /\ outcome'[j] = outcome[j] /\ intr'[j] = intr[j]
    /\ pending'[j] = pending[j] /\ UNCHANGED <<storeVars, phase>>

SettledLate(j) ==
    /\ \E o \in orphans : o.job = j /\ o.fin.step # "reply" /\ FinalStep(j, o.fin)
    /\ RunRests(j) /\ UNCHANGED <<queue, phase>>

Failed(j) ==
    /\ "redis" \in Faults /\ Cancellable(j) /\ pc[j] # "call"
    /\ pc'[j] = IF pc[j] \in TryScope THEN "shielded" ELSE "ended"
    /\ fin'[j] = IF pc[j] \in TryScope THEN Finalize("failed", NoResult) ELSE fin[j]
    /\ outcome'[j] = "returned" /\ intr'[j] = intr[j] /\ pending'[j] = pending[j]
    /\ tries'[j] = tries[j] /\ UNCHANGED <<storeVars, queue, phase>>

Dropped(j) ==
    /\ "expiry" \in Faults /\ (DropHash(j) \/ DropTokens(j))
    /\ RunRests(j) /\ UNCHANGED <<queue, phase>>

LEMMA TouchedCases ==
  ASSUME TypeOK, NEW j \in Jobs, Touched(j)
  PROVE  \/ Submitted(j) \/ Queued(j) \/ Flagged(j) \/ Noticed(j) \/ Started(j)
         \/ Discarded(j) \/ SettledLate(j) \/ Failed(j) \/ Dropped(j)
         \/ Interrupted(j) \/ Lost(j)
         \/ Run(j)
<1> USE DEF RunRests
<1>1. CASE CreateJob(j) /\ UNCHANGED runVars
  BY <1>1, Domains DEF CreateJob, CreateRecord, arqVars, runVars, Submitted
<1>2. CASE Enqueue(j) /\ UNCHANGED runVars
  BY <1>2, Domains DEF Enqueue, EnqueueJob, runVars, Queued
<1>3. CASE Cancelled(j) /\ UNCHANGED runVars
  <2>1. PICK c \in Cancellers : target[c] = j /\ (CancelFlag(c) \/ CancelAnnounce(c))
    BY <1>3 DEF Cancelled
  <2>2. CASE CancelFlag(c)
    BY <1>3, <2>1, <2>2, Domains DEF CancelFlag, WriteHash, CancelGoto, arqVars, runVars, Flagged
  <2>3. CASE CancelAnnounce(c)
    BY <1>3, <2>1, <2>3, Domains
       DEF CancelAnnounce, Publish, CancelGoto, arqVars, runVars, Noticed
  <2> QED BY <2>1, <2>2, <2>3
<1>4. ASSUME NEW w \in Workers, Start(w, j) PROVE Started(j)
  BY <1>4, Domains, SettingsAssumption
     DEF Start, StartRun, Claim, Claimable, storeVars, apiVars, Started
<1>5. CASE DiscardJob(j)
  BY <1>5, Domains, SettingsAssumption
     DEF DiscardJob, DiscardRun, Discard, Claimable, storeVars, runVars, apiVars, Discarded
<1>6. ASSUME NEW o \in orphans, o.job = j, OrphanFinal(o), UNCHANGED apiVars
      PROVE  SettledLate(j)
  BY <1>6 DEF OrphanFinal, arqVars, apiVars, SettledLate
<1>7. CASE RedisFails(j)
  BY <1>7, Domains DEF RedisFails, RedisError, FinalizeAt, EndWith, arqVars, apiVars, Failed,
     Cancellable
<1>8. CASE KeyExpires(j)
  BY <1>8 DEF KeyExpires, arqVars, runVars, apiVars, Dropped
<1> QED BY <1>1, <1>2, <1>3, <1>4, <1>5, <1>6, <1>7, <1>8 DEF Touched

-----------------------------------------------------------------------------
(* The inductive invariant.  A run works on a job only while its record is    *)
(* not terminal; a detached finalizer belongs to a run that has ended for     *)
(* good, so no later run of the job can meet it.                             *)
Working == {"check", "mark", "announce", "announced", "call", "poll", "push", "arm",
            "publish", "requeue", "requeued"}

WorksOnOpenJob(j) == pc[j] \in Working => ~IsTerminal(j)

QueuedWhenEnqueued(j) == j \in queue \/ pc[j] # "idle" => phase[j] = "enqueued"

OpenUntilEnqueued(j) == phase[j] # "enqueued" => ~IsTerminal(j)

JobInv(j) ==
    /\ WorksOnOpenJob(j)
    /\ QueuedWhenEnqueued(j)
    /\ OpenUntilEnqueued(j)
    /\ "sigterm" \notin intr[j]

OrphanInv(o) ==
    \/ pc[o.job] = "ended" /\ outcome[o.job] = "cancelled" /\ owner[o.job] = o.worker
    \/ pc[o.job] = "idle" /\ o.job \notin queue /\ phase[o.job] = "enqueued"

FinalityInv ==
    /\ \A j \in Jobs : JobInv(j)
    /\ \A o \in orphans : OrphanInv(o)

Reopens(j) == IsTerminal(j) /\ hash'[j].status \in {"queued", "running"}

-----------------------------------------------------------------------------
(* A step of the run of j that changes nothing else's state.                 *)
LEMMA RunMove ==
  ASSUME TypeInv, FinalityInv, NEW j \in Jobs, pc[j] \in Running,
         UNCHANGED <<owner, intr, orphans, queue, phase>>,
         \A k \in Jobs \ {j} : /\ pc'[k] = pc[k] /\ outcome'[k] = outcome[k]
                               /\ hash'[k] = hash[k],
         pc'[j] # "idle",
         pc'[j] \in Working => hash'[j].status \notin TerminalStatuses
  PROVE  FinalityInv'
<1>1. pc[j] \notin {"idle", "ended"}
  BY DEF Running, EarlyScope, TryScope, HandlerScope
<1>2. \A o \in orphans : o.job \in Jobs \ {j}
  BY <1>1 DEF FinalityInv, OrphanInv, TypeInv, TypeOK, RunnerTypeOK
<1>3. \A o \in orphans' : OrphanInv(o)'
  BY <1>2 DEF FinalityInv, OrphanInv
<1>4. \A k \in Jobs : JobInv(k)'
  <2> SUFFICES ASSUME NEW k \in Jobs PROVE JobInv(k)' OBVIOUS
  <2>1. phase[j] = "enqueued"
    BY <1>1 DEF FinalityInv, JobInv, QueuedWhenEnqueued
  <2>2. CASE k = j
    BY <2>1, <2>2 DEF FinalityInv, JobInv, WorksOnOpenJob, QueuedWhenEnqueued,
                      OpenUntilEnqueued, IsTerminal
  <2>3. CASE k # j
    BY <2>3 DEF FinalityInv, JobInv, WorksOnOpenJob, QueuedWhenEnqueued,
                OpenUntilEnqueued, IsTerminal
  <2> QED BY <2>2, <2>3
<1> QED BY <1>3, <1>4 DEF FinalityInv

(* What finalize() writes is terminal, and its other steps keep the status.  *)
LEMMA FinalStepStatus ==
  ASSUME StoreTypeOK, NEW j \in Jobs, NEW f \in Finalizers, FinalStep(j, f)
  PROVE  /\ \A k \in Jobs \ {j} : hash'[k] = hash[k]
         /\ hash'[j].status = hash[j].status \/ hash'[j].status \in TerminalStatuses
<1>1. hash[j] \in Hashes /\ f.status \in TerminalStatuses
  BY DEF StoreTypeOK, Finalizers
<1>2. CASE WriteHash(j, FinalHset(f, hash[j]))
  BY <1>1, <1>2 DEF WriteHash, FinalHset, StoreTypeOK, Hashes
<1>3. CASE WriteHash(j, FinalHdel(f, hash[j]))
  BY <1>1, <1>3 DEF WriteHash, FinalHdel, StoreTypeOK, Hashes
<1>4. CASE UNCHANGED hash BY <1>4
<1> QED BY <1>2, <1>3, <1>4 DEF FinalStep, ExpireHash, ExpireTokens, Publish

-----------------------------------------------------------------------------
LEMMA RunFinality ==
  ASSUME TypeInv, FinalityInv, NEW j \in Jobs, Run(j)
  PROVE  FinalityInv' /\ \A k \in Jobs : ~Reopens(k)
<1>a. /\ StoreTypeOK /\ RunnerTypeOK /\ hash[j] \in Hashes /\ pc \in [Jobs -> Running \cup {"idle", "ended"}]
      /\ fin[j] \in Finalizers /\ outcome \in [Jobs -> Outcomes] /\ hash \in [Jobs -> Hashes]
  BY DEF TypeInv, TypeOK, StoreTypeOK, RunnerTypeOK
<1>b. Running = {"get", "check", "cancel_early", "mark", "announce", "announced", "call",
                 "poll", "push", "arm", "publish", "finalize", "requeue", "requeued",
                 "shielded"}
  BY DEF Running, EarlyScope, TryScope, HandlerScope
<1>c. WorksOnOpenJob(j) BY DEF FinalityInv, JobInv
<1>d. phase' = phase BY DEF Run, apiVars
<1> DEFINE Moves ==
      /\ pc[j] \in Running
      /\ UNCHANGED <<owner, intr, orphans, queue>>
      /\ \A k \in Jobs \ {j} : pc'[k] = pc[k] /\ outcome'[k] = outcome[k] /\ hash'[k] = hash[k]
      /\ pc'[j] # "idle"
      /\ pc'[j] \in Working => hash'[j].status \notin TerminalStatuses
      /\ ~Reopens(j)
<1>e. ASSUME Moves PROVE FinalityInv' /\ \A k \in Jobs : ~Reopens(k)
  <2>1. FinalityInv' BY <1>e, <1>d, RunMove
  <2>2. \A k \in Jobs : ~Reopens(k) BY <1>e DEF Reopens, IsTerminal, TerminalStatuses
  <2> QED BY <2>1, <2>2
(* Steps that leave the hash alone.                                          *)
<1>1. CASE GetRecord(j)
  BY <1>1, <1>a, <1>b, <1>e DEF GetRecord, Goto, EndWith, storeVars, arqVars, Working, Reopens,
     IsTerminal, TerminalStatuses
<1>2. CASE CheckCancel(j)
  BY <1>2, <1>a, <1>b, <1>c, <1>e DEF CheckCancel, Goto, FinalizeAt, storeVars, arqVars,
     Working, WorksOnOpenJob, Reopens, IsTerminal, TerminalStatuses
<1>5. CASE EnterTry(j)
  BY <1>5, <1>a, <1>b, <1>c, <1>e DEF EnterTry, Goto, storeVars, arqVars,
     Working, WorksOnOpenJob, Reopens, IsTerminal, TerminalStatuses
<1>6. CASE CallReturns(j)
  BY <1>6, <1>a, <1>b, <1>e DEF CallReturns, FinalizeAt, storeVars, arqVars,
     Working, Reopens, IsTerminal, TerminalStatuses
<1>7. CASE ReceiveChunk(j)
  BY <1>7, <1>a, <1>b, <1>c, <1>e DEF ReceiveChunk, storeVars, arqVars,
     Working, WorksOnOpenJob, Reopens, IsTerminal, TerminalStatuses
<1>8. CASE StreamEnds(j)
  BY <1>8, <1>a, <1>b, <1>e DEF StreamEnds, FinalizeAt, storeVars, arqVars,
     Working, Reopens, IsTerminal, TerminalStatuses
<1>9. CASE PollCancel(j)
  BY <1>9, <1>a, <1>b, <1>c, <1>e DEF PollCancel, NextDelta, Goto, FinalizeAt, storeVars,
     arqVars, Working, WorksOnOpenJob, Reopens, IsTerminal, TerminalStatuses
<1>10. CASE PushToken(j)
  BY <1>10, <1>a, <1>b, <1>c, <1>e DEF PushToken, RpushToken, arqVars,
     Working, WorksOnOpenJob, Reopens, IsTerminal, TerminalStatuses
<1>11. CASE ArmTokens(j)
  BY <1>11, <1>a, <1>b, <1>c, <1>e DEF ArmTokens, ExpireTokens, Goto, arqVars,
     Working, WorksOnOpenJob, Reopens, IsTerminal, TerminalStatuses
<1>12. CASE PublishToken(j)
  BY <1>12, <1>a, <1>b, <1>c, <1>e DEF PublishToken, Publish, NextDelta, Goto, arqVars,
     Working, WorksOnOpenJob, Reopens, IsTerminal, TerminalStatuses
<1>4. CASE AnnounceRunning(j)
  BY <1>4, <1>a, <1>b, <1>c, <1>e DEF AnnounceRunning, Publish, Goto, arqVars,
     Working, WorksOnOpenJob, Reopens, IsTerminal, TerminalStatuses
<1>13. CASE CallFailsTransiently(j)
  BY <1>13, <1>a, <1>b, <1>c, <1>e DEF CallFailsTransiently, Goto, FinalizeAt, storeVars,
     arqVars, Working, WorksOnOpenJob, Reopens, IsTerminal, TerminalStatuses
<1>14. CASE CallFails(j)
  BY <1>14, <1>a, <1>b, <1>e DEF CallFails, FinalizeAt, storeVars, arqVars,
     Working, Reopens, IsTerminal, TerminalStatuses
<1>16. CASE RaiseRetry(j)
  BY <1>16, <1>a, <1>b, <1>e DEF RaiseRetry, EndWith, storeVars, arqVars,
     Working, Reopens, IsTerminal, TerminalStatuses
<1>18. CASE EndFinal(j)
  BY <1>18, <1>a, <1>b, <1>e DEF EndFinal, Finalizing, EndWith, storeVars, arqVars,
     Working, Reopens, IsTerminal, TerminalStatuses
(* Steps that write it: only an open record is set back to RUNNING or QUEUED. *)
<1>3. CASE MarkRunning(j)
  <2>1. pc[j] = "mark" /\ ~IsTerminal(j) BY <1>3, <1>c DEF MarkRunning, WorksOnOpenJob, Working
  <2>2. hash'[j].status = "running" /\ \A k \in Jobs \ {j} : hash'[k] = hash[k]
    BY <1>3, <1>a DEF MarkRunning, WriteHash, Hashes
  <2> QED BY <1>3, <2>1, <2>2, <1>a, <1>b, <1>e DEF MarkRunning, Goto, arqVars, Reopens,
             TerminalStatuses
<1>15. CASE Requeue(j)
  <2>1. pc[j] = "requeue" /\ ~IsTerminal(j) BY <1>15, <1>c DEF Requeue, WorksOnOpenJob, Working
  <2>2. hash'[j].status = "queued" /\ \A k \in Jobs \ {j} : hash'[k] = hash[k]
    BY <1>15, <1>a DEF Requeue, WriteHash, Hashes
  <2> QED BY <1>15, <2>1, <2>2, <1>a, <1>b, <1>e DEF Requeue, Goto, arqVars, Reopens,
             TerminalStatuses
<1>17. CASE RunFinal(j)
  <2>1. pc' = pc /\ pc[j] \notin Working /\ pc[j] \in Running /\ pc[j] # "idle"
    BY <1>17, <1>b DEF RunFinal, Finalizing, Working
  <2>2. /\ \A k \in Jobs \ {j} : hash'[k] = hash[k]
        /\ hash'[j].status = hash[j].status \/ hash'[j].status \in TerminalStatuses
    BY <1>17, <1>a, FinalStepStatus DEF RunFinal
  <2> QED BY <1>17, <2>1, <2>2, <1>a, <1>e DEF RunFinal, arqVars, Reopens, IsTerminal,
             TerminalStatuses
(* The run is over: a run with a detached finalizer was cancelled without a   *)
(* SIGTERM, so ARQ drops the job.                                           *)
<1>19. CASE EndRun(j)
  <2>1. /\ hash' = hash /\ orphans' = orphans /\ phase[j] = "enqueued" /\ pc[j] = "ended"
        /\ "sigterm" \notin intr[j]
    BY <1>19 DEF EndRun, storeVars, FinalityInv, JobInv, QueuedWhenEnqueued
  <2>2. queue' \subseteq queue /\ (outcome[j] = "cancelled" => j \notin queue')
    BY <1>19, <2>1 DEF EndRun, KeepsJob, Release, Finish
  <2>3. Reset({j}) BY <1>19 DEF EndRun
  <2>4. \A o \in orphans' : OrphanInv(o)'
    <3> SUFFICES ASSUME NEW o \in orphans PROVE OrphanInv(o)' BY <2>1
    <3>1. o.job \in Jobs /\ OrphanInv(o) BY <1>a DEF RunnerTypeOK, FinalityInv
    <3>2. CASE o.job = j BY <3>1, <3>2, <2>1, <2>2, <2>3, <1>d DEF OrphanInv, Reset
    <3>3. CASE o.job # j BY <3>1, <3>3, <2>2, <2>3, <1>d DEF OrphanInv, Reset
    <3> QED BY <3>2, <3>3
  <2>5. \A k \in Jobs : JobInv(k)'
    BY <2>1, <2>2, <2>3, <1>d DEF FinalityInv, JobInv, WorksOnOpenJob, QueuedWhenEnqueued,
       OpenUntilEnqueued, IsTerminal, Reset, Working
  <2>6. \A k \in Jobs : ~Reopens(k) BY <2>1 DEF Reopens, IsTerminal, TerminalStatuses
  <2> QED BY <2>4, <2>5, <2>6 DEF FinalityInv
<1> QED
  BY <1>1, <1>2, <1>3, <1>4, <1>5, <1>6, <1>7, <1>8, <1>9, <1>10, <1>11, <1>12, <1>13,
     <1>14, <1>15, <1>16, <1>17, <1>18, <1>19 DEF Run, RunStep

-----------------------------------------------------------------------------
LEMMA OrphanFinality ==
  ASSUME TypeInv, FinalityInv, OrphanStep
  PROVE  FinalityInv' /\ \A k \in Jobs : ~Reopens(k)
<1>1. PICK o \in orphans : OrphanFinal(o) \/ OrphanEnds(o) BY DEF OrphanStep
<1>2. o \in [job : Jobs, worker : Workers, fin : Finalizers] /\ OrphanInv(o)
  BY DEF TypeInv, TypeOK, RunnerTypeOK, FinalityInv
<1>3. o.job \in Jobs /\ o.fin \in Finalizers /\ StoreTypeOK
  BY <1>2 DEF TypeInv, TypeOK
<1>4. UNCHANGED <<pc, owner, outcome, intr, queue, phase>>
  BY <1>1 DEF OrphanStep, OrphanFinal, OrphanEnds, arqVars, apiVars
<1>5. /\ \A k \in Jobs \ {o.job} : hash'[k] = hash[k]
      /\ \/ hash'[o.job].status = hash[o.job].status
         \/ hash'[o.job].status \in TerminalStatuses
  <2>1. CASE OrphanFinal(o) BY <2>1, <1>3, FinalStepStatus DEF OrphanFinal
  <2>2. CASE OrphanEnds(o) BY <2>2 DEF OrphanEnds, storeVars
  <2> QED BY <1>1, <2>1, <2>2
<1>6. \A p \in orphans' : OrphanInv(p)'
  <2> SUFFICES ASSUME NEW p \in orphans' PROVE OrphanInv(p)' OBVIOUS
  <2>1. PICK q \in orphans : p.job = q.job /\ p.worker = q.worker
    BY <1>1, <1>2 DEF OrphanFinal, OrphanEnds
  <2>2. OrphanInv(q) BY DEF FinalityInv
  <2> QED BY <2>1, <2>2, <1>4 DEF OrphanInv
<1>7. pc[o.job] \notin Working /\ phase[o.job] = "enqueued"
  BY <1>2, <1>3 DEF OrphanInv, Working, FinalityInv, JobInv, QueuedWhenEnqueued
<1>8. \A k \in Jobs : JobInv(k)'
  <2> SUFFICES ASSUME NEW k \in Jobs PROVE JobInv(k)' OBVIOUS
  <2>1. CASE k = o.job
    BY <2>1, <1>4, <1>7 DEF FinalityInv, JobInv, WorksOnOpenJob, QueuedWhenEnqueued,
       OpenUntilEnqueued
  <2>2. CASE k # o.job
    BY <2>2, <1>4, <1>5 DEF FinalityInv, JobInv, WorksOnOpenJob, QueuedWhenEnqueued,
       OpenUntilEnqueued, IsTerminal
  <2> QED BY <2>1, <2>2
<1>9. \A k \in Jobs : ~Reopens(k) BY <1>5 DEF Reopens, IsTerminal, TerminalStatuses
<1> QED BY <1>6, <1>8, <1>9 DEF FinalityInv

(* task.cancel() on one run: it may leave a finalizer behind, and then ends.  *)
LEMMA InterruptFinality ==
  ASSUME TypeInv, FinalityInv, NEW j \in Jobs, NEW cause \in {"abort", "timeout"},
         Cancellable(j), Interrupt({j}, cause), UNCHANGED <<hash, phase, queue>>
  PROVE  FinalityInv'
<1>1. pc[j] \in Running \ {"idle", "ended"}
  BY DEF Cancellable, Running, EarlyScope, TryScope, HandlerScope
<1>2. /\ RunnerTypeOK /\ pc \in [Jobs -> Running \cup {"idle", "ended"}]
      /\ outcome \in [Jobs -> Outcomes]
  BY DEF TypeInv, TypeOK, RunnerTypeOK
<1>3. owner' = owner /\ \A k \in Jobs \ {j} : pc'[k] = pc[k] /\ outcome'[k] = outcome[k]
                                              /\ intr'[k] = intr[k]
  BY DEF Interrupt
<1>4. /\ pc'[j] \in {"shielded", "ended"} /\ outcome'[j] = "cancelled"
      /\ intr'[j] = intr[j] \cup {cause}
      /\ pc[j] = "shielded" => pc'[j] = "ended"
  BY DEF Interrupt, TryScope
<1>5. \A k \in Jobs : JobInv(k)'
  <2> SUFFICES ASSUME NEW k \in Jobs PROVE JobInv(k)' OBVIOUS
  <2>1. CASE k = j
    BY <2>1, <1>1, <1>4 DEF FinalityInv, JobInv, WorksOnOpenJob, QueuedWhenEnqueued,
       OpenUntilEnqueued, IsTerminal, Working
  <2>2. CASE k # j
    BY <2>2, <1>3 DEF FinalityInv, JobInv, WorksOnOpenJob, QueuedWhenEnqueued,
       OpenUntilEnqueued, IsTerminal
  <2> QED BY <2>1, <2>2
<1>6. \A o \in orphans' : OrphanInv(o)'
  <2> SUFFICES ASSUME NEW o \in orphans' PROVE OrphanInv(o)' OBVIOUS
  <2>1. CASE o \in orphans
    <3>1. OrphanInv(o) /\ o.job \in Jobs BY <2>1, <1>2 DEF FinalityInv, RunnerTypeOK
    <3>2. o.job # j BY <3>1, <1>1 DEF OrphanInv
    <3> QED BY <3>1, <3>2, <1>3 DEF OrphanInv
  <2>2. CASE o \notin orphans
    <3>1. o.job = j /\ o.worker = owner[j] /\ pc[j] = "shielded"
      BY <2>2 DEF Interrupt
    <3> QED BY <3>1, <1>3, <1>4 DEF OrphanInv
  <2> QED BY <2>1, <2>2
<1> QED BY <1>5, <1>6 DEF FinalityInv

LEMMA FaultFinality ==
  ASSUME TypeInv, FinalityInv, NEW j \in Jobs,
         Abort(j) \/ JobTimeout(j) \/ RedisFails(j) \/ KeyExpires(j) \/ Recover(j)
  PROVE  FinalityInv' /\ \A k \in Jobs : ~Reopens(k)
<1>1. CASE Abort(j)
  <2>1. UNCHANGED <<hash, phase, queue>>
    BY <1>1 DEF Abort, DeliverAbort, ServeAbort, storeVars, apiVars
  <2> QED BY <1>1, <2>1, InterruptFinality
          DEF Abort, DeliverAbort, Reopens, IsTerminal, TerminalStatuses
<1>2. CASE JobTimeout(j)
  <2>1. UNCHANGED <<hash, phase, queue>>
    BY <1>2 DEF JobTimeout, Timeout, storeVars, arqVars, apiVars
  <2> QED BY <1>2, <2>1, InterruptFinality
          DEF JobTimeout, Timeout, Reopens, IsTerminal, TerminalStatuses
<1>3. CASE RedisFails(j)
  <2>1. UNCHANGED <<hash, phase, queue, owner, intr, orphans>> /\ pc[j] \in Running
    BY <1>3 DEF RedisFails, RedisError, storeVars, arqVars, apiVars, Cancellable,
                FinalizeAt, EndWith
  <2>2. pc'[j] \in {"shielded", "ended"}
        /\ \A k \in Jobs \ {j} : pc'[k] = pc[k] /\ outcome'[k] = outcome[k]
    BY <1>3 DEF RedisFails, RedisError, FinalizeAt, EndWith, TypeInv, TypeOK, RunnerTypeOK
  <2> QED BY <2>1, <2>2, RunMove DEF Working, Reopens, IsTerminal, TerminalStatuses
<1>4. CASE KeyExpires(j)
  <2>1. UNCHANGED <<pc, owner, outcome, intr, orphans, queue, phase>>
    BY <1>4 DEF KeyExpires, runVars, arqVars, apiVars
  <2>2. \A k \in Jobs : hash'[k] = hash[k] \/ hash'[k].status = "none"
    BY <1>4 DEF KeyExpires, DropHash, DropTokens, NoHash, TypeInv, TypeOK, StoreTypeOK
  <2> QED BY <2>1, <2>2 DEF FinalityInv, JobInv, OrphanInv, WorksOnOpenJob,
          QueuedWhenEnqueued, OpenUntilEnqueued, Reopens, IsTerminal, TerminalStatuses
<1>5. CASE Recover(j)
  <2>1. UNCHANGED <<hash, pc, owner, outcome, intr, orphans, queue, phase>>
    BY <1>5 DEF Recover, InProgressExpires, Release, storeVars, runVars, apiVars
  <2> QED BY <2>1 DEF FinalityInv, JobInv, OrphanInv, WorksOnOpenJob,
          QueuedWhenEnqueued, OpenUntilEnqueued, Reopens, IsTerminal, TerminalStatuses
<1> QED BY <1>1, <1>2, <1>3, <1>4, <1>5

(* A worker that is gone takes its detached finalizers along.                *)
LEMMA WorkerFinality ==
  ASSUME TypeInv, FinalityInv, NEW w \in Workers, Crash(w) \/ Exit(w)
  PROVE  FinalityInv' /\ \A k \in Jobs : ~Reopens(k)
<1>1. /\ UNCHANGED <<hash, queue, phase>>
      /\ Reset(RunsOf(w)) /\ orphans' = {o \in orphans : o.worker # w}
  BY DEF Crash, Exit, KillWorker, storeVars, arqVars, apiVars
<1>2. \A k \in Jobs : JobInv(k)'
  BY <1>1 DEF FinalityInv, JobInv, WorksOnOpenJob, QueuedWhenEnqueued,
     OpenUntilEnqueued, IsTerminal, Reset, Working
<1>3. \A o \in orphans' : OrphanInv(o)'
  <2> SUFFICES ASSUME NEW o \in orphans, o.worker # w PROVE OrphanInv(o)' BY <1>1
  <2>1. o.job \in Jobs /\ OrphanInv(o)
    BY DEF TypeInv, TypeOK, RunnerTypeOK, FinalityInv
  <2>2. CASE pc[o.job] = "ended" /\ outcome[o.job] = "cancelled" /\ owner[o.job] = o.worker
    <3>1. o.job \notin RunsOf(w) BY <2>2 DEF RunsOf
    <3> QED BY <2>1, <2>2, <3>1, <1>1 DEF Reset, OrphanInv
  <2>3. CASE pc[o.job] = "idle" /\ o.job \notin queue /\ phase[o.job] = "enqueued"
    BY <2>1, <2>3, <1>1 DEF Reset, OrphanInv
  <2> QED BY <2>1, <2>2, <2>3 DEF OrphanInv
<1> QED BY <1>1, <1>2, <1>3 DEF FinalityInv, Reopens, IsTerminal, TerminalStatuses

-----------------------------------------------------------------------------
LEMMA ApiFinality ==
  ASSUME TypeInv, FinalityInv, Api
  PROVE  FinalityInv' /\ \A k \in Jobs : ~Reopens(k)
<1>a. UNCHANGED <<pc, owner, outcome, intr, orphans>> BY DEF Api, runVars
<1>b. hash \in [Jobs -> Hashes] /\ phase \in [Jobs -> {"new", "created", "enqueued"}]
  BY DEF TypeInv, TypeOK, StoreTypeOK, ApiTypeOK
<1> USE DEF FinalityInv, JobInv, OrphanInv, WorksOnOpenJob, QueuedWhenEnqueued,
            OpenUntilEnqueued, IsTerminal
<1>1. ASSUME NEW j \in Jobs, CreateJob(j)
      PROVE  FinalityInv' /\ \A k \in Jobs : ~Reopens(k)
  <2>1. /\ phase[j] = "new" /\ hash[j].status \notin TerminalStatuses /\ queue' = queue
        /\ phase' = [phase EXCEPT ![j] = "created"]
    BY <1>1 DEF CreateJob, arqVars
  <2>2. /\ hash'[j].status = "queued"
        /\ \A k \in Jobs \ {j} : hash'[k] = hash[k]
    BY <1>1, <1>b DEF CreateJob, CreateRecord, NoHash
  <2>3. pc[j] = "idle" /\ \A o \in orphans : o.job # j BY <2>1
  <2>4. \A o \in orphans : o.job \in Jobs BY DEF TypeInv, TypeOK, RunnerTypeOK
  <2> QED BY <2>1, <2>2, <2>3, <2>4, <1>a, <1>b DEF Reopens, TerminalStatuses, Working
<1>2. ASSUME NEW j \in Jobs, Enqueue(j)
      PROVE  FinalityInv' /\ \A k \in Jobs : ~Reopens(k)
  <2>1. /\ phase[j] = "created" /\ hash' = hash /\ queue' = queue \cup {j}
        /\ phase' = [phase EXCEPT ![j] = "enqueued"]
    BY <1>2 DEF Enqueue, EnqueueJob, storeVars
  <2>2. \A o \in orphans : o.job # j BY <2>1
  <2>3. \A o \in orphans : o.job \in Jobs BY DEF TypeInv, TypeOK, RunnerTypeOK
  <2> QED BY <2>1, <2>2, <2>3, <1>a, <1>b DEF Reopens, TerminalStatuses
<1>3. ASSUME NEW c \in Cancellers,
             \/ CancelGet(c) \/ CancelExists(c) \/ CancelFlag(c)
             \/ CancelAnnounce(c) \/ CancelAbort(c)
      PROVE  FinalityInv' /\ \A k \in Jobs : ~Reopens(k)
  <2>1. queue' = queue /\ phase' = phase
    BY <1>3 DEF CancelGet, CancelExists, CancelFlag, CancelAnnounce, CancelAbort,
       CancelGoto, RequestAbort, arqVars
  <2>2. \A k \in Jobs : hash'[k].status = hash[k].status
    <3>1. CASE CancelFlag(c)
      BY <3>1, <1>b DEF CancelFlag, WriteHash, Hashes
    <3>2. CASE ~CancelFlag(c)
      BY <1>3, <3>2 DEF CancelGet, CancelExists, CancelAnnounce, CancelAbort, Publish,
         storeVars
    <3> QED BY <3>1, <3>2
  <2> QED BY <2>1, <2>2, <1>a DEF Reopens, TerminalStatuses
<1> QED BY <1>1, <1>2, <1>3 DEF Api, ApiStep, AbortStep

-----------------------------------------------------------------------------
LEMMA InitFinality == Init => FinalityInv
  BY DEF Init, StoreInit, ArqInit, RunnerInit, ApiInit, NoHash, FinalityInv, JobInv,
     WorksOnOpenJob, QueuedWhenEnqueued, OpenUntilEnqueued, IsTerminal, TerminalStatuses,
     Working

LEMMA NextFinality ==
  ASSUME "sigterm" \notin Faults, TypeInv, FinalityInv, [Next]_vars
  PROVE  FinalityInv' /\ \A k \in Jobs : ~Reopens(k)
<1>1. CASE Api BY <1>1, ApiFinality
<1>2. ASSUME NEW w \in Workers, NEW j \in Jobs, Start(w, j)
      PROVE  FinalityInv' /\ \A k \in Jobs : ~Reopens(k)
  <2>1. /\ hash' = hash /\ queue' = queue /\ phase' = phase /\ j \in queue
        /\ UNCHANGED <<outcome, intr, orphans>>
        /\ pc[j] = "idle" /\ pc' = [pc EXCEPT ![j] = "get"]
        /\ owner' = [owner EXCEPT ![j] = w]
    BY <1>2 DEF Start, StartRun, Claim, Claimable, storeVars, apiVars
  <2>2. pc \in [Jobs -> Running \cup {"idle", "ended"}]
        /\ owner \in [Jobs -> Workers \cup {NoWorker}]
    BY DEF TypeInv, TypeOK, RunnerTypeOK
  <2>3. \A o \in orphans : OrphanInv(o)'
    <3> SUFFICES ASSUME NEW o \in orphans PROVE OrphanInv(o)' OBVIOUS
    <3>1. OrphanInv(o) /\ o.job # j BY <2>1 DEF FinalityInv, OrphanInv
    <3>2. o.job \in Jobs BY DEF TypeInv, TypeOK, RunnerTypeOK
    <3> QED BY <3>1, <3>2, <2>1, <2>2 DEF OrphanInv
  <2>4. \A k \in Jobs : JobInv(k)'
    BY <2>1, <2>2 DEF FinalityInv, JobInv, WorksOnOpenJob, QueuedWhenEnqueued,
       OpenUntilEnqueued, IsTerminal, Working
  <2> QED BY <2>1, <2>3, <2>4 DEF FinalityInv, Reopens, IsTerminal, TerminalStatuses
<1>3. ASSUME NEW j \in Jobs, DiscardJob(j)
      PROVE  FinalityInv' /\ \A k \in Jobs : ~Reopens(k)
  <2>1. queue' \subseteq queue
        /\ UNCHANGED <<hash, pc, owner, outcome, intr, orphans, phase>>
    BY <1>3 DEF DiscardJob, DiscardRun, Discard, storeVars, runVars, apiVars
  <2> QED BY <2>1 DEF FinalityInv, JobInv, OrphanInv, WorksOnOpenJob, QueuedWhenEnqueued,
          OpenUntilEnqueued, Reopens, IsTerminal, TerminalStatuses
<1>4. ASSUME NEW j \in Jobs, Run(j)
      PROVE  FinalityInv' /\ \A k \in Jobs : ~Reopens(k)
  BY <1>4, RunFinality
<1>5. CASE OrphanStep BY <1>5, OrphanFinality
<1>6. ASSUME NEW j \in Jobs,
             Abort(j) \/ JobTimeout(j) \/ RedisFails(j) \/ KeyExpires(j) \/ Recover(j)
      PROVE  FinalityInv' /\ \A k \in Jobs : ~Reopens(k)
  BY <1>6, FaultFinality
<1>7. ASSUME NEW w \in Workers, Crash(w) \/ Sigterm(w) \/ Exit(w)
      PROVE  FinalityInv' /\ \A k \in Jobs : ~Reopens(k)
  BY <1>7, WorkerFinality DEF Sigterm
<1>8. CASE UNCHANGED vars
  BY <1>8 DEF vars, storeVars, arqVars, runVars, apiVars, FinalityInv, JobInv, OrphanInv,
     WorksOnOpenJob, QueuedWhenEnqueued, OpenUntilEnqueued, Reopens, IsTerminal,
     TerminalStatuses
<1> QED BY <1>1, <1>2, <1>3, <1>4, <1>5, <1>6, <1>7, <1>8 DEF Next

(* The inductive invariant holds in every reachable state.                   *)
THEOREM FinalityInvariant ==
  ASSUME "sigterm" \notin Faults
  PROVE  Spec => [](TypeInv /\ FinalityInv)
<1>1. Init => TypeInv /\ FinalityInv BY InitType, InitFinality
<1>2. TypeInv /\ FinalityInv /\ [Next]_vars => (TypeInv /\ FinalityInv)'
  BY NextType, NextFinality
<1> QED BY <1>1, <1>2, PTL DEF Spec

(* Whatever crashes, aborts, times out, fails or expires, no step takes a     *)
(* record from a terminal status back to QUEUED or RUNNING.  Only a SIGTERM,  *)
(* which lets a second worker run a job whose first run still has a detached  *)
(* finalizer, is excluded.                                                  *)
THEOREM NeverReopened ==
  ASSUME "sigterm" \notin Faults
  PROVE  Spec => TerminalNeverReopens
<1>1. TypeInv /\ FinalityInv /\ [Next]_vars => [NoReopening]_vars
  <2> SUFFICES ASSUME TypeInv, FinalityInv, [Next]_vars PROVE NoReopening OBVIOUS
  <2> QED BY NextFinality DEF NoReopening, Reopens
<1>2. Spec => [](TypeInv /\ FinalityInv) BY FinalityInvariant
<1> QED BY <1>1, <1>2, PTL DEF Spec, TerminalNeverReopens

-----------------------------------------------------------------------------
(* The inductive invariant.  A run has just pushed what it will publish; what *)
(* it has received is the end of the buffer; a record has a result only when  *)
(* nothing will be pushed any more.                                          *)
EndsWith(t, s) ==
    /\ Len(s) <= Len(t)
    /\ \A i \in 1..Len(s) : s[i] = t[Len(t) - Len(s) + i]

EventFaithful(j, i) ==
    /\ channel[j][i].index < Len(tokens[j])
    /\ tokens[j][channel[j][i].index + 1] = channel[j][i].delta
    /\ \A k \in TokenEvents(j) : k < i => channel[j][k].index < channel[j][i].index

PushedLast(j) ==
    pc[j] \in {"arm", "publish"} =>
        /\ parts[j] # <<>>
        /\ index[j] + 1 = Len(tokens[j])
        /\ \A i \in TokenEvents(j) : channel[j][i].index < index[j]

ResultInv(j) ==
    hash[j].result # NoResult =>
        IsTerminal(j) /\ pc[j] \notin Working /\ EndsWith(tokens[j], hash[j].result)

CompletesWithParts(j) ==
    Finalizing(j) /\ fin[j].status = "completed" => pc[j] = "finalize" /\ fin[j].result = parts[j]

TokenInv(j) ==
    /\ \A i \in TokenEvents(j) : EventFaithful(j, i)
    /\ PushedLast(j)
    /\ EndsWith(tokens[j], parts[j])
    /\ ResultInv(j)
    /\ CompletesWithParts(j)

NoLateCompletion == \A o \in orphans : o.fin.status # "completed"

BufferInv == NoLateCompletion /\ \A j \in Jobs : TokenInv(j)

-----------------------------------------------------------------------------
LEMMA EndsWithEmpty ==
  ASSUME NEW t \in Seq(Delta)
  PROVE  EndsWith(t, <<>>)
  BY DEF EndsWith

LEMMA EndsWithAppend ==
  ASSUME NEW t \in Seq(Delta), NEW s \in Seq(Delta), NEW d \in Delta, EndsWith(t, s)
  PROVE  EndsWith(Append(t, d), Append(s, d))
<1>1. /\ Len(Append(t, d)) = Len(t) + 1 /\ Len(Append(s, d)) = Len(s) + 1
      /\ Len(t) \in Nat /\ Len(s) \in Nat
  OBVIOUS
<1>3. Len(s) <= Len(t) BY DEF EndsWith
<1>2. ASSUME NEW i \in 1..Len(Append(s, d))
      PROVE  Append(s, d)[i] = Append(t, d)[Len(Append(t, d)) - Len(Append(s, d)) + i]
  <2>1. CASE i = Len(s) + 1 BY <1>1, <2>1 DEF EndsWith
  <2>2. CASE i \in 1..Len(s)
    <3>1. Len(t) - Len(s) + i \in 1..Len(t) BY <2>2 DEF EndsWith
    <3> QED BY <1>1, <2>2, <3>1 DEF EndsWith
  <2>3. i \in 1..(Len(s) + 1) BY <1>1
  <2>4. i = Len(s) + 1 \/ i \in 1..Len(s) BY <1>1, <2>3
  <2> QED BY <2>1, <2>2, <2>4
<1>4. \A i \in 1..Len(Append(s, d)) :
        Append(s, d)[i] = Append(t, d)[Len(Append(t, d)) - Len(Append(s, d)) + i]
  BY <1>2
<1>5. Len(Append(s, d)) <= Len(Append(t, d)) BY <1>1, <1>3
<1> QED BY <1>4, <1>5 DEF EndsWith

(* IsSuffix, which the community modules define by reversing both sequences.  *)
LEMMA EndsWithSuffix ==
  ASSUME NEW t \in Seq(Delta), NEW s \in Seq(Delta), EndsWith(t, s)
  PROVE  IsSuffix(s, t)
<1>1. /\ Reverse(s) \in Seq(Delta) /\ Len(Reverse(s)) = Len(s)
      /\ Reverse(t) \in Seq(Delta) /\ Len(Reverse(t)) = Len(t)
      /\ \A i \in 1..Len(s) : Reverse(s)[i] = s[(Len(s) - i) + 1]
      /\ \A i \in 1..Len(t) : Reverse(t)[i] = t[(Len(t) - i) + 1]
  BY DEF Reverse
<1> HIDE DEF EndsWith
<1>2. \A i \in 1..Len(s) : Reverse(s)[i] = Reverse(t)[i]
  <2> SUFFICES ASSUME NEW i \in 1..Len(s) PROVE Reverse(s)[i] = Reverse(t)[i] OBVIOUS
  <2>1. (Len(s) - i) + 1 \in 1..Len(s) /\ Len(s) <= Len(t) BY DEF EndsWith
  <2>2. s[(Len(s) - i) + 1] = t[Len(t) - Len(s) + ((Len(s) - i) + 1)] BY <2>1 DEF EndsWith
  <2>3. Len(t) - Len(s) + ((Len(s) - i) + 1) = (Len(t) - i) + 1 BY <2>1
  <2>4. i \in 1..Len(t) BY <1>1, <2>1
  <2>5. Reverse(s)[i] = s[(Len(s) - i) + 1] /\ Reverse(t)[i] = t[(Len(t) - i) + 1]
    BY <1>1, <2>4
  <2> QED BY <2>2, <2>3, <2>5
<1>3. Len(s) <= Len(t) BY DEF EndsWith
<1>4. SubSeq(Reverse(s), 1, Len(s)) = SubSeq(Reverse(t), 1, Len(s))
  <2>1. /\ SubSeq(Reverse(s), 1, Len(s)) = [i \in 1..Len(s) |-> Reverse(s)[i]]
        /\ SubSeq(Reverse(t), 1, Len(s)) = [i \in 1..Len(s) |-> Reverse(t)[i]]
    BY <1>1, <1>3
  <2> QED BY <2>1, <1>2
<1> QED BY <1>1, <1>3, <1>4 DEF IsSuffix, IsPrefix

LEMMA EventFields ==
  /\ \A s : StatusEvent(s).type = "status"
  /\ \A i : \A d : TokenEvent(i, d).type = "token" /\ TokenEvent(i, d).index = i
                   /\ TokenEvent(i, d).delta = d
  /\ \A s : TerminalEvent(s).type \in {"done", "error"} /\ TerminalEvent(s).status = s
  BY DEF StatusEvent, TokenEvent, TerminalEvent

LEMMA TokenEventFields ==
  ASSUME TypeOK, NEW j \in Jobs, NEW i \in TokenEvents(j)
  PROVE  channel[j][i].index \in Nat /\ channel[j][i].delta \in Delta
<1>1. channel[j][i] \in Events BY Domains DEF TokenEvents
<1>2. channel[j][i].type = "token" BY DEF TokenEvents
<1> QED BY <1>1, <1>2 DEF Events, TerminalStatuses

-----------------------------------------------------------------------------
(* A step that pushes no token and publishes none.                           *)
LEMMA TokenQuiet ==
  ASSUME TypeOK, NEW j \in Jobs, TokenInv(j), tokens'[j] = tokens[j],
         \/ channel'[j] = channel[j]
         \/ \E e \in Events : e.type # "token" /\ channel'[j] = Append(channel[j], e),
         parts'[j] = parts[j] \/ parts'[j] = <<>>,
         pc'[j] \in {"arm", "publish"} =>
             pc[j] \in {"arm", "publish"} /\ parts'[j] = parts[j] /\ index'[j] = index[j],
         hash'[j].result # NoResult =>
             /\ pc'[j] \notin Working /\ hash'[j].status \in TerminalStatuses
             /\ EndsWith(tokens[j], hash'[j].result),
         CompletesWithParts(j)'
  PROVE  TokenInv(j)'
<1>1. TokenEvents(j)' = TokenEvents(j) /\ \A i \in TokenEvents(j) : channel'[j][i] = channel[j][i]
  <2>1. CASE channel'[j] = channel[j] BY <2>1 DEF TokenEvents
  <2>2. ASSUME NEW e \in Events, e.type # "token", channel'[j] = Append(channel[j], e)
        PROVE  /\ TokenEvents(j)' = TokenEvents(j)
               /\ \A i \in TokenEvents(j) : channel'[j][i] = channel[j][i]
    <3>1. channel[j] \in Seq(Events) BY Domains
    <3>2. DOMAIN channel'[j] = DOMAIN channel[j] \cup {Len(channel[j]) + 1}
          /\ channel'[j][Len(channel[j]) + 1] = e
          /\ \A i \in DOMAIN channel[j] : channel'[j][i] = channel[j][i]
      BY <2>2, <3>1
    <3> QED BY <2>2, <3>2 DEF TokenEvents
  <2> QED BY <2>1, <2>2
<1>2. \A i \in TokenEvents(j)' : EventFaithful(j, i)'
  BY <1>1 DEF TokenInv, EventFaithful
<1>3. PushedLast(j)' BY <1>1 DEF TokenInv, PushedLast
<1>4. EndsWith(tokens[j], parts[j])'
  <2>1. tokens[j] \in Seq(Delta) BY Domains
  <2> QED BY <2>1, EndsWithEmpty DEF TokenInv
<1>5. ResultInv(j)' BY DEF ResultInv, IsTerminal
<1> QED BY <1>2, <1>3, <1>4, <1>5 DEF TokenInv

LEMMA TokenSame ==
  ASSUME TypeOK, NEW j \in Jobs, TokenInv(j), SameJob(j)
  PROVE  TokenInv(j)'
<1>1. CompletesWithParts(j)' BY DEF SameJob, TokenInv, CompletesWithParts, Finalizing
<1>2. hash[j].result # NoResult =>
        pc[j] \notin Working /\ hash[j].status \in TerminalStatuses /\ EndsWith(tokens[j], hash[j].result)
  BY DEF TokenInv, ResultInv, IsTerminal
<1> QED BY <1>1, <1>2, TokenQuiet DEF SameJob

(* RPUSH and parts.append() lengthen the buffer and the parts alike.          *)
LEMMA TokenPushed ==
  ASSUME TypeInv, NEW j \in Jobs, TokenInv(j), PushToken(j), TypeOK'
  PROVE  TokenInv(j)'
<1> DEFINE d == <<tries[j], Len(parts[j]) + 1>>
<1>1. /\ pc[j] = "push" /\ pc'[j] = "arm" /\ hash'[j] = hash[j] /\ channel'[j] = channel[j]
      /\ tokens'[j] = Append(tokens[j], d) /\ parts'[j] = Append(parts[j], d)
      /\ index'[j] = Len(tokens[j])
  BY Domains DEF TypeInv, PushToken, RpushToken
<1>2. /\ tokens[j] \in Seq(Delta) /\ parts[j] \in Seq(Delta) /\ tries[j] \in Nat /\ TypeOK
  BY Domains, SettingsAssumption DEF TypeInv, MaxTries
<1>3. d \in Delta BY <1>2 DEF Delta
<1> HIDE DEF d
<1>4. /\ Len(tokens'[j]) = Len(tokens[j]) + 1 /\ Len(tokens[j]) \in Nat
      /\ \A n \in 1..Len(tokens[j]) : tokens'[j][n] = tokens[j][n]
  BY <1>1, <1>2, <1>3
<1>5. TokenEvents(j)' = TokenEvents(j) BY <1>1 DEF TokenEvents
<1>6. ASSUME NEW i \in TokenEvents(j)
      PROVE  /\ EventFaithful(j, i)'
             /\ channel[j][i].index < Len(tokens[j])
  <2>1. channel[j][i].index \in Nat BY <1>2, TokenEventFields
  <2>2. EventFaithful(j, i) BY DEF TokenInv
  <2>3. channel[j][i].index + 1 \in 1..Len(tokens[j]) BY <1>4, <2>1, <2>2 DEF EventFaithful
  <2> QED BY <1>1, <1>4, <1>5, <2>1, <2>2, <2>3 DEF EventFaithful
<1>7. PushedLast(j)'
  <2>0. Len(parts'[j]) = Len(parts[j]) + 1 /\ Len(parts[j]) \in Nat BY <1>1, <1>2, <1>3
  <2>1. parts'[j] # <<>> BY <2>0
  <2> QED BY <1>1, <1>4, <1>5, <1>6, <2>1 DEF PushedLast
<1>8. EndsWith(tokens[j], parts[j])'
  BY <1>1, <1>2, <1>3, EndsWithAppend DEF TokenInv
<1>9. ResultInv(j)' BY <1>1 DEF TokenInv, ResultInv, Working
<1>10. CompletesWithParts(j)' BY <1>1 DEF CompletesWithParts, Finalizing
<1> QED BY <1>5, <1>6, <1>7, <1>8, <1>9, <1>10 DEF TokenInv

(* TOKEN carries the last token under the last position, which no event had.  *)
LEMMA TokenPublished ==
  ASSUME TypeInv, NEW j \in Jobs, TokenInv(j), PublishToken(j)
  PROVE  TokenInv(j)'
<1> DEFINE e == TokenEvent(index[j], parts[j][Len(parts[j])])
<1>1. /\ pc[j] = "publish" /\ pc'[j] \in {"push", "call"} /\ hash'[j] = hash[j]
      /\ channel'[j] = Append(channel[j], e) /\ tokens'[j] = tokens[j]
      /\ parts'[j] = parts[j] /\ index'[j] = index[j]
  BY Domains DEF TypeInv, PublishToken, Publish, Goto, NextDelta
<1>2. /\ tokens[j] \in Seq(Delta) /\ parts[j] \in Seq(Delta) /\ channel[j] \in Seq(Events)
      /\ index[j] \in Nat /\ TypeOK
  BY Domains DEF TypeInv
<1>3. /\ e.type = "token" /\ e.index = index[j] /\ e.delta = parts[j][Len(parts[j])]
  BY EventFields
<1> HIDE DEF e
<1>4. PICK n \in Nat :
         /\ DOMAIN channel[j] = 1..(n - 1)
         /\ DOMAIN channel'[j] = 1..n /\ channel'[j][n] = e /\ n \in 1..n
         /\ \A i \in 1..(n - 1) : channel'[j][i] = channel[j][i]
  <2>1. Len(channel[j]) + 1 \in Nat /\ DOMAIN channel[j] = 1..Len(channel[j])
        /\ DOMAIN channel'[j] = 1..(Len(channel[j]) + 1)
        /\ channel'[j][Len(channel[j]) + 1] = e
        /\ \A i \in 1..Len(channel[j]) : channel'[j][i] = channel[j][i]
    BY <1>1, <1>2
  <2>2. (Len(channel[j]) + 1) - 1 = Len(channel[j])
        /\ Len(channel[j]) + 1 \in 1..(Len(channel[j]) + 1)
    BY <1>2
  <2> QED BY <2>1, <2>2
<1>5. TokenEvents(j)' = TokenEvents(j) \cup {n} /\ n \notin TokenEvents(j)
      /\ \A i \in TokenEvents(j) : i \in 1..(n - 1)
  BY <1>3, <1>4 DEF TokenEvents
<1>6. parts[j] # <<>> /\ index[j] + 1 = Len(tokens[j])
      /\ \A i \in TokenEvents(j) : channel[j][i].index < index[j]
  BY <1>1 DEF TokenInv, PushedLast
<1>7. tokens[j][index[j] + 1] = e.delta
  <2>1. Len(parts[j]) \in 1..Len(parts[j]) /\ Len(parts[j]) \in Nat /\ Len(tokens[j]) \in Nat
    BY <1>2, <1>6
  <2>2. parts[j][Len(parts[j])] = tokens[j][Len(tokens[j]) - Len(parts[j]) + Len(parts[j])]
    BY <2>1 DEF TokenInv, EndsWith
  <2> QED BY <1>3, <1>6, <2>1, <2>2
<1>8. EventFaithful(j, n)'
  BY <1>1, <1>2, <1>3, <1>4, <1>5, <1>6, <1>7 DEF EventFaithful
<1>9. ASSUME NEW i \in TokenEvents(j) PROVE EventFaithful(j, i)'
  <2>1. EventFaithful(j, i) /\ i \in 1..(n - 1) BY <1>5 DEF TokenInv
  <2>2. \A k \in TokenEvents(j)' : k < i => k \in TokenEvents(j) BY <1>4, <1>5, <2>1
  <2> QED BY <1>1, <1>4, <1>5, <2>1, <2>2 DEF EventFaithful
<1>10. PushedLast(j)' BY <1>1 DEF PushedLast
<1>11. EndsWith(tokens[j], parts[j])' BY <1>1 DEF TokenInv
<1>12. ResultInv(j)' BY <1>1 DEF TokenInv, ResultInv, Working
<1>13. CompletesWithParts(j)' BY <1>1 DEF CompletesWithParts, Finalizing
<1> QED BY <1>5, <1>8, <1>9, <1>10, <1>11, <1>12, <1>13 DEF TokenInv

-----------------------------------------------------------------------------
(* What finalize() writes into the record's result.                          *)
LEMMA FinalStepToken ==
  ASSUME TypeOK, NEW j \in Jobs, NEW f \in Finalizers, FinalStep(j, f)
  PROVE  /\ tokens'[j] = tokens[j]
         /\ \/ channel'[j] = channel[j]
            \/ \E e \in Events : e.type # "token" /\ channel'[j] = Append(channel[j], e)
         /\ hash'[j].status = hash[j].status \/ hash'[j].status \in TerminalStatuses
         /\ \/ hash'[j].result \in {hash[j].result, NoResult}
            \/ /\ f.status = "completed" /\ hash'[j].result = f.result
               /\ hash'[j].status \in TerminalStatuses
<1>1. hash[j] \in Hashes /\ f.status \in TerminalStatuses BY Domains DEF Finalizers
<1>2. CASE WriteHash(j, FinalHset(f, hash[j]))
  BY <1>1, <1>2, Domains DEF WriteHash, FinalHset, Hashes
<1>3. CASE WriteHash(j, FinalHdel(f, hash[j]))
  BY <1>1, <1>3, Domains DEF WriteHash, FinalHdel, Hashes
<1>4. CASE ExpireHash(j) \/ ExpireTokens(j) BY <1>4 DEF ExpireHash, ExpireTokens
<1>5. CASE Publish(j, TerminalEvent(f.status))
  <2>1. TerminalEvent(f.status) \in Events /\ TerminalEvent(f.status).type # "token"
    BY <1>1, TerminalEventType, EventFields
  <2> QED BY <1>5, <2>1, Domains DEF Publish
<1> QED BY <1>2, <1>3, <1>4, <1>5 DEF FinalStep

LEMMA RunToken ==
  ASSUME TypeInv, TypeOK', NEW j \in Jobs, TokenInv(j), Run(j)
  PROVE  TokenInv(j)'
<1> DEFINE Store == /\ tokens'[j] = tokens[j]
                    /\ \/ channel'[j] = channel[j]
                       \/ \E e \in Events : e.type # "token" /\ channel'[j] = Append(channel[j], e)
           Move == /\ parts'[j] = parts[j] \/ parts'[j] = <<>>
                   /\ pc'[j] \in {"arm", "publish"} =>
                         /\ pc[j] \in {"arm", "publish"}
                         /\ parts'[j] = parts[j] /\ index'[j] = index[j]
           Result == hash'[j].result # NoResult =>
                         /\ pc'[j] \notin Working /\ hash'[j].status \in TerminalStatuses
                         /\ EndsWith(tokens[j], hash'[j].result)
<1>a. TypeOK /\ hash[j] \in Hashes /\ fin[j] \in Finalizers BY Domains DEF TypeInv
<1>b. hash[j].result # NoResult =>
        /\ pc[j] \notin Working /\ hash[j].status \in TerminalStatuses
        /\ EndsWith(tokens[j], hash[j].result)
  BY DEF TokenInv, ResultInv, IsTerminal
<1>c. CompletesWithParts(j) BY DEF TokenInv
<1>e. ASSUME Store, Move, Result, CompletesWithParts(j)' PROVE TokenInv(j)'
  BY <1>e, <1>a, TokenQuiet
<1>f. Finalize("cancelled", NoResult).status # "completed"
      /\ Finalize("failed", NoResult).status # "completed"
      /\ Finalize("completed", parts[j]).result = parts[j]
  BY DEF Finalize
(* Steps that leave Redis alone.                                             *)
<1>1. ASSUME UNCHANGED storeVars, Move, CompletesWithParts(j)',
             pc'[j] \in Working => pc[j] \in Working \/ ~IsTerminal(j)
      PROVE  TokenInv(j)'
  <2>1. Store BY <1>1 DEF storeVars
  <2>2. Result BY <1>1, <1>b DEF storeVars, IsTerminal
  <2> QED BY <1>1, <2>1, <2>2, <1>e
<1>2. CASE GetRecord(j)
  BY <1>2, <1>1, <1>a, Domains DEF GetRecord, Goto, EndWith, CompletesWithParts,
     Finalizing, Working
<1>3. CASE CheckCancel(j)
  BY <1>3, <1>1, <1>a, <1>f, Domains DEF CheckCancel, Goto, FinalizeAt, CompletesWithParts,
     Finalizing, Working
<1>4. CASE EnterTry(j)
  BY <1>4, <1>1, <1>a, Domains DEF EnterTry, Goto, CompletesWithParts, Finalizing, Working
<1>5. CASE CallReturns(j) \/ StreamEnds(j)
  BY <1>5, <1>1, <1>a, <1>f, Domains DEF CallReturns, StreamEnds, FinalizeAt,
     CompletesWithParts, Finalizing, Working
<1>6. CASE ReceiveChunk(j)
  BY <1>6, <1>1, <1>a, Domains DEF ReceiveChunk, CompletesWithParts, Finalizing, Working
<1>7. CASE PollCancel(j)
  BY <1>7, <1>1, <1>a, <1>f, Domains DEF PollCancel, NextDelta, Goto, FinalizeAt,
     CompletesWithParts, Finalizing, Working
<1>8. CASE CallFailsTransiently(j) \/ CallFails(j)
  BY <1>8, <1>1, <1>a, <1>f, Domains DEF CallFailsTransiently, CallFails, Goto, FinalizeAt,
     CompletesWithParts, Finalizing, Working
<1>9. CASE RaiseRetry(j) \/ EndFinal(j)
  BY <1>9, <1>1, <1>a, Domains DEF RaiseRetry, EndFinal, EndWith, CompletesWithParts,
     Finalizing, Working
<1>10. CASE EndRun(j)
  BY <1>10, <1>1, <1>a, Domains DEF EndRun, Reset, CompletesWithParts, Finalizing, Working
(* Steps that write.                                                         *)
<1>11. CASE MarkRunning(j) \/ Requeue(j)
  <2>1. pc[j] \in Working /\ pc'[j] \in Working \ {"arm", "publish"}
        /\ pc'[j] \notin {"cancel_early", "finalize", "shielded"}
    BY <1>11, <1>a, Domains DEF MarkRunning, Requeue, Goto, Working
  <2>2. PICK h \in {[hash[j] EXCEPT !.status = "running", !.attempts = tries[j]],
                    [hash[j] EXCEPT !.status = "queued", !.error = TRUE]} : WriteHash(j, h)
    BY <1>11 DEF MarkRunning, Requeue
  <2>4. h.result = hash[j].result BY <2>2, <1>a DEF Hashes
  <2>5. Store /\ hash'[j].result = hash[j].result BY <2>2, <2>4, <1>a, Domains DEF WriteHash
  <2>3. parts' = parts BY <1>11 DEF MarkRunning, Requeue, Goto
  <2> QED BY <2>1, <2>3, <2>5, <1>b, <1>e DEF CompletesWithParts, Finalizing
<1>12. CASE AnnounceRunning(j)
  <2>1. pc[j] \in Working /\ pc'[j] = "announced" /\ parts' = parts /\ hash' = hash
    BY <1>12, <1>a, Domains DEF AnnounceRunning, Publish, Goto, Working
  <2>2. Store
    BY <1>12, <1>a, Domains, StatusEventType, EventFields DEF AnnounceRunning, Publish
  <2> QED BY <2>1, <2>2, <1>b, <1>e DEF CompletesWithParts, Finalizing
<1>13. CASE PushToken(j) BY <1>13, TokenPushed
<1>14. CASE ArmTokens(j)
  <2>1. /\ pc[j] = "arm" /\ pc'[j] = "publish" /\ UNCHANGED <<parts, index, hash>>
        /\ UNCHANGED <<tokens, channel>>
    BY <1>14, <1>a, Domains DEF ArmTokens, ExpireTokens, Goto
  <2> QED BY <2>1, <1>b, <1>e DEF CompletesWithParts, Finalizing, Working
<1>15. CASE PublishToken(j) BY <1>15, TokenPublished
<1>16. CASE RunFinal(j)
  <2>1. /\ Finalizing(j) /\ FinalStep(j, fin[j]) /\ UNCHANGED <<pc, parts, index>>
        /\ fin'[j] = NextFinal(fin[j])
    BY <1>16, <1>a, Domains DEF RunFinal
  <2>2. pc[j] \notin Working /\ pc[j] \notin {"arm", "publish"} BY <2>1 DEF Finalizing, Working
  <2>3. fin'[j].status = fin[j].status /\ fin'[j].result = fin[j].result
    BY <2>1, <1>a DEF NextFinal, Finalizers
  <2>4. CompletesWithParts(j)' BY <2>1, <2>3, <1>c DEF CompletesWithParts, Finalizing
  <2>5. Store
        /\ (hash'[j].status = hash[j].status \/ hash'[j].status \in TerminalStatuses)
        /\ \/ hash'[j].result \in {hash[j].result, NoResult}
           \/ /\ fin[j].status = "completed" /\ hash'[j].result = fin[j].result
              /\ hash'[j].status \in TerminalStatuses
    BY <2>1, <1>a, FinalStepToken
  <2>6. EndsWith(tokens[j], parts[j]) BY DEF TokenInv
  <2>7. Result BY <2>1, <2>2, <2>5, <2>6, <1>b, <1>c DEF CompletesWithParts
  <2> QED BY <2>1, <2>2, <2>4, <2>5, <2>7, <1>e
<1> QED
  BY <1>2, <1>3, <1>4, <1>5, <1>6, <1>7, <1>8, <1>9, <1>10, <1>11, <1>12, <1>13, <1>14,
     <1>15, <1>16 DEF Run, RunStep

(* Every other step that touches a job.                                      *)
LEMMA TouchedToken ==
  ASSUME "expiry" \notin Faults, TypeInv, TypeOK', NoLateCompletion,
         NEW j \in Jobs, TokenInv(j), Touched(j)
  PROVE  TokenInv(j)'
<1>a. TypeOK /\ hash[j] \in Hashes BY Domains DEF TypeInv
<1>b. hash[j].result # NoResult =>
        /\ pc[j] \notin Working /\ hash[j].status \in TerminalStatuses
        /\ EndsWith(tokens[j], hash[j].result)
  BY DEF TokenInv, ResultInv, IsTerminal
<1>c. CompletesWithParts(j) BY DEF TokenInv
<1>d. Finalize("cancelled", NoResult).status # "completed"
      /\ Finalize("failed", NoResult).status # "completed" /\ NoFinal.status # "completed"
  BY DEF Finalize, NoFinal
(* Steps of the API leave the run alone.                                     *)
<1>1. ASSUME UNCHANGED runVars, tokens' = tokens,
             \/ channel'[j] = channel[j]
             \/ \E e \in Events : e.type # "token" /\ channel'[j] = Append(channel[j], e),
             \/ hash'[j].result = NoResult
             \/ hash'[j].result = hash[j].result /\ hash'[j].status = hash[j].status
      PROVE  TokenInv(j)'
  BY <1>1, <1>a, <1>b, <1>c, TokenQuiet DEF runVars, CompletesWithParts, Finalizing
<1>2. CASE CreateJob(j) /\ UNCHANGED runVars
  <2>1. hash'[j].result = NoResult
    BY <1>2, <1>a, Domains DEF CreateJob, CreateRecord, NoHash
  <2> QED BY <1>2, <2>1, <1>1 DEF CreateJob, CreateRecord
<1>3. CASE Enqueue(j) /\ UNCHANGED runVars
  BY <1>3, <1>1 DEF Enqueue, storeVars
<1>4. CASE Cancelled(j) /\ UNCHANGED runVars
  <2>1. PICK c \in Cancellers : target[c] = j /\ (CancelFlag(c) \/ CancelAnnounce(c))
    BY <1>4 DEF Cancelled
  <2>2. CASE CancelFlag(c)
    <3>1. /\ hash'[j] = [hash[j] EXCEPT !.cancel = TRUE]
          /\ UNCHANGED <<tokens, channel>>
      BY <2>1, <2>2, <1>a, Domains DEF CancelFlag, WriteHash
    <3>2. hash'[j].result = hash[j].result /\ hash'[j].status = hash[j].status
      BY <3>1, <1>a DEF Hashes
    <3> QED BY <1>4, <3>1, <3>2, <1>1
  <2>3. CASE CancelAnnounce(c)
    <3>1. StatusEvent("cancelled") \in Events /\ StatusEvent("cancelled").type # "token"
      BY StatusEventType, EventFields
    <3> QED BY <1>4, <2>1, <2>3, <3>1, <1>1, <1>a, Domains DEF CancelAnnounce, Publish
  <2> QED BY <2>1, <2>2, <2>3
(* Steps that leave Redis alone.                                             *)
<1>5. ASSUME UNCHANGED storeVars, CompletesWithParts(j)',
             parts'[j] = parts[j] \/ parts'[j] = <<>>,
             pc'[j] \notin Working
      PROVE  TokenInv(j)'
  BY <1>5, <1>a, <1>b, TokenQuiet DEF storeVars, Working
<1>6. ASSUME NEW w \in Workers, Start(w, j) PROVE TokenInv(j)'
  BY <1>6, <1>5, <1>a, Domains DEF Start, StartRun, CompletesWithParts, Finalizing, Working
<1>7. CASE DiscardJob(j)
  BY <1>7, <1>1 DEF DiscardJob, DiscardRun, storeVars
<1>8. CASE Run(j) BY <1>8, RunToken
<1>9. ASSUME NEW o \in orphans, o.job = j, OrphanFinal(o) PROVE TokenInv(j)'
  <2>1. o.fin \in Finalizers /\ o.fin.status # "completed"
    BY <1>a DEF TypeOK, RunnerTypeOK, NoLateCompletion
  <2>2. FinalStep(j, o.fin) /\ UNCHANGED <<pc, parts, index, fin>> BY <1>9 DEF OrphanFinal
  <2>3. /\ tokens'[j] = tokens[j]
        /\ \/ channel'[j] = channel[j]
           \/ \E e \in Events : e.type # "token" /\ channel'[j] = Append(channel[j], e)
        /\ hash'[j].status = hash[j].status \/ hash'[j].status \in TerminalStatuses
        /\ hash'[j].result \in {hash[j].result, NoResult}
    BY <2>1, <2>2, <1>a, FinalStepToken
  <2>4. CompletesWithParts(j)' BY <2>2, <1>c DEF CompletesWithParts, Finalizing
  <2> QED BY <2>2, <2>3, <2>4, <1>a, <1>b, TokenQuiet
<1>10. CASE RedisFails(j)
  BY <1>10, <1>5, <1>a, <1>d, Domains DEF RedisFails, RedisError, FinalizeAt, EndWith,
     CompletesWithParts, Finalizing, Working
<1>11. CASE KeyExpires(j) BY <1>11 DEF KeyExpires
<1>12. CASE Interrupted(j)
  BY <1>12, <1>5, <1>d DEF Interrupted, CompletesWithParts, Finalizing, Working
<1>13. CASE Lost(j)
  BY <1>13, <1>5, <1>d DEF Lost, CompletesWithParts, Finalizing, Working
<1> QED
  BY <1>2, <1>3, <1>4, <1>6, <1>7, <1>8, <1>9, <1>10, <1>11, <1>12, <1>13 DEF Touched

(* A run interrupted while it awaits finalize(COMPLETED) does not leave it     *)
(* behind: that await is inside the try block.                               *)
LEMMA OrphanToken ==
  ASSUME TypeInv, [Next]_vars, BufferInv
  PROVE  NoLateCompletion'
<1> SUFFICES ASSUME NEW o \in orphans' PROVE o.fin.status # "completed"
  BY DEF NoLateCompletion
<1>1. CASE o \in orphans BY <1>1 DEF BufferInv, NoLateCompletion
<1>2. ASSUME NEW p \in orphans, o = [p EXCEPT !.fin = NextFinal(@)]
      PROVE  o.fin.status # "completed"
  <2>1. p.fin.status # "completed" /\ p \in [job : Jobs, worker : Workers, fin : Finalizers]
    BY DEF BufferInv, NoLateCompletion, TypeInv, TypeOK, RunnerTypeOK
  <2>2. o.fin = NextFinal(p.fin) BY <1>2, <2>1
  <2>3. NextFinal(p.fin).status = p.fin.status BY <2>1 DEF NextFinal, Finalizers
  <2> QED BY <2>1, <2>2, <2>3
<1>3. ASSUME NEW j \in Jobs, pc[j] = "shielded",
             o = [job |-> j, worker |-> owner[j], fin |-> fin[j]]
      PROVE  o.fin.status # "completed"
  BY <1>3 DEF BufferInv, TokenInv, CompletesWithParts, Finalizing
<1> QED BY <1>1, <1>2, <1>3, OrphanFrame DEF TypeInv

LEMMA NextToken ==
  ASSUME "expiry" \notin Faults, TypeInv, BufferInv, [Next]_vars, TypeInv'
  PROVE  BufferInv'
<1>1. NoLateCompletion' BY OrphanToken
<1>2. ASSUME NEW j \in Jobs PROVE TokenInv(j)'
  <2>1. SameJob(j) \/ Touched(j) BY StepFrame DEF TypeInv
  <2> QED BY <2>1, TokenSame, TouchedToken DEF TypeInv, BufferInv
<1> QED BY <1>1, <1>2 DEF BufferInv

LEMMA InitToken == Init => BufferInv
<1> SUFFICES ASSUME Init PROVE BufferInv OBVIOUS
<1>1. ASSUME NEW j \in Jobs PROVE TokenInv(j)
  <2>1. /\ hash[j] = NoHash /\ tokens[j] = <<>> /\ channel[j] = <<>>
        /\ pc[j] = "idle" /\ parts[j] = <<>>
    BY DEF Init, StoreInit, RunnerInit
  <2>2. TokenEvents(j) = {} BY <2>1 DEF TokenEvents
  <2>3. EndsWith(tokens[j], parts[j]) BY <2>1 DEF EndsWith
  <2> QED BY <2>1, <2>2, <2>3
          DEF TokenInv, PushedLast, ResultInv, CompletesWithParts, Finalizing, NoHash
<1>2. NoLateCompletion BY DEF Init, RunnerInit, NoLateCompletion
<1> QED BY <1>1, <1>2 DEF BufferInv

(* The inductive invariant holds in every reachable state.                   *)
THEOREM BufferInvariant ==
  ASSUME "expiry" \notin Faults
  PROVE  Spec => [](TypeInv /\ BufferInv)
<1>1. Init => TypeInv /\ BufferInv BY InitType, InitToken
<1>2. TypeInv /\ BufferInv /\ [Next]_vars => (TypeInv /\ BufferInv)'
  BY NextType, NextToken
<1> QED BY <1>1, <1>2, PTL DEF Spec

(* Whatever crashes, stops, aborts, times out or fails, the result of a       *)
(* completed stream is what its token buffer ends with: no retry, second      *)
(* worker or late finalizer separates the two that run_job and append_token   *)
(* write in different commands.                                              *)
THEOREM ResultIsBuffered ==
  ASSUME "expiry" \notin Faults
  PROVE  Spec => []BufferEndsWithResult
<1>1. ASSUME TypeInv, BufferInv PROVE BufferEndsWithResult
  <2> SUFFICES ASSUME NEW j \in streams, hash[j].result # NoResult
               PROVE  IsSuffix(hash[j].result, tokens[j])
    BY DEF BufferEndsWithResult
  <2>1. j \in Jobs BY <1>1 DEF TypeInv, TypeOK, ArqTypeOK
  <2>2. tokens[j] \in Seq(Delta) /\ hash[j] \in Hashes BY <1>1, <2>1, Domains DEF TypeInv
  <2>3. hash[j].result \in Seq(Delta) BY <2>2 DEF Hashes
  <2>4. EndsWith(tokens[j], hash[j].result)
    BY <1>1, <2>1 DEF BufferInv, TokenInv, ResultInv
  <2> QED BY <2>2, <2>3, <2>4, EndsWithSuffix
<1>2. Spec => [](TypeInv /\ BufferInv) BY BufferInvariant
<1> QED BY <1>1, <1>2, PTL

(* Whatever crashes, stops, aborts, times out or fails, a live token event     *)
(* names the buffer's token under the buffer's position, and no position is   *)
(* published twice or out of order.                                          *)
THEOREM EventsAreBuffered ==
  ASSUME "expiry" \notin Faults
  PROVE  Spec => []TokenEventsFaithful
<1>1. BufferInv => TokenEventsFaithful
  BY DEF BufferInv, TokenInv, EventFaithful, TokenEventsFaithful
<1>2. Spec => [](TypeInv /\ BufferInv) BY BufferInvariant
<1> QED BY <1>1, <1>2, PTL
=============================================================================
