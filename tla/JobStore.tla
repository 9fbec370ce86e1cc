------------------------------ MODULE JobStore ------------------------------
(***************************************************************************)
(* The Redis data of a job, and the commands lsm.job_store.JobStore issues  *)
(* on it.  Redis runs one command (or one MULTI block) at a time, so every  *)
(* operator below is atomic; a method that awaits several commands is a     *)
(* sequence of steps in the modules that call it.                           *)
(***************************************************************************)
EXTENDS Settings, Sequences, FiniteSets

CONSTANT NoResult   \* the value of a missing "result" field

VARIABLES
    hash,      \* hash[j]: the fields of lsm:job:{j}; NoHash when the key is missing
    hashTtl,   \* the jobs whose hash key has an expiry
    tokens,    \* tokens[j]: the list lsm:job:{j}:tokens, <<>> when missing
    tokenTtl,  \* the jobs whose token list has an expiry
    channel    \* channel[j]: everything ever published on lsm:job:{j}:events

storeVars == <<hash, hashTtl, tokens, tokenTtl, channel>>

-----------------------------------------------------------------------------
(* A streamed delta is named by the attempt that received it and by its      *)
(* position in that attempt; its text is irrelevant.                         *)
Delta == Nat \X Nat

ASSUME NoResultAssumption == NoResult \notin Seq(Delta)

TerminalStatuses == {"completed", "failed", "cancelled"}
Statuses == {"queued", "running"} \cup TerminalStatuses

(* "none", 0, NoResult and FALSE stand for a field the hash does not have.   *)
Hashes == [id : BOOLEAN, status : Statuses \cup {"none"}, attempts : Nat,
           result : Seq(Delta) \cup {NoResult}, error : BOOLEAN, cancel : BOOLEAN]

(* Redis keeps no empty hash: a key without fields is a missing key, and     *)
(* HSET on a missing key creates a hash with only the fields it is given.    *)
NoHash == [id |-> FALSE, status |-> "none", attempts |-> 0,
           result |-> NoResult, error |-> FALSE, cancel |-> FALSE]

Events == [type : {"status"}, status : {"running", "cancelled"}]
            \cup [type : {"token"}, index : Nat, delta : Delta]
            \cup [type : {"done", "error"}, status : TerminalStatuses]

StatusEvent(s)   == [type |-> "status", status |-> s]
TokenEvent(i, d) == [type |-> "token", index |-> i, delta |-> d]
TerminalEvent(s) == [type |-> IF s = "failed" THEN "error" ELSE "done", status |-> s]

StoreTypeOK ==
    /\ hash \in [Jobs -> Hashes]
    /\ hashTtl \in SUBSET Jobs
    /\ tokens \in [Jobs -> Seq(Delta)]
    /\ tokenTtl \in SUBSET Jobs
    /\ channel \in [Jobs -> Seq(Events)]

StoreInit ==
    /\ hash = [j \in Jobs |-> NoHash]
    /\ hashTtl = {}
    /\ tokens = [j \in Jobs |-> <<>>]
    /\ tokenTtl = {}
    /\ channel = [j \in Jobs |-> <<>>]

-----------------------------------------------------------------------------
Exists(j) == hash[j] # NoHash

(* get() raises KeyError on a hash that lost its "id".                       *)
Readable(j) == hash[j].id

IsTerminal(j) == hash[j].status \in TerminalStatuses

IsCancelRequested(j) == hash[j].cancel

-----------------------------------------------------------------------------
(* Single commands.                                                          *)

(* create(): HSET, EXPIRE and ZADD in one MULTI block.                       *)
CreateRecord(j) ==
    /\ hash' = [hash EXCEPT ![j] = [NoHash EXCEPT !.id = TRUE, !.status = "queued"]]
    /\ hashTtl' = hashTtl \cup {j}
    /\ UNCHANGED <<tokens, tokenTtl, channel>>

(* HSET or HDEL on the job's hash, which keeps the key's expiry.             *)
WriteHash(j, h) ==
    /\ hash' = [hash EXCEPT ![j] = h]
    /\ UNCHANGED <<hashTtl, tokens, tokenTtl, channel>>

Publish(j, e) ==
    /\ channel' = [channel EXCEPT ![j] = Append(@, e)]
    /\ UNCHANGED <<hash, hashTtl, tokens, tokenTtl>>

(* Fault: LPUSH for RPUSH.                                                   *)
LpushToken(j, d) ==
    /\ tokens' = [tokens EXCEPT ![j] = <<d>> \o @]
    /\ UNCHANGED <<hash, hashTtl, tokenTtl, channel>>

RpushToken(j, d) ==
    /\ tokens' = [tokens EXCEPT ![j] = Append(@, d)]
    /\ UNCHANGED <<hash, hashTtl, tokenTtl, channel>>

(* Fault: a finalize() that relies on the expiry set by create().            *)
ExpireNothing(j) == UNCHANGED storeVars

(* EXPIRE has no effect on a missing key.                                    *)
ExpireHash(j) ==
    /\ hashTtl' = IF Exists(j) THEN hashTtl \cup {j} ELSE hashTtl
    /\ UNCHANGED <<hash, tokens, tokenTtl, channel>>

ExpireTokens(j) ==
    /\ tokenTtl' = IF tokens[j] # <<>> THEN tokenTtl \cup {j} ELSE tokenTtl
    /\ UNCHANGED <<hash, hashTtl, tokens, channel>>

-----------------------------------------------------------------------------
(* finalize(): the five commands in their order, then the reply to the last. *)
FinalSteps == {"hset", "hdel", "expire_hash", "expire_tokens", "publish", "reply"}

Finalizers == [step : FinalSteps, status : TerminalStatuses,
               result : Seq(Delta) \cup {NoResult}]

Finalize(s, r) == [step |-> "hset", status |-> s, result |-> r]

(* update() first sets the fields that have a value ...                      *)
FinalHset(f, h) ==
    [h EXCEPT !.status = f.status,
              !.result = IF f.status = "completed" THEN f.result ELSE @,
              !.error  = IF f.status = "failed" THEN TRUE ELSE @]

(* ... and then drops, in a second command, those that are None.             *)
FinalHdel(f, h) ==
    [h EXCEPT !.result = IF f.status = "completed" THEN @ ELSE NoResult,
              !.error  = IF f.status = "failed" THEN @ ELSE FALSE]

(* Fault: the final event goes out first, the record follows.                *)
AnnounceFirst(j, f) ==
    \/ f.step = "hset" /\ Publish(j, TerminalEvent(f.status))
    \/ f.step = "hdel" /\ WriteHash(j, FinalHdel(f, hash[j]))
    \/ f.step = "expire_hash" /\ ExpireHash(j)
    \/ f.step = "expire_tokens" /\ ExpireTokens(j)
    \/ f.step = "publish" /\ WriteHash(j, FinalHset(f, hash[j]))

FinalStep(j, f) ==
    \/ f.step = "hset" /\ WriteHash(j, FinalHset(f, hash[j]))
    \/ f.step = "hdel" /\ WriteHash(j, FinalHdel(f, hash[j]))
    \/ f.step = "expire_hash" /\ ExpireHash(j)
    \/ f.step = "expire_tokens" /\ ExpireTokens(j)
    \/ f.step = "publish" /\ Publish(j, TerminalEvent(f.status))

(* Fault: a finalize() that publishes nothing.                               *)
SkipPublish(f) ==
    [f EXCEPT !.step = CASE f.step = "hset" -> "hdel"
                         [] f.step = "hdel" -> "expire_hash"
                         [] f.step = "expire_hash" -> "expire_tokens"
                         [] OTHER -> "reply"]

NextFinal(f) ==
    [f EXCEPT !.step = CASE f.step = "hset" -> "hdel"
                         [] f.step = "hdel" -> "expire_hash"
                         [] f.step = "expire_hash" -> "expire_tokens"
                         [] f.step = "expire_tokens" -> "publish"
                         [] OTHER -> "reply"]

-----------------------------------------------------------------------------
(* Redis drops a key whose expiry has passed, and the expiry with it.        *)
DropHash(j) ==
    /\ j \in hashTtl
    /\ hash' = [hash EXCEPT ![j] = NoHash]
    /\ hashTtl' = hashTtl \ {j}
    /\ UNCHANGED <<tokens, tokenTtl, channel>>

DropTokens(j) ==
    /\ j \in tokenTtl
    /\ tokens' = [tokens EXCEPT ![j] = <<>>]
    /\ tokenTtl' = tokenTtl \ {j}
    /\ UNCHANGED <<hash, hashTtl, channel>>
=============================================================================
