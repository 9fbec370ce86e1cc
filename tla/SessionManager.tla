--------------------------- MODULE SessionManager ---------------------------
(***************************************************************************)
(* The whole service: the job pipeline and its readers.                     *)
(***************************************************************************)
EXTENDS JobSystem, EventStream

allVars == <<vars, readerVars>>

SystemInit == Init /\ ReaderInit

(* A client learns the job's id from the response to POST /jobs, and a sync  *)
(* waiter starts when the job is in the queue.                               *)
Read(c) ==
    /\ phase[follows[c]] # "new"
    /\ Stream(c) \/ Reconnect(c)
    /\ UNCHANGED <<vars, waitVars>>

Break(c) ==
    /\ phase[follows[c]] # "new"
    /\ Disconnect(c)
    /\ UNCHANGED <<vars, waitVars>>

Await(w) ==
    /\ phase[awaits[w]] = "enqueued"
    /\ Wait(w)
    /\ UNCHANGED <<vars, sseVars>>

GiveUp(w) ==
    /\ WaitTimeout(w)
    /\ UNCHANGED <<vars, sseVars>>

SystemNext ==
    \/ Next /\ UNCHANGED readerVars
    \/ \E c \in Clients : Read(c) \/ Break(c)
    \/ \E w \in Waiters : Await(w) \/ GiveUp(w)

SystemSpec == SystemInit /\ [][SystemNext]_allVars

(* Readers read on; no deadline is obliged to pass.                          *)
SystemFairSpec ==
    /\ SystemSpec
    /\ Fairness
    /\ \A c \in Clients : WF_allVars(Read(c))
    /\ \A w \in Waiters : WF_allVars(Await(w))

SystemTypeOK == TypeOK /\ ReaderTypeOK

-----------------------------------------------------------------------------
(* A client that follows README's reconnection protocol receives positions    *)
(* that only grow, and under each position the buffer's token, whatever the   *)
(* replay, the live tail and its reconnections contribute.                   *)
NoDuplicates ==
    \A c \in Clients : \A i \in DOMAIN got[c] :
        /\ got[c][i][1] < Len(tokens[follows[c]])
        /\ got[c][i][2] = tokens[follows[c]][got[c][i][1] + 1]
        /\ \A k \in 1..(i - 1) : got[c][k][1] < got[c][i][1]

(* It misses none: the tokens received so far are a prefix of the buffer.     *)
(* README promises "replays only tokens after it, then tails live - no       *)
(* duplicates, no gaps".                                                    *)
NoGaps ==
    \A c \in Clients : \A i \in DOMAIN got[c] : got[c][i][1] = i - 1

(* The closing event shows a terminal record, and comes after every token.   *)
ClosesComplete ==
    \A c \in Clients : spc[c] = "closed" =>
        /\ final[c] \in TerminalStatuses
        /\ final[c] = hash[follows[c]].status
        /\ Len(got[c]) = Len(tokens[follows[c]])

(* A subscriber that has read a live record still has the final event ahead   *)
(* of it: subscribing before the second read leaves no window in which the   *)
(* job can end unnoticed.                                                   *)
FinalAhead(j, n) == \E i \in Ends(j) : i > n

NoLostWakeup ==
    \A j \in Jobs : Announced(j) # "none" =>
        /\ \A c \in Clients : follows[c] = j /\ spc[c] = "tail" => FinalAhead(j, cursor[c])
        /\ \A w \in Waiters : awaits[w] = j /\ wpc[w] = "listen" => FinalAhead(j, wcursor[w])

-----------------------------------------------------------------------------
(* Once the job is in the queue, every stream ends with the final event and   *)
(* every sync request returns without the help of its deadline, unless the   *)
(* code never publishes the final event (Silenced): then a stream that has    *)
(* reached its live tail and a waiter that listens wait for ever.             *)
ReadersReleased ==
    /\ \A c \in Clients :
         phase[follows[c]] = "enqueued" ~>
             spc[c] = "closed" \/ (spc[c] = "tail" /\ Silenced(follows[c]))
    /\ \A w \in Waiters :
         phase[awaits[w]] = "enqueued" ~>
             wpc[w] = "returned" \/ (wpc[w] = "listen" /\ Silenced(awaits[w]))
=============================================================================
