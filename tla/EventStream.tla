----------------------------- MODULE EventStream ----------------------------
(***************************************************************************)
(* The readers of a job: SSE connections (streaming.stream_job_events), which *)
(* replay the token buffer and then follow the job's channel, and the waiters *)
(* of sync mode (streaming.wait_for_completion).  A subscriber receives what  *)
(* is published after its SUBSCRIBE, in order: cursor[c] counts the events of *)
(* the channel that c has received or missed.                               *)
(***************************************************************************)
EXTENDS JobStore

CONSTANTS
    Clients,       \* SSE clients
    Waiters,       \* POST /jobs requests in sync mode
    MaxReconnects  \* bound: reconnections of one client

ASSUME ReconnectAssumption == MaxReconnects \in Nat

VARIABLES
    spc,        \* spc[c]: the await of c's connection; "away" when it has none
    follows,    \* follows[c]: the job c streams
    cursor,     \* cursor[c]: position in the channel
    next,       \* next[c]: last_index + 1
    got,        \* got[c]: the <<index, delta>> pairs c received, over all connections
    final,      \* final[c]: status of the record read last, "none" or "missing"
    reconnects, \* reconnects[c]: reconnections so far
    wpc,        \* wpc[w]: the await of waiter w
    awaits,     \* awaits[w]: its job
    wcursor,    \* wcursor[w]: position in the channel
    answer      \* answer[w]: status of the record returned, "none" or "missing"

sseVars == <<spc, follows, cursor, next, got, final, reconnects>>
waitVars == <<wpc, awaits, wcursor, answer>>
readerVars == <<sseVars, waitVars>>

Steps == {"away", "route", "get", "subscribe", "replay", "check", "drain", "tail",
          "reread", "closed"}
WaitSteps == {"get", "subscribe", "recheck", "listen", "reread", "returned"}
Seen == Statuses \cup {"none", "missing"}

ReaderTypeOK ==
    /\ spc \in [Clients -> Steps]
    /\ follows \in [Clients -> Jobs]
    /\ cursor \in [Clients -> Nat]
    /\ next \in [Clients -> Nat]
    /\ got \in [Clients -> Seq(Nat \X Delta)]
    /\ final \in [Clients -> Seen]
    /\ reconnects \in [Clients -> 0..MaxReconnects]
    /\ wpc \in [Waiters -> WaitSteps]
    /\ awaits \in [Waiters -> Jobs]
    /\ wcursor \in [Waiters -> Nat]
    /\ answer \in [Waiters -> Seen]

ReaderInit ==
    /\ spc = [c \in Clients |-> "route"]
    /\ follows \in [Clients -> Jobs]
    /\ cursor = [c \in Clients |-> 0]
    /\ next = [c \in Clients |-> 0]
    /\ got = [c \in Clients |-> <<>>]
    /\ final = [c \in Clients |-> "none"]
    /\ reconnects = [c \in Clients |-> 0]
    /\ wpc = [w \in Waiters |-> "get"]
    /\ awaits \in [Waiters -> Jobs]
    /\ wcursor = [w \in Waiters |-> 0]
    /\ answer = [w \in Waiters |-> "none"]

RecordSeen(j) == IF Readable(j) THEN hash[j].status ELSE "missing"

(* get() returns None for a missing record and raises for a partial one.     *)
Broken(j) == Exists(j) /\ ~Readable(j)

-----------------------------------------------------------------------------
(* GET /jobs/{id}/stream.                                                    *)
Move(c, l) ==
    /\ spc' = [spc EXCEPT ![c] = l]
    /\ UNCHANGED <<follows, cursor, next, got, final, reconnects>>

(* An unknown job is answered with 404 by the route, and with an error event  *)
(* by the generator, which reads the record again.                          *)
StreamGet(c) ==
    /\ spc[c] \in {"route", "get"}
    /\ IF ~Readable(follows[c]) THEN Move(c, "closed")
       ELSE IF spc[c] = "route" THEN Move(c, "get") ELSE Move(c, "subscribe")

StreamSubscribe(c) ==
    /\ spc[c] = "subscribe"
    /\ cursor' = [cursor EXCEPT ![c] = Len(channel[follows[c]])]
    /\ spc' = [spc EXCEPT ![c] = "replay"]
    /\ UNCHANGED <<follows, next, got, final, reconnects>>

(* The tokens of the buffer from position n on, under their positions.       *)
Replay(j, n) ==
    [k \in 1..(IF Len(tokens[j]) > n THEN Len(tokens[j]) - n ELSE 0)
        |-> <<n + k - 1, tokens[j][n + k]>>]

(* The client receives the tokens s.                                         *)
Receive(c, s) ==
    /\ got' = [got EXCEPT ![c] = @ \o s]
    /\ next' = [next EXCEPT ![c] = IF s = <<>> THEN @ ELSE s[Len(s)][1] + 1]

StreamReplay(c) ==
    /\ spc[c] \in {"replay", "drain"}
    /\ Receive(c, Replay(follows[c], next[c]))
    /\ spc' = [spc EXCEPT ![c] = IF @ = "replay" THEN "check" ELSE "closed"]
    /\ UNCHANGED <<follows, cursor, final, reconnects>>

(* Faults: a subscription that follows the replay; no second replay for an    *)
(* ended job; no second read of the record.                                  *)
SubscribeAfterReplay(c) ==
    LET j == follows[c] IN
    /\ spc[c] = "check"
    /\ final' = [final EXCEPT ![c] = RecordSeen(j)]
    /\ cursor' = [cursor EXCEPT ![c] = Len(channel[j])]
    /\ spc' = [spc EXCEPT ![c] = IF Broken(j) THEN "closed"
                                 ELSE IF IsTerminal(j) THEN "drain" ELSE "tail"]
    /\ UNCHANGED <<follows, next, got, reconnects>>

CheckWithoutDrain(c) ==
    LET j == follows[c] IN
    /\ spc[c] = "check"
    /\ final' = [final EXCEPT ![c] = RecordSeen(j)]
    /\ spc' = [spc EXCEPT ![c] = IF Broken(j) \/ IsTerminal(j) THEN "closed" ELSE "tail"]
    /\ UNCHANGED <<follows, cursor, next, got, reconnects>>

TailWithoutCheck(c) ==
    /\ spc[c] = "check"
    /\ Move(c, "tail")

StreamCheck(c) ==
    LET j == follows[c] IN
    /\ spc[c] = "check"
    /\ final' = [final EXCEPT ![c] = RecordSeen(j)]
    /\ spc' = [spc EXCEPT ![c] = IF Broken(j) THEN "closed"
                                 ELSE IF IsTerminal(j) THEN "drain" ELSE "tail"]
    /\ UNCHANGED <<follows, cursor, next, got, reconnects>>

(* Fault: the live tail repeats what the replay has sent.                    *)
TailEverything(c) ==
    LET e == channel[follows[c]][cursor[c] + 1] IN
    /\ spc[c] = "tail"
    /\ cursor[c] < Len(channel[follows[c]])
    /\ cursor' = [cursor EXCEPT ![c] = @ + 1]
    /\ IF e.type = "token"
         THEN Receive(c, <<<<e.index, e.delta>>>>)
         ELSE UNCHANGED <<got, next>>
    /\ spc' = [spc EXCEPT ![c] = IF e.type \in {"done", "error"} THEN "reread" ELSE @]
    /\ UNCHANGED <<follows, final, reconnects>>

(* One message of the live tail; a token the client has is skipped.          *)
StreamTail(c) ==
    LET e == channel[follows[c]][cursor[c] + 1] IN
    /\ spc[c] = "tail"
    /\ cursor[c] < Len(channel[follows[c]])
    /\ cursor' = [cursor EXCEPT ![c] = @ + 1]
    /\ IF e.type = "token" /\ e.index >= next[c]
         THEN Receive(c, <<<<e.index, e.delta>>>>)
         ELSE UNCHANGED <<got, next>>
    /\ spc' = [spc EXCEPT ![c] = IF e.type \in {"done", "error"} THEN "reread" ELSE @]
    /\ UNCHANGED <<follows, final, reconnects>>

(* After DONE or ERROR the record is read again and shown as the final one.  *)
StreamReread(c) ==
    /\ spc[c] = "reread"
    /\ final' = [final EXCEPT ![c] = RecordSeen(follows[c])]
    /\ spc' = [spc EXCEPT ![c] = "closed"]
    /\ UNCHANGED <<follows, cursor, next, got, reconnects>>

(* The connection breaks; in a replay, after some of the tokens.             *)
Disconnect(c) ==
    LET rest == Replay(follows[c], next[c]) IN
    /\ spc[c] \notin {"away", "closed"}
    /\ reconnects[c] < MaxReconnects
    /\ IF spc[c] \in {"replay", "drain"}
         THEN \E n \in 0..Len(rest) : Receive(c, SubSeq(rest, 1, n))
         ELSE UNCHANGED <<got, next>>
    /\ spc' = [spc EXCEPT ![c] = "away"]
    /\ final' = [final EXCEPT ![c] = "none"]
    /\ UNCHANGED <<follows, cursor, reconnects>>

(* Fault: the replay resumes at Last-Event-ID, not after it.                 *)
ReconnectEarly(c) ==
    /\ spc[c] = "away"
    /\ reconnects' = [reconnects EXCEPT ![c] = @ + 1]
    /\ next' = [next EXCEPT ![c] = @ - 1]
    /\ spc' = [spc EXCEPT ![c] = "route"]
    /\ UNCHANGED <<follows, cursor, got, final>>

(* The client comes back with its last token's index as Last-Event-ID.       *)
Reconnect(c) ==
    /\ spc[c] = "away"
    /\ reconnects' = [reconnects EXCEPT ![c] = @ + 1]
    /\ spc' = [spc EXCEPT ![c] = "route"]
    /\ UNCHANGED <<follows, cursor, next, got, final>>

Stream(c) ==
    \/ StreamGet(c) \/ StreamSubscribe(c) \/ StreamReplay(c) \/ StreamCheck(c)
    \/ StreamTail(c) \/ StreamReread(c)

-----------------------------------------------------------------------------
(* wait_for_completion().                                                    *)
WaitGoto(w, l) ==
    /\ wpc' = [wpc EXCEPT ![w] = l]
    /\ UNCHANGED <<awaits, wcursor, answer>>

WaitReturn(w) ==
    /\ answer' = [answer EXCEPT ![w] = RecordSeen(awaits[w])]
    /\ wpc' = [wpc EXCEPT ![w] = "returned"]
    /\ UNCHANGED <<awaits, wcursor>>

WaitGet(w) ==
    LET j == awaits[w] IN
    /\ wpc[w] = "get"
    /\ IF ~Readable(j) \/ IsTerminal(j) THEN WaitReturn(w) ELSE WaitGoto(w, "subscribe")

WaitSubscribe(w) ==
    /\ wpc[w] = "subscribe"
    /\ wcursor' = [wcursor EXCEPT ![w] = Len(channel[awaits[w]])]
    /\ wpc' = [wpc EXCEPT ![w] = "recheck"]
    /\ UNCHANGED <<awaits, answer>>

(* Fault: the record is not read again after the subscription.               *)
WaitBlindly(w) == wpc[w] = "recheck" /\ WaitGoto(w, "listen")

WaitRecheck(w) ==
    /\ wpc[w] = "recheck"
    /\ IF IsTerminal(awaits[w]) \/ Broken(awaits[w]) THEN WaitReturn(w) ELSE WaitGoto(w, "listen")

WaitListen(w) ==
    LET e == channel[awaits[w]][wcursor[w] + 1] IN
    /\ wpc[w] = "listen"
    /\ wcursor[w] < Len(channel[awaits[w]])
    /\ wcursor' = [wcursor EXCEPT ![w] = @ + 1]
    /\ wpc' = [wpc EXCEPT ![w] = IF e.type \in {"done", "error"} THEN "reread" ELSE @]
    /\ UNCHANGED <<awaits, answer>>

(* The deadline passes between two messages.                                 *)
WaitTimeout(w) ==
    /\ wpc[w] = "listen"
    /\ WaitGoto(w, "reread")

WaitReread(w) == wpc[w] = "reread" /\ WaitReturn(w)

Wait(w) ==
    \/ WaitGet(w) \/ WaitSubscribe(w) \/ WaitRecheck(w) \/ WaitListen(w)
    \/ WaitReread(w)
=============================================================================
