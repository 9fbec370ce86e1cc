---------------------------- MODULE ReaderProofs ----------------------------
(***************************************************************************)
(* What readers of a job receive, for every number of jobs, workers, clients *)
(* and waiters and every bound.                                             *)
(***************************************************************************)
EXTENDS SessionManager, JobOutcomeProofs

-----------------------------------------------------------------------------
(* Readers change nothing of the pipeline: a behavior of the service is one   *)
(* of the pipeline, and keeps its invariants.                                *)
LEMMA SystemStep == [SystemNext]_allVars => [Next]_vars
  BY DEF SystemNext, allVars, Read, Break, Await, GiveUp

LEMMA SystemIsPipeline == SystemSpec => Spec
<1>1. SystemInit => Init BY DEF SystemInit
<1> QED BY <1>1, SystemStep, PTL DEF SystemSpec, Spec

-----------------------------------------------------------------------------
(* What a step leaves alone: at most one reader moves, and then the pipeline  *)
(* rests.                                                                   *)
SameClient(c) ==
    /\ spc'[c] = spc[c] /\ follows'[c] = follows[c] /\ cursor'[c] = cursor[c]
    /\ next'[c] = next[c] /\ got'[c] = got[c] /\ final'[c] = final[c]
    /\ reconnects'[c] = reconnects[c]

SameWaiter(w) ==
    /\ wpc'[w] = wpc[w] /\ awaits'[w] = awaits[w] /\ wcursor'[w] = wcursor[w]
    /\ answer'[w] = answer[w]

ClientMoves(c) ==
    /\ phase[follows[c]] # "new" /\ UNCHANGED vars
    /\ Stream(c) \/ Reconnect(c) \/ Disconnect(c)

WaiterMoves(w) ==
    /\ UNCHANGED vars
    /\ Wait(w) \/ WaitTimeout(w)

LEMMA ReaderDomains ==
  ASSUME SystemTypeOK
  PROVE  /\ spc \in [Clients -> Steps] /\ follows \in [Clients -> Jobs]
         /\ cursor \in [Clients -> Nat] /\ next \in [Clients -> Nat]
         /\ got \in [Clients -> Seq(Nat \X Delta)] /\ final \in [Clients -> Seen]
         /\ reconnects \in [Clients -> 0..MaxReconnects]
         /\ wpc \in [Waiters -> WaitSteps] /\ awaits \in [Waiters -> Jobs]
         /\ wcursor \in [Waiters -> Nat] /\ answer \in [Waiters -> Seen]
  BY DEF SystemTypeOK, ReaderTypeOK

LEMMA ClientFrame ==
  ASSUME SystemTypeOK, NEW d \in Clients, Stream(d) \/ Reconnect(d) \/ Disconnect(d),
         NEW c \in Clients \ {d}
  PROVE  SameClient(c)
<1> USE ReaderDomains DEF SameClient
<1>1. CASE StreamGet(d) BY <1>1 DEF StreamGet, Move
<1>2. CASE StreamSubscribe(d) BY <1>2 DEF StreamSubscribe
<1>3. CASE StreamReplay(d) BY <1>3 DEF StreamReplay, Receive
<1>4. CASE StreamCheck(d) BY <1>4 DEF StreamCheck
<1>5. CASE StreamTail(d) BY <1>5 DEF StreamTail, Receive
<1>6. CASE StreamReread(d) BY <1>6 DEF StreamReread
<1>7. CASE Reconnect(d) BY <1>7 DEF Reconnect
<1>8. CASE Disconnect(d) BY <1>8 DEF Disconnect, Receive
<1> QED BY <1>1, <1>2, <1>3, <1>4, <1>5, <1>6, <1>7, <1>8 DEF Stream

LEMMA WaiterFrame ==
  ASSUME SystemTypeOK, NEW v \in Waiters, Wait(v) \/ WaitTimeout(v), NEW w \in Waiters \ {v}
  PROVE  SameWaiter(w)
<1> USE ReaderDomains DEF SameWaiter, WaitGoto, WaitReturn
<1>1. CASE WaitGet(v) BY <1>1 DEF WaitGet
<1>2. CASE WaitSubscribe(v) BY <1>2 DEF WaitSubscribe
<1>3. CASE WaitRecheck(v) BY <1>3 DEF WaitRecheck
<1>4. CASE WaitListen(v) BY <1>4 DEF WaitListen
<1>5. CASE WaitReread(v) \/ WaitTimeout(v) BY <1>5 DEF WaitReread, WaitTimeout
<1> QED BY <1>1, <1>2, <1>3, <1>4, <1>5 DEF Wait

LEMMA ReaderFrame ==
  ASSUME SystemTypeOK, [SystemNext]_allVars
  PROVE  /\ \A c \in Clients : SameClient(c) \/ ClientMoves(c)
         /\ \A w \in Waiters : SameWaiter(w) \/ WaiterMoves(w)
<1>1. CASE UNCHANGED readerVars
  BY <1>1 DEF readerVars, sseVars, waitVars, SameClient, SameWaiter
<1>2. ASSUME NEW d \in Clients, Read(d) \/ Break(d)
      PROVE  /\ \A c \in Clients : SameClient(c) \/ ClientMoves(c)
             /\ \A w \in Waiters : SameWaiter(w) \/ WaiterMoves(w)
  <2>1. ClientMoves(d) BY <1>2 DEF Read, Break, ClientMoves
  <2>2. \A c \in Clients \ {d} : SameClient(c) BY <2>1, ClientFrame DEF ClientMoves
  <2>3. \A w \in Waiters : SameWaiter(w) BY <1>2 DEF Read, Break, waitVars, SameWaiter
  <2> QED BY <2>1, <2>2, <2>3
<1>3. ASSUME NEW v \in Waiters, Await(v) \/ GiveUp(v)
      PROVE  /\ \A c \in Clients : SameClient(c) \/ ClientMoves(c)
             /\ \A w \in Waiters : SameWaiter(w) \/ WaiterMoves(w)
  <2>1. WaiterMoves(v) BY <1>3 DEF Await, GiveUp, WaiterMoves
  <2>2. \A w \in Waiters \ {v} : SameWaiter(w) BY <2>1, WaiterFrame DEF WaiterMoves
  <2>3. \A c \in Clients : SameClient(c) BY <1>3 DEF Await, GiveUp, sseVars, SameClient
  <2> QED BY <2>1, <2>2, <2>3
<1> QED BY <1>1, <1>2, <1>3 DEF SystemNext, allVars

-----------------------------------------------------------------------------
(* What a step of client c does, seen from c alone: it moves, or it receives  *)
(* the tokens s.                                                            *)
Silent(c) == got'[c] = got[c] /\ next'[c] = next[c]

Gets(c, s) ==
    /\ got'[c] = got[c] \o s
    /\ next'[c] = IF s = <<>> THEN next[c] ELSE s[Len(s)][1] + 1

Opens(c) ==
    /\ Silent(c) /\ cursor'[c] = cursor[c] /\ final'[c] = final[c]
    /\ \/ spc[c] \in {"route", "get"} /\ ~Readable(follows[c]) /\ spc'[c] = "closed"
       \/ spc[c] \in {"route", "get"} /\ spc'[c] \in {"get", "subscribe"}
       \/ spc[c] = "away" /\ spc'[c] = "route"

Subscribes(c) ==
    /\ Silent(c) /\ cursor'[c] = Len(channel[follows[c]]) /\ final'[c] = final[c]
    /\ spc[c] = "subscribe" /\ spc'[c] = "replay"

Replays(c) ==
    /\ Gets(c, Replay(follows[c], next[c]))
    /\ cursor'[c] = cursor[c] /\ final'[c] = final[c]
    /\ \/ spc[c] = "replay" /\ spc'[c] = "check"
       \/ spc[c] = "drain" /\ spc'[c] = "closed"

Checks(c) ==
    /\ Silent(c) /\ cursor'[c] = cursor[c] /\ final'[c] = RecordSeen(follows[c])
    /\ spc[c] = "check"
    /\ spc'[c] = IF Broken(follows[c]) THEN "closed"
                 ELSE IF IsTerminal(follows[c]) THEN "drain" ELSE "tail"

Tails(c) ==
    LET e == channel[follows[c]][cursor[c] + 1] IN
    /\ spc[c] = "tail" /\ cursor[c] < Len(channel[follows[c]])
    /\ cursor'[c] = cursor[c] + 1 /\ final'[c] = final[c]
    /\ spc'[c] = IF e.type \in {"done", "error"} THEN "reread" ELSE "tail"
    /\ IF e.type = "token" /\ e.index >= next[c]
         THEN Gets(c, <<<<e.index, e.delta>>>>) ELSE Silent(c)

Rereads(c) ==
    /\ Silent(c) /\ cursor'[c] = cursor[c] /\ final'[c] = RecordSeen(follows[c])
    /\ spc[c] = "reread" /\ spc'[c] = "closed"

Breaks(c) ==
    /\ spc[c] # "closed" /\ spc'[c] = "away" /\ cursor'[c] = cursor[c] /\ final'[c] = "none"
    /\ \/ Silent(c)
       \/ \E n \in 0..Len(Replay(follows[c], next[c])) :
            Gets(c, SubSeq(Replay(follows[c], next[c]), 1, n))

LEMMA ClientCases ==
  ASSUME SystemTypeOK, NEW c \in Clients, ClientMoves(c)
  PROVE  /\ follows'[c] = follows[c]
         /\ \/ Opens(c) \/ Subscribes(c) \/ Replays(c) \/ Checks(c) \/ Tails(c)
            \/ Rereads(c) \/ Breaks(c)
<1> USE ReaderDomains DEF Silent
<1>1. CASE StreamGet(c) BY <1>1 DEF StreamGet, Move, Opens
<1>2. CASE StreamSubscribe(c) BY <1>2 DEF StreamSubscribe, Subscribes
<1>3. CASE StreamReplay(c) BY <1>3 DEF StreamReplay, Receive, Replays, Gets
<1>4. CASE StreamCheck(c) BY <1>4 DEF StreamCheck, Checks
<1>5. CASE StreamTail(c) BY <1>5 DEF StreamTail, Receive, Tails, Gets
<1>6. CASE StreamReread(c) BY <1>6 DEF StreamReread, Rereads
<1>7. CASE Reconnect(c) BY <1>7 DEF Reconnect, Opens
<1>8. CASE Disconnect(c)
  <2>1. CASE spc[c] \in {"replay", "drain"}
    <3>1. PICK n \in 0..Len(Replay(follows[c], next[c])) :
            Receive(c, SubSeq(Replay(follows[c], next[c]), 1, n))
      BY <1>8, <2>1 DEF Disconnect
    <3>2. Gets(c, SubSeq(Replay(follows[c], next[c]), 1, n)) BY <3>1 DEF Receive, Gets
    <3> QED BY <1>8, <3>2 DEF Disconnect, Breaks
  <2>2. CASE spc[c] \notin {"replay", "drain"} BY <1>8, <2>2 DEF Disconnect, Breaks
  <2> QED BY <2>1, <2>2
<1> QED
  BY <1>1, <1>2, <1>3, <1>4, <1>5, <1>6, <1>7, <1>8 DEF ClientMoves, Stream

WaiterReturns(w) == wpc'[w] = "returned" /\ wcursor'[w] = wcursor[w]

WaiterGoes(w) ==
    \/ WaiterReturns(w)
    \/ wpc[w] = "get" /\ wpc'[w] = "subscribe" /\ wcursor'[w] = wcursor[w]
    \/ wpc[w] = "subscribe" /\ wpc'[w] = "recheck" /\ wcursor'[w] = Len(channel[awaits[w]])
    \/ /\ wpc[w] = "recheck" /\ ~IsTerminal(awaits[w])
       /\ wpc'[w] = "listen" /\ wcursor'[w] = wcursor[w]
    \/ /\ wpc[w] = "listen" /\ wcursor[w] < Len(channel[awaits[w]])
       /\ wcursor'[w] = wcursor[w] + 1
       /\ wpc'[w] = IF channel[awaits[w]][wcursor[w] + 1].type \in {"done", "error"}
                      THEN "reread" ELSE "listen"
    \/ wpc[w] = "listen" /\ wpc'[w] = "reread" /\ wcursor'[w] = wcursor[w]

LEMMA WaiterCases ==
  ASSUME SystemTypeOK, NEW w \in Waiters, WaiterMoves(w)
  PROVE  awaits'[w] = awaits[w] /\ WaiterGoes(w)
<1> USE ReaderDomains DEF WaiterGoes, WaiterReturns, WaitGoto, WaitReturn
<1>1. CASE WaitGet(w) BY <1>1 DEF WaitGet
<1>2. CASE WaitSubscribe(w) BY <1>2 DEF WaitSubscribe
<1>3. CASE WaitRecheck(w) BY <1>3 DEF WaitRecheck
<1>4. CASE WaitListen(w) BY <1>4 DEF WaitListen
<1>5. CASE WaitReread(w) \/ WaitTimeout(w) BY <1>5 DEF WaitReread, WaitTimeout
<1> QED BY <1>1, <1>2, <1>3, <1>4, <1>5 DEF WaiterMoves, Wait

-----------------------------------------------------------------------------
(* Type correctness.  A client that was cut off has a reconnection left.      *)
ReconnectsLeft == \A c \in Clients : spc[c] = "away" => reconnects[c] < MaxReconnects

ReaderTypeInv == SystemTypeOK /\ ReconnectsLeft

LEMMA ReplayIs ==
  ASSUME TypeOK, NEW j \in Jobs, NEW n \in Nat
  PROVE  /\ Replay(j, n) \in Seq(Nat \X Delta)
         /\ Len(Replay(j, n)) = IF Len(tokens[j]) > n THEN Len(tokens[j]) - n ELSE 0
         /\ Len(tokens[j]) \in Nat /\ Len(Replay(j, n)) \in Nat
         /\ \A k \in 1..Len(Replay(j, n)) : Replay(j, n)[k] = <<n + k - 1, tokens[j][n + k]>>
<1>1. tokens[j] \in Seq(Delta) BY Domains
<1>2. PICK m \in Nat : m = IF Len(tokens[j]) > n THEN Len(tokens[j]) - n ELSE 0
  <2>1. Len(tokens[j]) \in Nat BY <1>1
  <2>2. (IF Len(tokens[j]) > n THEN Len(tokens[j]) - n ELSE 0) \in Nat BY <2>1
  <2> QED BY <2>2
<1>3. ASSUME NEW k \in 1..m PROVE n + k - 1 \in Nat /\ tokens[j][n + k] \in Delta
  BY <1>1, <1>2
<1>4. Replay(j, n) = [k \in 1..m |-> <<n + k - 1, tokens[j][n + k]>>] BY <1>2 DEF Replay
<1> QED BY <1>1, <1>2, <1>3, <1>4

LEMMA ReceiveType ==
  ASSUME SystemTypeOK, NEW c \in Clients, NEW s \in Seq(Nat \X Delta), Receive(c, s)
  PROVE  got' \in [Clients -> Seq(Nat \X Delta)] /\ next' \in [Clients -> Nat]
<1>1. got[c] \o s \in Seq(Nat \X Delta) BY ReaderDomains
<1>2. (IF s = <<>> THEN next[c] ELSE s[Len(s)][1] + 1) \in Nat
  <2>1. CASE s # <<>>
    <3>1. s[Len(s)] \in Nat \X Delta BY <2>1
    <3> QED BY <2>1, <3>1
  <2> QED BY <2>1, ReaderDomains
<1>3. got' = [got EXCEPT ![c] = got[c] \o s]
      /\ next' = [next EXCEPT ![c] = IF s = <<>> THEN next[c] ELSE s[Len(s)][1] + 1]
  BY DEF Receive
<1> QED BY <1>1, <1>2, <1>3, ReaderDomains

LEMMA RecordSeenType == ASSUME TypeOK, NEW j \in Jobs PROVE RecordSeen(j) \in Seen
<1>1. hash[j] \in Hashes BY Domains
<1> QED BY <1>1 DEF RecordSeen, Hashes, Seen

LEMMA ClientType ==
  ASSUME ReaderTypeInv, NEW c \in Clients, Stream(c) \/ Reconnect(c) \/ Disconnect(c)
  PROVE  /\ spc' \in [Clients -> Steps] /\ follows' \in [Clients -> Jobs]
         /\ cursor' \in [Clients -> Nat] /\ next' \in [Clients -> Nat]
         /\ got' \in [Clients -> Seq(Nat \X Delta)] /\ final' \in [Clients -> Seen]
         /\ reconnects' \in [Clients -> 0..MaxReconnects]
         /\ ReconnectsLeft'
<1>a. TypeOK /\ SystemTypeOK /\ ReconnectsLeft BY DEF ReaderTypeInv, SystemTypeOK
<1>b. /\ follows[c] \in Jobs /\ channel[follows[c]] \in Seq(Events) /\ cursor[c] \in Nat
      /\ RecordSeen(follows[c]) \in Seen /\ "none" \in Seen
      /\ Replay(follows[c], next[c]) \in Seq(Nat \X Delta)
  BY <1>a, ReaderDomains, Domains, RecordSeenType, ReplayIs DEF Seen
<1> USE <1>a, ReaderDomains DEF Steps, ReconnectsLeft
<1>1. CASE StreamGet(c) BY <1>1 DEF StreamGet, Move
<1>2. CASE StreamSubscribe(c) BY <1>2, <1>b DEF StreamSubscribe
<1>3. CASE StreamReplay(c) BY <1>3, <1>b, ReceiveType DEF StreamReplay
<1>4. CASE StreamCheck(c) BY <1>4, <1>b DEF StreamCheck
<1>5. CASE StreamTail(c)
  <2> DEFINE e == channel[follows[c]][cursor[c] + 1]
  <2>1. e \in Events BY <1>5, <1>b DEF StreamTail
  <2>2. e.type = "token" => <<<<e.index, e.delta>>>> \in Seq(Nat \X Delta)
    BY <2>1 DEF Events, TerminalStatuses
  <2>3. got' \in [Clients -> Seq(Nat \X Delta)] /\ next' \in [Clients -> Nat]
    BY <1>5, <2>2, ReceiveType DEF StreamTail
  <2>4. cursor' \in [Clients -> Nat] /\ UNCHANGED <<follows, final, reconnects>>
    BY <1>5, <1>b DEF StreamTail
  <2>5. spc' \in [Clients -> Steps] /\ spc'[c] # "away" /\ \A d \in Clients \ {c} : spc'[d] = spc[d]
    <3>1. (IF e.type \in {"done", "error"} THEN "reread" ELSE spc[c]) \in Steps \ {"away"}
      BY <1>5 DEF StreamTail
    <3>2. spc' = [spc EXCEPT ![c] = IF e.type \in {"done", "error"} THEN "reread" ELSE spc[c]]
      BY <1>5 DEF StreamTail
    <3> HIDE DEF e, Steps
    <3> QED BY <3>1, <3>2
  <2> QED BY <2>3, <2>4, <2>5
<1>6. CASE StreamReread(c) BY <1>6, <1>b DEF StreamReread
<1>7. CASE Reconnect(c)
  <2>1. reconnects[c] + 1 \in 0..MaxReconnects BY <1>7, ReconnectAssumption DEF Reconnect
  <2> QED BY <1>7, <2>1 DEF Reconnect
<1>8. CASE Disconnect(c)
  <2>1. ASSUME NEW n \in 0..Len(Replay(follows[c], next[c]))
        PROVE  SubSeq(Replay(follows[c], next[c]), 1, n) \in Seq(Nat \X Delta)
    BY <1>b
  <2>2. got' \in [Clients -> Seq(Nat \X Delta)] /\ next' \in [Clients -> Nat]
    BY <1>8, <2>1, ReceiveType DEF Disconnect
  <2> QED BY <1>8, <1>b, <2>2 DEF Disconnect
<1> QED BY <1>1, <1>2, <1>3, <1>4, <1>5, <1>6, <1>7, <1>8 DEF Stream

LEMMA WaiterType ==
  ASSUME SystemTypeOK, NEW w \in Waiters, Wait(w) \/ WaitTimeout(w)
  PROVE  /\ wpc' \in [Waiters -> WaitSteps] /\ awaits' \in [Waiters -> Jobs]
         /\ wcursor' \in [Waiters -> Nat] /\ answer' \in [Waiters -> Seen]
<1>1. /\ channel[awaits[w]] \in Seq(Events) /\ RecordSeen(awaits[w]) \in Seen
  BY ReaderDomains, Domains, RecordSeenType DEF SystemTypeOK
<1> USE <1>1, ReaderDomains DEF WaitSteps, WaitGoto, WaitReturn
<1>2. CASE WaitGet(w) BY <1>2 DEF WaitGet
<1>3. CASE WaitSubscribe(w) BY <1>3 DEF WaitSubscribe
<1>4. CASE WaitRecheck(w) BY <1>4 DEF WaitRecheck
<1>5. CASE WaitListen(w) BY <1>5 DEF WaitListen
<1>6. CASE WaitReread(w) \/ WaitTimeout(w) BY <1>6 DEF WaitReread, WaitTimeout
<1> QED BY <1>2, <1>3, <1>4, <1>5, <1>6 DEF Wait

LEMMA NextReaderType ==
  ASSUME ReaderTypeInv, TypeOK', [SystemNext]_allVars
  PROVE  ReaderTypeInv'
<1>1. CASE UNCHANGED readerVars
  BY <1>1 DEF readerVars, sseVars, waitVars, ReaderTypeInv, SystemTypeOK, ReaderTypeOK,
     ReconnectsLeft
<1>2. ASSUME NEW c \in Clients, Read(c) \/ Break(c) PROVE ReaderTypeInv'
  <2>1. Stream(c) \/ Reconnect(c) \/ Disconnect(c) BY <1>2 DEF Read, Break
  <2>2. UNCHANGED waitVars BY <1>2 DEF Read, Break
  <2> QED BY <2>1, <2>2, ClientType DEF waitVars, ReaderTypeInv, SystemTypeOK, ReaderTypeOK
<1>3. ASSUME NEW w \in Waiters, Await(w) \/ GiveUp(w) PROVE ReaderTypeInv'
  <2>1. Wait(w) \/ WaitTimeout(w) BY <1>3 DEF Await, GiveUp
  <2>2. UNCHANGED sseVars BY <1>3 DEF Await, GiveUp
  <2> QED
    BY <2>1, <2>2, WaiterType
       DEF sseVars, ReaderTypeInv, SystemTypeOK, ReaderTypeOK, ReconnectsLeft
<1> QED BY <1>1, <1>2, <1>3 DEF SystemNext, allVars

LEMMA InitReaderType == SystemInit => TypeInv /\ ReaderTypeInv
<1> SUFFICES ASSUME SystemInit PROVE TypeInv /\ ReaderTypeInv OBVIOUS
<1>1. TypeInv /\ TypeOK BY InitType DEF SystemInit, TypeInv
<1>2. ReaderTypeOK /\ ReconnectsLeft
  BY ReconnectAssumption
     DEF SystemInit, ReaderInit, ReaderTypeOK, ReconnectsLeft, Steps, WaitSteps, Seen
<1> QED BY <1>1, <1>2 DEF ReaderTypeInv, SystemTypeOK

THEOREM ReaderTypeInvariant == SystemSpec => [](TypeInv /\ ReaderTypeInv)
<1>1. TypeInv /\ ReaderTypeInv /\ [SystemNext]_allVars => (TypeInv /\ ReaderTypeInv)'
  <2>1. TypeInv /\ [SystemNext]_allVars => TypeInv' BY SystemStep, NextType
  <2>2. TypeInv' => TypeOK' BY DEF TypeInv
  <2> QED BY <2>1, <2>2, NextReaderType
<1> QED BY <1>1, InitReaderType, PTL DEF SystemSpec

(* The variables of the pipeline and of its readers keep their types, for any *)
(* number of readers and reconnections: what a client receives are positions   *)
(* and deltas, and the status it is shown last is one a record can have.      *)
THEOREM SystemTypeCorrect == SystemSpec => []SystemTypeOK
<1>1. ReaderTypeInv => SystemTypeOK BY DEF ReaderTypeInv
<1> QED BY <1>1, ReaderTypeInvariant, PTL

-----------------------------------------------------------------------------
(* No duplicates, when keys do not expire under a job in use.  What a client   *)
(* has received lies below the position it waits for, and names the tokens of  *)
(* the buffer, which only grows.                                            *)
Faithful(c, i) ==
    /\ got[c][i][1] < next[c]
    /\ got[c][i][2] = tokens[follows[c]][got[c][i][1] + 1]
    /\ \A k \in 1..(i - 1) : got[c][k][1] < got[c][i][1]

ReceivedInv(c) ==
    /\ next[c] <= Len(tokens[follows[c]])
    /\ \A i \in DOMAIN got[c] : Faithful(c, i)

AllReceived == \A c \in Clients : ReceivedInv(c)

(* Tokens that c may receive next.                                           *)
Batch(c, s) ==
    /\ s \in Seq(Nat \X Delta)
    /\ \A i \in DOMAIN s :
         /\ next[c] <= s[i][1] /\ s[i][1] < Len(tokens[follows[c]])
         /\ s[i][2] = tokens[follows[c]][s[i][1] + 1]
         /\ \A k \in 1..(i - 1) : s[k][1] < s[i][1]

LEMMA TokensGrow ==
  ASSUME "expiry" \notin Faults, TypeOK, TypeOK', [Next]_vars, NEW j \in Jobs
  PROVE  /\ Len(tokens[j]) <= Len(tokens'[j])
         /\ \A i \in 1..Len(tokens[j]) : tokens'[j][i] = tokens[j][i]
<1>0. tokens[j] \in Seq(Delta) /\ Len(tokens[j]) \in Nat BY Domains
<1>1. CASE tokens'[j] = tokens[j] BY <1>0, <1>1
<1>2. ASSUME NEW d \in Delta, tokens'[j] = Append(tokens[j], d)
      PROVE  /\ Len(tokens[j]) <= Len(tokens'[j])
             /\ \A i \in 1..Len(tokens[j]) : tokens'[j][i] = tokens[j][i]
  BY <1>0, <1>2
<1>3. CASE Run(j)
  <2>1. CASE PushToken(j)
    <3>1. parts[j] \in Seq(Delta) /\ tries[j] \in Nat
      BY Domains, SettingsAssumption DEF MaxTries
    <3>2. <<tries[j], Len(parts[j]) + 1>> \in Delta BY <3>1 DEF Delta
    <3> QED BY <2>1, <3>2, <1>2, Domains DEF PushToken, RpushToken
  <2>2. CASE ~PushToken(j)
    <3>1. CASE RunFinal(j) BY <3>1, <1>1, Domains, FinalStepCases DEF RunFinal
    <3>2. CASE ~RunFinal(j)
      BY <3>2, <2>2, <1>3, <1>1
         DEF Run, RunStep, GetRecord, CheckCancel, MarkRunning, AnnounceRunning, EnterTry,
             CallReturns, ReceiveChunk, StreamEnds, PollCancel, ArmTokens, PublishToken,
             CallFailsTransiently, CallFails, Requeue, RaiseRetry, EndFinal, EndRun,
             storeVars, WriteHash, Publish, ExpireTokens
    <3> QED BY <3>1, <3>2
  <2> QED BY <2>1, <2>2
<1>4. CASE SettledLate(j)
  <2>1. PICK o \in orphans : FinalStep(j, o.fin) BY <1>4 DEF SettledLate
  <2>2. o.fin \in Finalizers BY DEF TypeOK, RunnerTypeOK
  <2> QED BY <2>1, <2>2, <1>1, FinalStepCases
<1>5. CASE \/ Submitted(j) \/ Queued(j) \/ Flagged(j) \/ Noticed(j) \/ Started(j)
           \/ Discarded(j) \/ Failed(j) \/ Interrupted(j) \/ Lost(j) \/ SameJob(j)
  BY <1>5, <1>1
     DEF Submitted, Queued, Flagged, Noticed, Started, Discarded, Failed, Interrupted, Lost,
         SameJob, storeVars
<1> QED BY <1>3, <1>4, <1>5, StepFrame, TouchedCases DEF Dropped

LEMMA GetsBatch ==
  ASSUME SystemTypeOK, NEW c \in Clients, ReceivedInv(c), UNCHANGED vars,
         follows'[c] = follows[c], NEW s, Batch(c, s), Gets(c, s)
  PROVE  ReceivedInv(c)'
<1>1. /\ got[c] \in Seq(Nat \X Delta) /\ next[c] \in Nat /\ s \in Seq(Nat \X Delta)
      /\ Len(got[c]) \in Nat /\ Len(s) \in Nat /\ tokens' = tokens
      /\ Len(tokens[follows[c]]) \in Nat
  BY ReaderDomains, Domains DEF Batch, vars, storeVars, SystemTypeOK
<1>2. CASE s = <<>>
  <2>1. got'[c] = got[c] /\ next'[c] = next[c] BY <1>1, <1>2 DEF Gets
  <2> QED BY <2>1, <1>1 DEF ReceivedInv, Faithful
<1>3. CASE s # <<>>
  <2>1. Len(s) \in DOMAIN s /\ next'[c] = s[Len(s)][1] + 1 BY <1>1, <1>3 DEF Gets
  <2>2. \A i \in DOMAIN s : s[i][1] \in Nat BY <1>1
  <2>3. next[c] <= s[Len(s)][1] /\ next'[c] <= Len(tokens[follows[c]]) /\ next[c] < next'[c]
    BY <1>1, <2>1, <2>2 DEF Batch
  <2>4. ASSUME NEW i \in DOMAIN got'[c] PROVE Faithful(c, i)'
    <3>1. /\ DOMAIN got'[c] = 1..(Len(got[c]) + Len(s))
          /\ \A n \in 1..Len(got[c]) : got'[c][n] = got[c][n]
          /\ \A n \in 1..Len(s) : got'[c][Len(got[c]) + n] = s[n]
      BY <1>1, SMTT(60) DEF Gets
    <3>2. CASE i \in 1..Len(got[c])
      <4>1. Faithful(c, i) /\ got[c][i][1] \in Nat BY <1>1, <3>2 DEF ReceivedInv
      <4>2. \A k \in 1..(i - 1) : k \in 1..Len(got[c]) BY <1>1, <3>2
      <4>3. got[c][i][1] < next'[c] BY <1>1, <2>1, <2>2, <2>3, <4>1 DEF Faithful
      <4> QED BY <1>1, <3>1, <3>2, <4>1, <4>2, <4>3 DEF Faithful
    <3>3. ASSUME NEW n \in 1..Len(s), i = Len(got[c]) + n PROVE Faithful(c, i)'
      <4>1. /\ got'[c][i] = s[n] /\ s[n][1] \in Nat /\ s[Len(s)][1] \in Nat
            /\ next[c] <= s[n][1] /\ s[n][2] = tokens[follows[c]][s[n][1] + 1]
        BY <1>1, <2>1, <2>2, <3>1, <3>3, SMTT(60) DEF Batch
      <4>2. s[n][1] <= s[Len(s)][1]
        <5>1. CASE n = Len(s) BY <4>1, <5>1
        <5>2. CASE n \in 1..(Len(s) - 1)
          <6>1. \A k \in 1..(Len(s) - 1) : s[k][1] < s[Len(s)][1] BY <2>1 DEF Batch
          <6>2. s[n][1] < s[Len(s)][1] BY <5>2, <6>1
          <6> QED BY <4>1, <6>2
        <5> QED BY <5>1, <5>2, <1>1
      <4>3. ASSUME NEW k \in 1..(i - 1) PROVE got'[c][k][1] < s[n][1]
        <5>1. CASE k \in 1..Len(got[c])
          <6>1. got'[c][k] = got[c][k] /\ got[c][k][1] < next[c] /\ got[c][k][1] \in Nat
            BY <1>1, <3>1, <5>1, SMTT(60) DEF ReceivedInv, Faithful
          <6> DEFINE low == got[c][k][1]
                     high == s[n][1]
          <6>2. low \in Nat /\ high \in Nat /\ next[c] \in Nat /\ low < next[c] /\ next[c] <= high
            BY <1>1, <4>1, <6>1
          <6> HIDE DEF low, high
          <6>3. low < high BY <6>2
          <6> QED BY <6>1, <6>3 DEF low, high
        <5>2. ASSUME NEW m \in 1..(n - 1), k = Len(got[c]) + m PROVE got'[c][k][1] < s[n][1]
          <6>0. m \in 1..Len(s) BY <1>1
          <6>1. m \in 1..Len(s) /\ got'[c][k] = s[m] BY <6>0, <3>1, <5>2
          <6>2. s[m][1] < s[n][1] BY <1>1 DEF Batch
          <6> QED BY <6>1, <6>2
        <5>3. k \in 1..Len(got[c]) \/ k - Len(got[c]) \in 1..(n - 1)
          <6> DEFINE a == Len(got[c])
          <6>1. a \in Nat /\ n \in Nat /\ i = a + n BY <1>1, <3>3
          <6>2. k \in 1..((a + n) - 1) BY <6>1
          <6> HIDE DEF a
          <6>3. k \in 1..a \/ k - a \in 1..(n - 1) BY <6>1, <6>2
          <6> QED BY <6>3 DEF a
        <5>4. k = Len(got[c]) + (k - Len(got[c])) BY <1>1
        <5> QED BY <5>1, <5>2, <5>3, <5>4
      <4>4. s[n][1] < next'[c] BY <2>1, <4>1, <4>2
      <4> QED BY <1>1, <4>1, <4>3, <4>4 DEF Faithful
    <3>4. i \in 1..Len(got[c]) \/ i - Len(got[c]) \in 1..Len(s) BY <1>1, <3>1
    <3>5. i = Len(got[c]) + (i - Len(got[c])) BY <1>1, <3>1
    <3> QED BY <3>2, <3>3, <3>4, <3>5
  <2> QED BY <1>1, <2>3, <2>4 DEF ReceivedInv
<1> QED BY <1>2, <1>3

(* A replay, broken off or not, and a live token the client does not have.    *)
LEMMA ReplayBatch ==
  ASSUME SystemTypeOK, NEW c \in Clients, NEW n \in 0..Len(Replay(follows[c], next[c]))
  PROVE  Batch(c, SubSeq(Replay(follows[c], next[c]), 1, n))
<1> DEFINE r == Replay(follows[c], next[c])
<1>1. /\ follows[c] \in Jobs /\ next[c] \in Nat /\ TypeOK
  BY ReaderDomains DEF SystemTypeOK
<1>2. /\ r \in Seq(Nat \X Delta) /\ Len(tokens[follows[c]]) \in Nat /\ Len(r) \in Nat
      /\ Len(r) = IF Len(tokens[follows[c]]) > next[c] THEN Len(tokens[follows[c]]) - next[c] ELSE 0
      /\ \A k \in 1..Len(r) : r[k] = <<next[c] + k - 1, tokens[follows[c]][next[c] + k]>>
  BY <1>1, ReplayIs
<1> HIDE DEF r
<1>3. n \in 0..Len(r) BY DEF r
<1>4. /\ SubSeq(r, 1, n) \in Seq(Nat \X Delta) /\ Len(SubSeq(r, 1, n)) = n
      /\ DOMAIN SubSeq(r, 1, n) = 1..n
      /\ \A k \in 1..n : SubSeq(r, 1, n)[k] = r[k]
  BY <1>2, <1>3, SMTT(60)
<1>5. ASSUME NEW k \in 1..n
      PROVE  /\ r[k][1] = next[c] + k - 1 /\ r[k][2] = tokens[follows[c]][r[k][1] + 1]
             /\ next[c] <= r[k][1] /\ r[k][1] < Len(tokens[follows[c]])
  <2>1. k \in 1..Len(r) BY <1>2, <1>3
  <2>2. r[k][1] = next[c] + k - 1 /\ r[k][2] = tokens[follows[c]][next[c] + k]
    BY <1>2, <2>1
  <2>3. (next[c] + k - 1) + 1 = next[c] + k BY <1>1
  <2>4. Len(tokens[follows[c]]) > next[c] /\ k <= Len(tokens[follows[c]]) - next[c]
    BY <1>2, <2>1
  <2>5. next[c] <= next[c] + k - 1 /\ next[c] + k - 1 < Len(tokens[follows[c]])
    BY <1>1, <1>2, <2>1, <2>4, SMTT(60)
  <2>6. r[k][2] = tokens[follows[c]][r[k][1] + 1] BY <2>2, <2>3
  <2> QED BY <2>2, <2>5, <2>6
<1>6. ASSUME NEW k \in 1..n, NEW m \in 1..n, k < m PROVE r[k][1] < r[m][1]
  <2> DEFINE a == next[c]
  <2>1. r[k][1] = a + k - 1 /\ r[m][1] = a + m - 1 BY <1>5
  <2>2. a \in Nat /\ k \in Nat /\ m \in Nat BY <1>1, <1>3
  <2> HIDE DEF a
  <2>3. a + k - 1 < a + m - 1 BY <1>6, <2>2
  <2> QED BY <2>1, <2>3
<1> DEFINE b == SubSeq(r, 1, n)
<1>7. Batch(c, b)
  <2>1. /\ b \in Seq(Nat \X Delta) /\ Len(b) = n /\ DOMAIN b = 1..n
        /\ \A k \in 1..n : b[k] = r[k]
    BY <1>4
  <2> HIDE DEF b
  <2>2. ASSUME NEW i \in 1..n
        PROVE  /\ next[c] <= b[i][1] /\ b[i][1] < Len(tokens[follows[c]])
               /\ b[i][2] = tokens[follows[c]][b[i][1] + 1]
               /\ \A k \in 1..(i - 1) : b[k][1] < b[i][1]
    <3>1. b[i] = r[i] BY <2>1
    <3>2. ASSUME NEW k \in 1..(i - 1) PROVE b[k][1] < b[i][1]
      <4>1. k \in 1..n /\ k < i BY <1>3
      <4>2. r[k][1] < r[i][1] BY <1>6, <4>1
      <4> QED BY <2>1, <3>1, <4>1, <4>2
    <3> QED BY <1>5, <3>1, <3>2
  <2> QED BY <2>1, <2>2 DEF Batch
<1> QED BY <1>7 DEF r

LEMMA WholeReplay ==
  ASSUME SystemTypeOK, NEW c \in Clients
  PROVE  Batch(c, Replay(follows[c], next[c]))
<1>1. follows[c] \in Jobs /\ next[c] \in Nat /\ TypeOK BY ReaderDomains DEF SystemTypeOK
<1>2. PICK r \in Seq(Nat \X Delta) : r = Replay(follows[c], next[c]) BY <1>1, ReplayIs
<1>3. Len(r) \in 0..Len(r) /\ SubSeq(r, 1, Len(r)) = r BY <1>2
<1> QED BY <1>2, <1>3, ReplayBatch

LEMMA TailBatch ==
  ASSUME SystemTypeOK, BufferInv, NEW c \in Clients, cursor[c] < Len(channel[follows[c]]),
         NEW e, e = channel[follows[c]][cursor[c] + 1], e.type = "token", e.index >= next[c]
  PROVE  /\ cursor[c] + 1 \in TokenEvents(follows[c]) /\ e.index \in Nat
         /\ Batch(c, <<<<e.index, e.delta>>>>)
<1>1. /\ follows[c] \in Jobs /\ next[c] \in Nat /\ TypeOK /\ cursor[c] \in Nat
      /\ channel[follows[c]] \in Seq(Events)
  BY ReaderDomains, Domains DEF SystemTypeOK
<1>2. cursor[c] + 1 \in TokenEvents(follows[c]) BY <1>1 DEF TokenEvents
<1>3. EventFaithful(follows[c], cursor[c] + 1) BY <1>1, <1>2 DEF BufferInv, TokenInv
<1>4. e.index \in Nat /\ e.delta \in Delta BY <1>1, <1>2, TokenEventFields
<1> DEFINE s == <<<<e.index, e.delta>>>>
<1>5. s \in Seq(Nat \X Delta) /\ DOMAIN s = {1} /\ s[1][1] = e.index /\ s[1][2] = e.delta
      /\ 1..(1 - 1) = {}
  BY <1>4
<1> HIDE DEF s
<1>6. Batch(c, s) BY <1>1, <1>3, <1>4, <1>5 DEF Batch, EventFaithful
<1> QED BY <1>2, <1>4, <1>6 DEF s

(* Whatever c receives is such a batch.                                      *)
LEMMA ReceivesBatch ==
  ASSUME SystemTypeOK, BufferInv, NEW c \in Clients, ClientMoves(c)
  PROVE  Silent(c) \/ \E s : Batch(c, s) /\ Gets(c, s)
<1>1. CASE Replays(c) BY <1>1, WholeReplay DEF Replays
<1>2. CASE Breaks(c) BY <1>2, ReplayBatch DEF Breaks
<1>3. CASE Tails(c) BY <1>3, TailBatch DEF Tails
<1>4. CASE Opens(c) \/ Subscribes(c) \/ Checks(c) \/ Rereads(c)
  BY <1>4 DEF Opens, Subscribes, Checks, Rereads
<1> QED BY <1>1, <1>2, <1>3, <1>4, ClientCases

LEMMA NextReceived ==
  ASSUME "expiry" \notin Faults, ReaderTypeInv, TypeOK', BufferInv, [SystemNext]_allVars,
         NEW c \in Clients, ReceivedInv(c)
  PROVE  ReceivedInv(c)'
<1>0. SystemTypeOK /\ TypeOK /\ follows[c] \in Jobs
  BY ReaderDomains DEF ReaderTypeInv, SystemTypeOK
<1>1. CASE SameClient(c)
  <2> DEFINE j == follows[c]
  <2>1. /\ Len(tokens[j]) <= Len(tokens'[j])
        /\ \A i \in 1..Len(tokens[j]) : tokens'[j][i] = tokens[j][i]
    BY <1>0, SystemStep, TokensGrow
  <2>2. /\ tokens[j] \in Seq(Delta) /\ Len(tokens[j]) \in Nat /\ Len(tokens'[j]) \in Nat
        /\ next[c] \in Nat /\ got[c] \in Seq(Nat \X Delta)
    BY <1>0, Domains, ReaderDomains DEF TypeOK, StoreTypeOK
  <2>3. ASSUME NEW i \in DOMAIN got[c] PROVE Faithful(c, i)'
    <3>1. Faithful(c, i) /\ got[c][i][1] \in Nat /\ next[c] <= Len(tokens[j])
      BY <2>2 DEF ReceivedInv
    <3>2. got[c][i][1] < next[c] BY <3>1 DEF Faithful
    <3>3. got[c][i][1] + 1 \in 1..Len(tokens[j])
      <4> DEFINE a == got[c][i][1]
                 m == Len(tokens[j])
      <4>1. a \in Nat /\ next[c] \in Nat /\ m \in Nat /\ a < next[c] /\ next[c] <= m
        BY <2>2, <3>1, <3>2
      <4> HIDE DEF a, m
      <4>2. a + 1 \in 1..m BY <4>1
      <4> QED BY <4>2 DEF a, m
    <3> QED BY <1>1, <2>1, <3>1, <3>3 DEF SameClient, Faithful
  <2> QED BY <1>1, <2>1, <2>2, <2>3 DEF SameClient, ReceivedInv
<1>2. CASE ClientMoves(c)
  <2>1. follows'[c] = follows[c] /\ UNCHANGED vars BY <1>0, <1>2, ClientCases DEF ClientMoves
  <2>2. CASE Silent(c)
    BY <2>1, <2>2 DEF Silent, ReceivedInv, Faithful, vars, storeVars
  <2>3. ASSUME NEW s, Batch(c, s), Gets(c, s) PROVE ReceivedInv(c)'
    BY <1>0, <2>1, <2>3, GetsBatch
  <2> QED BY <1>0, <1>2, <2>2, <2>3, ReceivesBatch
<1> QED BY <1>0, <1>1, <1>2, ReaderFrame

THEOREM ReceivedInvariant ==
  ASSUME "expiry" \notin Faults
  PROVE  SystemSpec => [](ReaderTypeInv /\ AllReceived)
<1>1. SystemInit => AllReceived
  BY DEF SystemInit, Init, StoreInit, ReaderInit, AllReceived, ReceivedInv
<1>2. /\ TypeInv /\ ReaderTypeInv /\ BufferInv /\ AllReceived /\ TypeInv' /\ [SystemNext]_allVars
      => AllReceived'
  BY NextReceived DEF TypeInv, AllReceived
<1>3. SystemSpec => [](TypeInv /\ ReaderTypeInv) BY ReaderTypeInvariant
<1>4. SystemSpec => [](TypeInv /\ BufferInv) BY BufferInvariant, SystemIsPipeline, PTL
<1> QED BY <1>1, <1>2, <1>3, <1>4, PTL DEF SystemSpec

(* Whatever crashes, stops, aborts, times out or fails, and however often its  *)
(* connection breaks, in a replay too, a client that follows the protocol of   *)
(* Last-Event-ID receives the tokens of the buffer under their positions, each *)
(* at most once and in order: the replay, the live tail and the reconnections  *)
(* agree on what a position names.                                          *)
THEOREM TokensReceivedOnce ==
  ASSUME "expiry" \notin Faults
  PROVE  SystemSpec => []NoDuplicates
<1>1. ReaderTypeInv /\ AllReceived => NoDuplicates
  <2> SUFFICES ASSUME ReaderTypeInv, AllReceived,
                      NEW c \in Clients, NEW i \in DOMAIN got[c]
               PROVE  /\ got[c][i][1] < Len(tokens[follows[c]])
                      /\ got[c][i][2] = tokens[follows[c]][got[c][i][1] + 1]
                      /\ \A k \in 1..(i - 1) : got[c][k][1] < got[c][i][1]
    BY DEF NoDuplicates
  <2>1. Faithful(c, i) /\ next[c] <= Len(tokens[follows[c]]) BY DEF AllReceived, ReceivedInv
  <2>2. /\ got[c] \in Seq(Nat \X Delta) /\ next[c] \in Nat /\ tokens[follows[c]] \in Seq(Delta)
    BY ReaderDomains, Domains DEF ReaderTypeInv, SystemTypeOK
  <2>3. got[c][i][1] \in Nat /\ Len(tokens[follows[c]]) \in Nat BY <2>2
  <2> QED BY <2>1, <2>2, <2>3, SMTT(60) DEF Faithful
<1> QED BY <1>1, ReceivedInvariant, PTL

-----------------------------------------------------------------------------
(* No lost wakeup.  A subscriber's position lies within what was published,    *)
(* and whoever listens has read a live record after it subscribed: no final    *)
(* event is behind it.                                                      *)
AheadOf(j, n) == n <= Len(channel[j]) /\ \A i \in Ends(j) : i > n

ClientAlert(c) ==
    /\ spc[c] \in {"replay", "check", "tail"} => cursor[c] <= Len(channel[follows[c]])
    /\ spc[c] = "tail" => AheadOf(follows[c], cursor[c])

WaiterAlert(w) ==
    /\ wpc[w] \in {"recheck", "listen"} => wcursor[w] <= Len(channel[awaits[w]])
    /\ wpc[w] = "listen" => AheadOf(awaits[w], wcursor[w])

AlertInv == (\A c \in Clients : ClientAlert(c)) /\ \A w \in Waiters : WaiterAlert(w)

(* A channel only grows.                                                     *)
LEMMA ChannelGrows ==
  ASSUME TypeOK, TypeOK', [Next]_vars, NEW j \in Jobs
  PROVE  channel'[j] = channel[j] \/ \E e \in Events : channel'[j] = Append(channel[j], e)
<1>0. channel[j] \in Seq(Events) /\ channel'[j] \in Seq(Events) BY DEF TypeOK, StoreTypeOK
<1>1. ASSUME NEW e, channel'[j] = Append(channel[j], e)
      PROVE  \E f \in Events : channel'[j] = Append(channel[j], f)
  <2>1. /\ Append(channel[j], e)[Len(channel[j]) + 1] = e
        /\ Len(channel[j]) + 1 \in DOMAIN Append(channel[j], e)
    BY <1>0
  <2>2. e \in Events BY <1>0, <1>1, <2>1
  <2> QED BY <1>1, <2>2
<1>01. ASSUME NEW f \in Finalizers, FinalStep(j, f)
       PROVE  channel'[j] = channel[j] \/ \E e : channel'[j] = Append(channel[j], e)
  <2>1. channel'[j] = IF f.step = "publish" THEN Append(channel[j], TerminalEvent(f.status))
                                            ELSE channel[j]
    BY <1>01, FinalStepCases
  <2> QED BY <2>1
<1>2. CASE Run(j)
  <2>1. CASE Finalizes(j)
    <3>1. fin[j] \in Finalizers BY Domains
    <3>2. FinalStep(j, fin[j]) BY <2>1 DEF Finalizes
    <3> QED BY <1>01, <1>1, <3>1, <3>2
  <2>2. CASE Publishes(j) BY <2>2, <1>1 DEF Publishes
  <2>3. CASE IsOver(j) \/ Thinks(j) \/ Receives(j) \/ Records(j) \/ Pushes(j) \/ Arms(j)
    BY <2>3 DEF IsOver, Thinks, Receives, Records, Pushes, Arms, storeVars
  <2> QED BY <1>2, <2>1, <2>2, <2>3, RunCases
<1>3. CASE SettledLate(j)
  <2>1. PICK o \in orphans : FinalStep(j, o.fin) BY <1>3 DEF SettledLate
  <2>2. o.fin \in Finalizers BY DEF TypeOK, RunnerTypeOK
  <2> QED BY <1>01, <1>1, <2>1, <2>2
<1>4. CASE Noticed(j) BY <1>4, <1>1 DEF Noticed
<1>5. CASE \/ Submitted(j) \/ Queued(j) \/ Flagged(j) \/ Started(j) \/ Discarded(j)
           \/ Failed(j) \/ Dropped(j) \/ Interrupted(j) \/ Lost(j) \/ SameJob(j)
  BY <1>5
     DEF Submitted, Queued, Flagged, Started, Discarded, Failed, Dropped, DropHash, DropTokens,
         Interrupted, Lost, SameJob, storeVars
<1> QED BY <1>2, <1>3, <1>4, <1>5, StepFrame, TouchedCases

LEMMA StaysAhead ==
  ASSUME TypeOK, TypeOK', [Next]_vars, NEW j \in Jobs, NEW n \in Nat, n <= Len(channel[j])
  PROVE  n <= Len(channel[j])' /\ (AheadOf(j, n) => AheadOf(j, n)')
<1>1. channel[j] \in Seq(Events) /\ Len(channel[j]) \in Nat BY Domains
<1>2. CASE channel'[j] = channel[j] BY <1>2 DEF AheadOf, Ends
<1>3. ASSUME NEW e \in Events, channel'[j] = Append(channel[j], e)
      PROVE  n <= Len(channel[j])' /\ (AheadOf(j, n) => AheadOf(j, n)')
  <2>1. Len(channel'[j]) = Len(channel[j]) + 1 BY <1>1, <1>3
  <2>2. ASSUME NEW i \in Ends(j)', AheadOf(j, n) PROVE i > n
    <3>1. i \in 1..(Len(channel[j]) + 1) /\ channel'[j][i].type \in {"done", "error"}
      BY <1>1, <1>3 DEF Ends
    <3>2. CASE i \in 1..Len(channel[j])
      <4>1. channel'[j][i] = channel[j][i] BY <1>1, <1>3, <3>2
      <4>2. i \in Ends(j) BY <1>1, <3>1, <3>2, <4>1 DEF Ends
      <4> QED BY <2>2, <4>2 DEF AheadOf
    <3>3. CASE i = Len(channel[j]) + 1 BY <1>1, <3>3
    <3> QED BY <1>1, <3>1, <3>2, <3>3
  <2>3. n <= Len(channel[j])' BY <1>1, <2>1
  <2> QED BY <2>2, <2>3 DEF AheadOf
<1> QED BY <1>2, <1>3, ChannelGrows

(* A subscriber that finds a live record has no final event behind it, and     *)
(* one that receives another event has none behind it either.                *)
LEMMA LiveRecord ==
  ASSUME SettledInv, NEW j \in Jobs, ~IsTerminal(j), NEW n, n <= Len(channel[j])
  PROVE  AheadOf(j, n)
<1>1. SettledJob(j) BY DEF SettledInv
<1> QED BY <1>1 DEF SettledJob, AheadOf

LEMMA NextEvent ==
  ASSUME TypeOK, NEW j \in Jobs, NEW n \in Nat, AheadOf(j, n), n < Len(channel[j]),
         channel[j][n + 1].type \notin {"done", "error"}
  PROVE  AheadOf(j, n + 1)
<1>1. channel[j] \in Seq(Events) /\ Len(channel[j]) \in Nat BY Domains
<1>2. ASSUME NEW i \in Ends(j) PROVE i > n + 1
  <2>1. i > n /\ i # n + 1 /\ i \in Nat BY <1>1 DEF AheadOf, Ends
  <2> QED BY <2>1
<1> QED BY <1>1, <1>2 DEF AheadOf

LEMMA NextAlert ==
  ASSUME ReaderTypeInv, TypeOK', SettledInv, AlertInv, [SystemNext]_allVars
  PROVE  AlertInv'
<1>0. SystemTypeOK /\ TypeOK /\ [Next]_vars
  BY SystemStep DEF ReaderTypeInv, SystemTypeOK
<1>1. ASSUME NEW c \in Clients PROVE ClientAlert(c)'
  <2>0. ClientAlert(c) BY DEF AlertInv
  <2>1. follows[c] \in Jobs /\ cursor[c] \in Nat BY <1>0, ReaderDomains
  <2>2. channel[follows[c]] \in Seq(Events) /\ Len(channel[follows[c]]) \in Nat
    BY <1>0, <2>1, Domains
  <2>3. CASE SameClient(c)
    <3>1. PICK j \in Jobs : j = follows[c] /\ j = follows'[c] BY <2>1, <2>3 DEF SameClient
    <3>2. PICK n \in Nat : n = cursor[c] /\ n = cursor'[c] BY <2>1, <2>3 DEF SameClient
    <3>3. n <= Len(channel[j]) => n <= Len(channel[j])' /\ (AheadOf(j, n) => AheadOf(j, n)')
      BY <1>0, StaysAhead
    <3> QED BY <2>0, <2>3, <3>1, <3>2, <3>3 DEF ClientAlert, SameClient, AheadOf
  <2>4. CASE ClientMoves(c)
    <3>1. follows'[c] = follows[c] /\ channel' = channel
      BY <1>0, <2>4, ClientCases DEF ClientMoves, vars, storeVars
    <3>2. CASE Opens(c) \/ Replays(c) \/ Rereads(c) \/ Breaks(c)
      BY <2>0, <3>1, <3>2 DEF Opens, Replays, Rereads, Breaks, ClientAlert
    <3>3. CASE Subscribes(c)
      BY <2>2, <3>1, <3>3 DEF Subscribes, ClientAlert
    <3>4. CASE Checks(c)
      <4>1. cursor[c] <= Len(channel[follows[c]]) BY <2>0, <3>4 DEF Checks, ClientAlert
      <4>2. spc'[c] = "tail" => AheadOf(follows[c], cursor[c])
        BY <2>1, <3>4, <4>1, LiveRecord DEF Checks
      <4> QED BY <3>1, <3>4, <4>1, <4>2 DEF Checks, ClientAlert, AheadOf, Ends
    <3>5. CASE Tails(c)
      <4>1. /\ AheadOf(follows[c], cursor[c]) /\ cursor[c] < Len(channel[follows[c]])
            /\ cursor'[c] = cursor[c] + 1
            /\ spc'[c] = IF channel[follows[c]][cursor[c] + 1].type \in {"done", "error"}
                           THEN "reread" ELSE "tail"
        BY <2>0, <3>5 DEF Tails, ClientAlert
      <4>2. spc'[c] = "tail" => AheadOf(follows[c], cursor[c] + 1)
        BY <1>0, <2>1, <4>1, NextEvent
      <4> QED BY <2>1, <2>2, <3>1, <4>1, <4>2 DEF ClientAlert, AheadOf, Ends
    <3> QED BY <1>0, <2>4, <3>2, <3>3, <3>4, <3>5, ClientCases
  <2> QED BY <1>0, <2>3, <2>4, ReaderFrame
<1>2. ASSUME NEW w \in Waiters PROVE WaiterAlert(w)'
  <2>0. WaiterAlert(w) BY DEF AlertInv
  <2>1. awaits[w] \in Jobs /\ wcursor[w] \in Nat BY <1>0, ReaderDomains
  <2>2. channel[awaits[w]] \in Seq(Events) /\ Len(channel[awaits[w]]) \in Nat
    BY <1>0, <2>1, Domains
  <2>3. CASE SameWaiter(w)
    <3>1. PICK j \in Jobs : j = awaits[w] /\ j = awaits'[w] BY <2>1, <2>3 DEF SameWaiter
    <3>2. PICK n \in Nat : n = wcursor[w] /\ n = wcursor'[w] BY <2>1, <2>3 DEF SameWaiter
    <3>3. n <= Len(channel[j]) => n <= Len(channel[j])' /\ (AheadOf(j, n) => AheadOf(j, n)')
      BY <1>0, StaysAhead
    <3> QED BY <2>0, <2>3, <3>1, <3>2, <3>3 DEF WaiterAlert, SameWaiter, AheadOf
  <2>4. CASE WaiterMoves(w)
    <3>1. awaits'[w] = awaits[w] /\ channel' = channel /\ WaiterGoes(w)
      BY <1>0, <2>4, WaiterCases DEF WaiterMoves, vars, storeVars
    <3>2. CASE wpc'[w] \notin {"recheck", "listen"} BY <3>2 DEF WaiterAlert
    <3>3. CASE wpc'[w] = "recheck"
      BY <2>2, <3>1, <3>3 DEF WaiterGoes, WaiterReturns, WaiterAlert
    <3>4. CASE wpc[w] = "recheck" /\ wpc'[w] = "listen"
      <4>1. ~IsTerminal(awaits[w]) /\ wcursor'[w] = wcursor[w]
        BY <3>1, <3>4 DEF WaiterGoes, WaiterReturns
      <4>2. AheadOf(awaits[w], wcursor[w])
        BY <2>0, <2>1, <3>4, <4>1, LiveRecord DEF WaiterAlert
      <4> QED BY <3>1, <3>4, <4>1, <4>2 DEF WaiterAlert, AheadOf, Ends
    <3>5. CASE wpc[w] = "listen" /\ wpc'[w] = "listen"
      <4>1. /\ wcursor[w] < Len(channel[awaits[w]]) /\ wcursor'[w] = wcursor[w] + 1
            /\ channel[awaits[w]][wcursor[w] + 1].type \notin {"done", "error"}
        BY <3>1, <3>5 DEF WaiterGoes, WaiterReturns
      <4>2. AheadOf(awaits[w], wcursor[w] + 1)
        BY <1>0, <2>0, <2>1, <3>5, <4>1, NextEvent DEF WaiterAlert
      <4> QED BY <3>1, <3>5, <4>1, <4>2 DEF WaiterAlert, AheadOf, Ends
    <3>6. wpc'[w] = "listen" => wpc[w] \in {"recheck", "listen"}
      BY <3>1 DEF WaiterGoes, WaiterReturns
    <3> QED BY <3>2, <3>3, <3>4, <3>5, <3>6
  <2> QED BY <1>0, <2>3, <2>4, ReaderFrame
<1> QED BY <1>1, <1>2 DEF AlertInv

THEOREM AlertInvariant ==
  ASSUME "sigterm" \notin Faults, "expiry" \notin Faults
  PROVE  SystemSpec => [](ReaderTypeInv /\ AlertInv)
<1>1. SystemInit => AlertInv
  BY DEF SystemInit, ReaderInit, AlertInv, ClientAlert, WaiterAlert
<1>2. ReaderTypeInv /\ SettledInv /\ AlertInv /\ TypeInv' /\ [SystemNext]_allVars => AlertInv'
  BY NextAlert DEF TypeInv
<1>3. SystemSpec => [](TypeInv /\ ReaderTypeInv) BY ReaderTypeInvariant
<1>4. SystemSpec => [](TypeInv /\ SettledInv) BY SettledInvariant, SystemIsPipeline, PTL
<1> QED BY <1>1, <1>2, <1>3, <1>4, PTL DEF SystemSpec

(* Whatever crashes, aborts, times out or fails, no client and no sync request *)
(* goes on listening for a final event that was published before: both         *)
(* subscribe before they read the record, and the record is terminal before    *)
(* the event is out.                                                        *)
THEOREM WakeupsReach ==
  ASSUME "sigterm" \notin Faults, "expiry" \notin Faults
  PROVE  SystemSpec => []NoLostWakeup
<1>1. ReaderTypeInv /\ AlertInv => NoLostWakeup
  <2> SUFFICES ASSUME ReaderTypeInv, AlertInv, NEW j \in Jobs, Announced(j) # "none"
               PROVE  /\ \A c \in Clients : follows[c] = j /\ spc[c] = "tail"
                                              => FinalAhead(j, cursor[c])
                      /\ \A w \in Waiters : awaits[w] = j /\ wpc[w] = "listen"
                                              => FinalAhead(j, wcursor[w])
    BY DEF NoLostWakeup
  <2>1. TypeOK BY DEF ReaderTypeInv, SystemTypeOK
  <2>2. PICK i : i \in Ends(j) BY <2>1, AnnouncedNone
  <2>3. ASSUME NEW n, AheadOf(j, n) PROVE FinalAhead(j, n)
    BY <2>2, <2>3 DEF AheadOf, FinalAhead
  <2> QED BY <2>3 DEF AlertInv, ClientAlert, WaiterAlert
<1> QED BY <1>1, AlertInvariant, PTL

-----------------------------------------------------------------------------
(* No gaps, and complete closing, while runs are cut short at the model server *)
(* at most: a token that is in the buffer has been published, or is about to   *)
(* be, and the final event follows all of them.                              *)
Undisturbed == Faults \subseteq {"slow_model"}

AllPublished(j) ==
    \A n \in 0..(Len(tokens[j]) - 1) :
        \/ pc[j] \in {"arm", "publish"} /\ index[j] = n
        \/ \E k \in TokenEvents(j) : channel[j][k].index = n

EndsLast(j) == \A i \in Ends(j) : \A k \in TokenEvents(j) : k < i

PublishedInv == \A j \in Jobs : AllPublished(j) /\ EndsLast(j)

PipelineInv == TypeInv /\ BufferInv /\ SettledInv /\ StrandInv /\ LifecycleInv

LEMMA UndisturbedFaults ==
  Undisturbed =>
    /\ SafeFaults /\ OnlyLosesWorkers
    /\ \A f \in {"abort", "slow_redis", "redis", "expiry", "sigterm", "crash"} : f \notin Faults
  BY DEF Undisturbed, SafeFaults, OnlyLosesWorkers

THEOREM PipelineInvariant ==
  ASSUME Undisturbed
  PROVE  Spec => []PipelineInv
<1>1. SafeFaults /\ OnlyLosesWorkers /\ "expiry" \notin Faults /\ "sigterm" \notin Faults
  BY UndisturbedFaults
<1>2. Spec => [](TypeInv /\ BufferInv) BY <1>1, BufferInvariant
<1>3. Spec => [](TypeInv /\ SettledInv) BY <1>1, SettledInvariant
<1>4. Spec => [](TypeInv /\ StrandInv) BY <1>1, StrandInvariant
<1>5. Spec => [](TypeInv /\ LifecycleInv) BY <1>1, LifecycleInvariant
<1>6. TypeInv /\ BufferInv /\ SettledInv /\ StrandInv /\ LifecycleInv => PipelineInv
  BY DEF PipelineInv
<1> QED BY <1>2, <1>3, <1>4, <1>5, <1>6, PTL

(* A step that neither pushes nor publishes a token of j.                    *)
QuietStep(j) ==
    /\ tokens'[j] = tokens[j]
    /\ \/ channel'[j] = channel[j]
       \/ \E e \in Events : e.type # "token" /\ channel'[j] = Append(channel[j], e)
    /\ pc[j] \in {"arm", "publish"} => pc'[j] \in {"arm", "publish"} /\ index'[j] = index[j]

LEMMA QuietRun ==
  ASSUME TypeOK, NEW j \in Jobs, Run(j)
  PROVE  PushToken(j) \/ PublishToken(j) \/ QuietStep(j)
<1>1. CASE GetRecord(j) \/ CheckCancel(j) \/ EnterTry(j)
  BY <1>1 DEF GetRecord, CheckCancel, EnterTry, storeVars, QuietStep
<1>2. CASE CallReturns(j) \/ StreamEnds(j) \/ ReceiveChunk(j) \/ PollCancel(j)
  BY <1>2 DEF CallReturns, StreamEnds, ReceiveChunk, PollCancel, storeVars, QuietStep
<1>3. CASE CallFailsTransiently(j) \/ CallFails(j) \/ RaiseRetry(j)
  BY <1>3 DEF CallFailsTransiently, CallFails, RaiseRetry, storeVars, QuietStep
<1>4. CASE EndFinal(j) \/ EndRun(j)
  BY <1>4 DEF EndFinal, EndRun, Finalizing, storeVars, QuietStep
<1>5. CASE MarkRunning(j) \/ Requeue(j)
  BY <1>5 DEF MarkRunning, Requeue, WriteHash, QuietStep
<1>6. CASE AnnounceRunning(j)
  <2>1. StatusEvent("running") \in Events /\ StatusEvent("running").type # "token"
    BY StatusEventType, EventFields
  <2> QED BY <1>6, <2>1, Domains DEF AnnounceRunning, Publish, QuietStep
<1>7. CASE ArmTokens(j)
  BY <1>7, Domains DEF ArmTokens, ExpireTokens, Goto, QuietStep
<1>8. CASE RunFinal(j)
  <2>1. fin[j] \in Finalizers BY Domains
  <2> QED BY <1>8, <2>1, FinalStepToken DEF RunFinal, Finalizing, QuietStep
<1> QED BY <1>1, <1>2, <1>3, <1>4, <1>5, <1>6, <1>7, <1>8 DEF Run, RunStep

LEMMA QuietOrToken ==
  ASSUME Undisturbed, PipelineInv, [Next]_vars, NEW j \in Jobs
  PROVE  PushToken(j) \/ PublishToken(j) \/ QuietStep(j)
<1>0. TypeOK /\ aborts = {} /\ orphans = {} BY DEF PipelineInv, TypeInv, LifecycleInv
<1>1. CASE SameJob(j) BY <1>1 DEF SameJob, QuietStep
<1>2. CASE (CreateJob(j) \/ Enqueue(j)) /\ UNCHANGED runVars
  BY <1>2 DEF CreateJob, CreateRecord, Enqueue, storeVars, runVars, QuietStep
<1>3. CASE Cancelled(j) /\ UNCHANGED runVars
  <2>1. StatusEvent("cancelled") \in Events /\ StatusEvent("cancelled").type # "token"
    BY StatusEventType, EventFields
  <2> QED
    BY <1>0, <1>3, <2>1, Domains
       DEF Cancelled, CancelFlag, CancelAnnounce, WriteHash, Publish, runVars, QuietStep
<1>4. ASSUME NEW w \in Workers, Start(w, j) PROVE QuietStep(j)
  BY <1>4 DEF Start, StartRun, storeVars, QuietStep
<1>5. CASE DiscardJob(j) BY <1>5 DEF DiscardJob, DiscardRun, storeVars, QuietStep
<1>6. CASE Run(j) BY <1>0, <1>6, QuietRun
<1>7. CASE Interrupted(j)
  <2>1. pc[j] = "call" BY <1>0, <1>7, UndisturbedFaults, InterruptedAtCall
  <2> QED BY <1>7, <2>1 DEF Interrupted, storeVars, QuietStep
<1>8. ~RedisFails(j) /\ ~KeyExpires(j) /\ ~Lost(j)
  BY UndisturbedFaults DEF RedisFails, KeyExpires, Lost
<1> QED BY <1>0, <1>1, <1>2, <1>3, <1>4, <1>5, <1>6, <1>7, <1>8, StepFrame DEF Touched


(* The events of a channel another event is appended to.                      *)
LEMMA TokenEventsAppend ==
  ASSUME TypeOK, NEW j \in Jobs, NEW e \in Events, channel'[j] = Append(channel[j], e)
  PROVE  \E n \in Nat :
           /\ n = Len(channel[j]) + 1 /\ channel'[j][n] = e
           /\ TokenEvents(j)' = IF e.type = "token" THEN TokenEvents(j) \cup {n} ELSE TokenEvents(j)
           /\ Ends(j)' = IF e.type \in {"done", "error"} THEN Ends(j) \cup {n} ELSE Ends(j)
           /\ \A i \in TokenEvents(j) \cup Ends(j) :
                i \in Nat /\ channel'[j][i] = channel[j][i] /\ i < n
<1>1. channel[j] \in Seq(Events) BY Domains
<1>2. PICK n \in Nat : n = Len(channel[j]) + 1 /\ DOMAIN channel[j] = 1..(n - 1)
  BY <1>1
<1>3. /\ DOMAIN channel'[j] = DOMAIN channel[j] \cup {n} /\ n \notin DOMAIN channel[j]
      /\ channel'[j][n] = e /\ \A i \in DOMAIN channel[j] : channel'[j][i] = channel[j][i]
  BY <1>1, <1>2
<1>4. \A i \in DOMAIN channel[j] : i \in Nat /\ i < n BY <1>2
<1> QED BY <1>2, <1>3, <1>4 DEF Ends, TokenEvents

LEMMA QuietPublished ==
  ASSUME TypeOK, NEW j \in Jobs, AllPublished(j), EndsLast(j), QuietStep(j)
  PROVE  AllPublished(j)' /\ EndsLast(j)'
<1>1. ASSUME TokenEvents(j)' = TokenEvents(j),
             \A k \in TokenEvents(j) : channel'[j][k] = channel[j][k]
      PROVE  AllPublished(j)'
  BY <1>1 DEF AllPublished, QuietStep
<1>2. CASE channel'[j] = channel[j]
  <2>1. TokenEvents(j)' = TokenEvents(j) /\ Ends(j)' = Ends(j)
    BY <1>2 DEF TokenEvents, Ends
  <2> QED BY <1>1, <1>2, <2>1 DEF EndsLast
<1>3. ASSUME NEW e \in Events, e.type # "token", channel'[j] = Append(channel[j], e)
      PROVE  AllPublished(j)' /\ EndsLast(j)'
  <2>0. PICK n \in Nat :
          /\ n = Len(channel[j]) + 1 /\ channel'[j][n] = e
          /\ TokenEvents(j)' = IF e.type = "token" THEN TokenEvents(j) \cup {n} ELSE TokenEvents(j)
          /\ Ends(j)' = IF e.type \in {"done", "error"} THEN Ends(j) \cup {n} ELSE Ends(j)
          /\ \A i \in TokenEvents(j) \cup Ends(j) :
               i \in Nat /\ channel'[j][i] = channel[j][i] /\ i < n
    BY <1>3, TokenEventsAppend
  <2>1. /\ TokenEvents(j)' = TokenEvents(j) /\ Ends(j)' \subseteq Ends(j) \cup {n}
        /\ \A i \in TokenEvents(j) : channel'[j][i] = channel[j][i] /\ i < n
    BY <1>3, <2>0
  <2> QED BY <1>1, <2>1 DEF EndsLast
<1> QED BY <1>2, <1>3 DEF QuietStep

LEMMA NextPublished ==
  ASSUME Undisturbed, PipelineInv, PublishedInv, [Next]_vars
  PROVE  PublishedInv'
<1> SUFFICES ASSUME NEW j \in Jobs PROVE AllPublished(j)' /\ EndsLast(j)'
  BY DEF PublishedInv
<1>0. /\ TypeOK /\ AllPublished(j) /\ EndsLast(j) /\ TokenInv(j) /\ StatusAt(j) /\ SettledJob(j)
      /\ Shape
  BY DEF PipelineInv, TypeInv, PublishedInv, BufferInv, LifecycleInv, PromisedJob, SettledInv
<1>1. CASE QuietStep(j) BY <1>0, <1>1, QuietPublished
<1>2. CASE PushToken(j)
  <2> DEFINE d == <<tries[j], Len(parts[j]) + 1>>
  <2>1. /\ pc[j] = "push" /\ pc'[j] = "arm" /\ channel'[j] = channel[j]
        /\ tokens'[j] = Append(tokens[j], d) /\ index'[j] = Len(tokens[j])
    BY <1>0, <1>2, Domains DEF PushToken, RpushToken
  <2>2. Len(tokens'[j]) = Len(tokens[j]) + 1 /\ Len(tokens[j]) \in Nat
    <3>1. tokens[j] \in Seq(Delta) /\ parts[j] \in Seq(Delta) /\ tries[j] \in Nat
      BY <1>0, Domains, SettingsAssumption DEF MaxTries
    <3>2. d \in Delta BY <3>1 DEF Delta
    <3> QED BY <2>1, <3>1, <3>2
  <2>3. TokenEvents(j)' = TokenEvents(j) /\ Ends(j)' = Ends(j)
    BY <2>1 DEF TokenEvents, Ends
  <2>4. ASSUME NEW n \in 0..(Len(tokens'[j]) - 1), n # index'[j]
        PROVE  \E k \in TokenEvents(j) : channel[j][k].index = n
    <3>1. n \in 0..(Len(tokens[j]) - 1) BY <2>1, <2>2, <2>4
    <3> QED BY <1>0, <2>1, <3>1 DEF AllPublished
  <2> QED BY <1>0, <2>1, <2>3, <2>4 DEF AllPublished, EndsLast
<1>3. CASE PublishToken(j)
  <2> DEFINE e == TokenEvent(index[j], parts[j][Len(parts[j])])
  <2>1. /\ pc[j] = "publish" /\ channel'[j] = Append(channel[j], e) /\ tokens'[j] = tokens[j]
    BY <1>0, <1>3, Domains DEF PublishToken, Publish
  <2>2. e \in Events /\ e.type = "token" /\ e.index = index[j]
    <3>1. parts[j] \in Seq(Delta) /\ index[j] \in Nat /\ parts[j] # <<>>
      BY <1>0, <2>1, Domains DEF Shape, RunShape
    <3>2. parts[j][Len(parts[j])] \in Delta BY <3>1
    <3> QED BY <3>1, <3>2, TokenEventType, EventFields
  <2> HIDE DEF e
  <2>0. PICK n \in Nat :
          /\ n = Len(channel[j]) + 1 /\ channel'[j][n] = e
          /\ TokenEvents(j)' = IF e.type = "token" THEN TokenEvents(j) \cup {n} ELSE TokenEvents(j)
          /\ Ends(j)' = IF e.type \in {"done", "error"} THEN Ends(j) \cup {n} ELSE Ends(j)
          /\ \A i \in TokenEvents(j) \cup Ends(j) :
               i \in Nat /\ channel'[j][i] = channel[j][i] /\ i < n
    BY <1>0, <2>1, <2>2, TokenEventsAppend
  <2>3. /\ channel'[j][n] = e /\ TokenEvents(j)' = TokenEvents(j) \cup {n}
        /\ Ends(j)' = Ends(j)
        /\ \A i \in TokenEvents(j) : channel'[j][i] = channel[j][i]
    BY <2>0, <2>2
  <2>4. Ends(j) = {}
    BY <1>0, <2>1 DEF StatusAt, SettledJob, IsTerminal, TerminalStatuses
  <2> QED BY <1>0, <2>1, <2>2, <2>3, <2>4, ZenonT(60) DEF AllPublished, EndsLast
<1> QED BY <1>1, <1>2, <1>3, QuietOrToken

THEOREM PublishedInvariant ==
  ASSUME Undisturbed
  PROVE  Spec => [](PipelineInv /\ PublishedInv)
<1>1. Init => PublishedInv
  <2> SUFFICES ASSUME Init, NEW j \in Jobs PROVE AllPublished(j) /\ EndsLast(j)
    BY DEF PublishedInv
  <2>1. tokens[j] = <<>> /\ channel[j] = <<>> BY DEF Init, StoreInit
  <2>2. 0..(Len(tokens[j]) - 1) = {} /\ Ends(j) = {} BY <2>1 DEF Ends
  <2> QED BY <2>2 DEF AllPublished, EndsLast
<1>2. PipelineInv /\ PublishedInv /\ [Next]_vars => PublishedInv' BY NextPublished
<1>3. Spec => []PipelineInv BY PipelineInvariant
<1> QED BY <1>1, <1>2, <1>3, PTL DEF Spec

-----------------------------------------------------------------------------
(* What a client has are the first tokens, and while it checks or tails it     *)
(* has those of every event it received or missed.                          *)
Gapless(c) ==
    /\ Len(got[c]) = next[c]
    /\ \A i \in DOMAIN got[c] : got[c][i][1] = i - 1

CaughtUp(c) ==
    spc[c] \in {"check", "tail"} =>
        \A k \in TokenEvents(follows[c]) :
            k <= cursor[c] => channel[follows[c]][k].index < next[c]

(* A record read last is the one there is, once it is terminal.              *)
Complete(c) == next[c] = Len(tokens[follows[c]])

ShowsRecord(c) == final[c] = hash[follows[c]].status

Concluding(c) ==
    /\ spc[c] \in {"drain", "reread", "closed"} => IsTerminal(follows[c])
    /\ spc[c] \in {"drain", "closed"} => ShowsRecord(c)
    /\ spc[c] \in {"reread", "closed"} => Complete(c)

ClientInv(c) == Gapless(c) /\ CaughtUp(c) /\ Concluding(c)

AllClientsInv == \A c \in Clients : ClientInv(c)

Consecutive(c, s) ==
    /\ s \in Seq(Nat \X Delta)
    /\ \A i \in DOMAIN s : s[i][1] = next[c] + i - 1

LEMMA GetsConsecutive ==
  ASSUME SystemTypeOK, NEW c \in Clients, Gapless(c), NEW s, Consecutive(c, s), Gets(c, s)
  PROVE  Gapless(c)' /\ next'[c] = next[c] + Len(s)
<1>1. /\ got[c] \in Seq(Nat \X Delta) /\ next[c] \in Nat /\ s \in Seq(Nat \X Delta)
      /\ Len(got[c]) \in Nat /\ Len(s) \in Nat
  BY ReaderDomains DEF Consecutive
<1>2. next'[c] = next[c] + Len(s)
  <2>1. CASE s = <<>> BY <1>1, <2>1 DEF Gets
  <2>2. CASE s # <<>>
    <3>1. Len(s) \in DOMAIN s BY <1>1, <2>2
    <3>2. s[Len(s)][1] = next[c] + Len(s) - 1 BY <3>1 DEF Consecutive
    <3>3. next'[c] = s[Len(s)][1] + 1 BY <2>2 DEF Gets
    <3>4. (next[c] + Len(s) - 1) + 1 = next[c] + Len(s) BY <1>1
    <3> QED BY <3>2, <3>3, <3>4
  <2> QED BY <2>1, <2>2
<1>3. /\ DOMAIN got'[c] = 1..(Len(got[c]) + Len(s)) /\ Len(got'[c]) = Len(got[c]) + Len(s)
      /\ \A n \in 1..Len(got[c]) : got'[c][n] = got[c][n]
      /\ \A n \in 1..Len(s) : got'[c][Len(got[c]) + n] = s[n]
  BY <1>1 DEF Gets
<1>4. ASSUME NEW i \in DOMAIN got'[c] PROVE got'[c][i][1] = i - 1
  <2>0. Len(got[c]) = next[c] BY DEF Gapless
  <2>1. CASE i \in 1..Len(got[c])
    <3>1. got[c][i][1] = i - 1 BY <1>1, <2>1 DEF Gapless
    <3> QED BY <1>3, <2>1, <3>1
  <2>2. ASSUME NEW n \in 1..Len(s), i = Len(got[c]) + n PROVE got'[c][i][1] = i - 1
    <3>1. got'[c][i] = s[n] /\ n \in DOMAIN s BY <1>1, <1>3, <2>2
    <3>2. s[n][1] = next[c] + n - 1 BY <3>1 DEF Consecutive
    <3>3. i - 1 = Len(got[c]) + n - 1 BY <1>1, <2>2
    <3> QED BY <2>0, <3>1, <3>2, <3>3
  <2>3. i \in 1..Len(got[c]) \/ i - Len(got[c]) \in 1..Len(s) BY <1>1, <1>3
  <2>4. i = Len(got[c]) + (i - Len(got[c])) BY <1>1, <1>3
  <2> QED BY <2>1, <2>2, <2>3, <2>4
<1>5. Len(got'[c]) = next'[c] BY <1>2, <1>3 DEF Gapless
<1> QED BY <1>2, <1>4, <1>5 DEF Gapless

LEMMA ReplayConsecutive ==
  ASSUME SystemTypeOK, NEW c \in Clients, NEW n \in 0..Len(Replay(follows[c], next[c]))
  PROVE  Consecutive(c, SubSeq(Replay(follows[c], next[c]), 1, n))
<1> DEFINE r == Replay(follows[c], next[c])
<1>1. /\ follows[c] \in Jobs /\ next[c] \in Nat /\ TypeOK
  BY ReaderDomains DEF SystemTypeOK
<1>2. /\ r \in Seq(Nat \X Delta) /\ Len(r) \in Nat
      /\ \A k \in 1..Len(r) : r[k] = <<next[c] + k - 1, tokens[follows[c]][next[c] + k]>>
  BY <1>1, ReplayIs
<1> HIDE DEF r
<1>3. n \in 0..Len(r) BY DEF r
<1>4. /\ SubSeq(r, 1, n) \in Seq(Nat \X Delta) /\ DOMAIN SubSeq(r, 1, n) = 1..n
      /\ \A k \in 1..n : SubSeq(r, 1, n)[k] = r[k] /\ k \in 1..Len(r)
  BY <1>2, <1>3
<1>5. Consecutive(c, SubSeq(r, 1, n)) BY <1>2, <1>4 DEF Consecutive
<1> QED BY <1>5 DEF r

(* After a whole replay the client has all of the buffer.                    *)
LEMMA ReplayCompletes ==
  ASSUME SystemTypeOK, NEW c \in Clients, Gapless(c), ReceivedInv(c), UNCHANGED vars,
         follows'[c] = follows[c], Gets(c, Replay(follows[c], next[c]))
  PROVE  Gapless(c)' /\ Complete(c)'
<1>1. follows[c] \in Jobs /\ next[c] \in Nat /\ TypeOK BY ReaderDomains DEF SystemTypeOK
<1>2. PICK r \in Seq(Nat \X Delta) : r = Replay(follows[c], next[c]) BY <1>1, ReplayIs
<1>3. Len(r) \in 0..Len(r) /\ SubSeq(r, 1, Len(r)) = r BY <1>2
<1>4. Consecutive(c, r) BY <1>2, <1>3, ReplayConsecutive
<1>5. Gapless(c)' /\ next'[c] = next[c] + Len(r) BY <1>2, <1>4, GetsConsecutive
<1>6. /\ Len(r) = IF Len(tokens[follows[c]]) > next[c] THEN Len(tokens[follows[c]]) - next[c] ELSE 0
      /\ Len(tokens[follows[c]]) \in Nat
  BY <1>1, <1>2, ReplayIs
<1>7. next[c] <= Len(tokens[follows[c]]) BY DEF ReceivedInv
<1>8. next'[c] = Len(tokens[follows[c]]) BY <1>1, <1>5, <1>6, <1>7
<1>9. tokens' = tokens BY DEF vars, storeVars
<1> QED BY <1>5, <1>8, <1>9 DEF Complete

(* A position below that of a token event was published before it.            *)
LEMMA PublishedBefore ==
  ASSUME TypeOK, NEW j \in Jobs, TokenInv(j), AllPublished(j), NEW i \in TokenEvents(j),
         NEW n \in Nat, n < channel[j][i].index
  PROVE  \E k \in TokenEvents(j) : k < i /\ channel[j][k].index = n
<1>1. /\ channel[j][i].index \in Nat /\ Len(tokens[j]) \in Nat
      /\ \A k \in TokenEvents(j) : channel[j][k].index \in Nat /\ k \in Nat
  BY Domains, TokenEventFields DEF TokenEvents
<1>2. EventFaithful(j, i) BY DEF TokenInv
<1>3. n \in 0..(Len(tokens[j]) - 1) BY <1>1, <1>2 DEF EventFaithful
<1>4. ~(pc[j] \in {"arm", "publish"} /\ index[j] = n)
  <2>1. pc[j] \in {"arm", "publish"} => channel[j][i].index < index[j]
    BY DEF TokenInv, PushedLast
  <2> QED BY <1>1, <2>1
<1>5. PICK k \in TokenEvents(j) : channel[j][k].index = n
  BY <1>3, <1>4 DEF AllPublished
<1>6. EventFaithful(j, k) BY DEF TokenInv
<1>7. ~(i < k)
  <2>1. i < k => channel[j][i].index < channel[j][k].index BY <1>6 DEF EventFaithful
  <2> QED BY <1>1, <1>5, <2>1
<1>8. k # i BY <1>1, <1>5
<1> QED BY <1>1, <1>5, <1>7, <1>8

LEMMA TailConsecutive ==
  ASSUME SystemTypeOK, BufferInv, PublishedInv, NEW c \in Clients, CaughtUp(c), spc[c] = "tail",
         cursor[c] < Len(channel[follows[c]]),
         NEW e, e = channel[follows[c]][cursor[c] + 1], e.type = "token", e.index >= next[c]
  PROVE  Consecutive(c, <<<<e.index, e.delta>>>>) /\ e.index = next[c]
<1> DEFINE j == follows[c]
<1>1. /\ j \in Jobs /\ next[c] \in Nat /\ TypeOK /\ cursor[c] \in Nat
  BY ReaderDomains DEF SystemTypeOK
<1>2. cursor[c] + 1 \in TokenEvents(j) /\ e.index \in Nat BY TailBatch
<1>3. TokenInv(j) /\ AllPublished(j) BY <1>1 DEF BufferInv, PublishedInv
<1>4. e.index = next[c]
  <2> SUFFICES ASSUME next[c] < e.index PROVE FALSE BY <1>1, <1>2
  <2>1. PICK k \in TokenEvents(j) : k < cursor[c] + 1 /\ channel[j][k].index = next[c]
    BY <1>1, <1>2, <1>3, PublishedBefore
  <2>2. k \in Nat /\ channel[j][k].index \in Nat BY <1>1, TokenEventFields DEF TokenEvents
  <2>3. k <= cursor[c] BY <1>1, <2>1, <2>2
  <2>4. channel[j][k].index < next[c] BY <2>3 DEF CaughtUp
  <2> QED BY <1>1, <2>1, <2>2, <2>4
<1>5. e.delta \in Delta BY <1>1, <1>2, TokenEventFields
<1> DEFINE s == <<<<e.index, e.delta>>>>
<1>6. s \in Seq(Nat \X Delta) /\ DOMAIN s = {1} /\ s[1][1] = e.index /\ next[c] + 1 - 1 = next[c]
  BY <1>1, <1>2, <1>5
<1> HIDE DEF s
<1>7. Consecutive(c, s) BY <1>4, <1>6 DEF Consecutive
<1> QED BY <1>4, <1>7 DEF s

-----------------------------------------------------------------------------
(* A terminal record keeps its status, and its buffer grows no more.          *)
LEMMA TerminalRests ==
  ASSUME Undisturbed, PipelineInv, TypeOK', [Next]_vars, NEW j \in Jobs, IsTerminal(j)
  PROVE  hash'[j].status = hash[j].status /\ tokens'[j] = tokens[j] /\ IsTerminal(j)'
<1>0. TypeOK /\ LifecycleInv /\ StatusAt(j) /\ OnlyLosesWorkers
  BY UndisturbedFaults DEF PipelineInv, TypeInv, LifecycleInv, PromisedJob
<1>1. hash'[j].status = hash[j].status
  <2>1. Hidden(j) \/ Visible(j) BY <1>0, NextPromised
  <2> QED BY <2>1 DEF Hidden, Visible, IsTerminal, TerminalStatuses
<1>2. ~PushToken(j) /\ ~PublishToken(j)
  BY <1>0 DEF StatusAt, PushToken, PublishToken, IsTerminal, TerminalStatuses
<1>3. tokens'[j] = tokens[j] BY <1>2, QuietOrToken DEF QuietStep
<1> QED BY <1>1, <1>3 DEF IsTerminal

(* The events a client has received or missed stay what they are.             *)
LEMMA PastEvents ==
  ASSUME TypeOK, TypeOK', [Next]_vars, NEW j \in Jobs, NEW n \in Nat, n <= Len(channel[j]),
         NEW k \in TokenEvents(j)', k <= n
  PROVE  k \in TokenEvents(j) /\ channel'[j][k] = channel[j][k]
<1>1. channel[j] \in Seq(Events) /\ Len(channel[j]) \in Nat /\ channel'[j] \in Seq(Events)
  BY Domains DEF TypeOK, StoreTypeOK
<1>2. k \in DOMAIN channel'[j] /\ channel'[j][k].type = "token" /\ k \in Nat
  BY <1>1 DEF TokenEvents
<1>3. CASE channel'[j] = channel[j] BY <1>3 DEF TokenEvents
<1>4. ASSUME NEW e \in Events, channel'[j] = Append(channel[j], e)
      PROVE  k \in TokenEvents(j) /\ channel'[j][k] = channel[j][k]
  <2>1. k \in 1..Len(channel[j]) BY <1>1, <1>2
  <2>2. channel'[j][k] = channel[j][k] BY <1>1, <1>4, <2>1
  <2> QED BY <1>1, <1>2, <2>1, <2>2 DEF TokenEvents
<1> QED BY <1>3, <1>4, ChannelGrows

LEMMA RestingClient ==
  ASSUME Undisturbed, SystemTypeOK, PipelineInv, TypeOK', [Next]_vars, NEW c \in Clients,
         ClientAlert(c), ClientInv(c), SameClient(c)
  PROVE  ClientInv(c)'
<1>0. TypeOK BY DEF SystemTypeOK
<1>1. PICK j \in Jobs : j = follows[c] /\ j = follows'[c] BY ReaderDomains DEF SameClient
<1>2. PICK n \in Nat : n = cursor[c] /\ n = cursor'[c] BY ReaderDomains DEF SameClient
<1>3. Gapless(c)' BY DEF ClientInv, Gapless, SameClient
<1>4. CaughtUp(c)'
  <2> SUFFICES ASSUME spc[c] \in {"check", "tail"}, NEW k \in TokenEvents(j)', k <= n
               PROVE  channel'[j][k].index < next[c]
    BY <1>1, <1>2 DEF CaughtUp, SameClient
  <2>1. n <= Len(channel[j]) BY <1>1, <1>2 DEF ClientAlert
  <2>2. k \in TokenEvents(j) /\ channel'[j][k] = channel[j][k] BY <1>0, <2>1, PastEvents
  <2> QED BY <1>1, <1>2, <2>2 DEF ClientInv, CaughtUp
<1>5. Concluding(c)'
  <2>1. CASE spc[c] \in {"drain", "reread", "closed"}
    <3>1. IsTerminal(j) BY <1>1, <2>1 DEF ClientInv, Concluding
    <3>2. hash'[j].status = hash[j].status /\ tokens'[j] = tokens[j] /\ IsTerminal(j)'
      BY <3>1, TerminalRests
    <3> QED BY <1>1, <3>2 DEF ClientInv, Concluding, ShowsRecord, Complete, SameClient, IsTerminal
  <2>2. CASE spc[c] \notin {"drain", "reread", "closed"} BY <2>2 DEF Concluding, SameClient
  <2> QED BY <2>1, <2>2
<1> QED BY <1>3, <1>4, <1>5 DEF ClientInv

(* Once the final event is received, so are all tokens.                      *)
LEMMA FinalReceived ==
  ASSUME SystemTypeOK, PipelineInv, PublishedInv, NEW c \in Clients, CaughtUp(c),
         ReceivedInv(c), spc[c] = "tail", cursor[c] < Len(channel[follows[c]]),
         channel[follows[c]][cursor[c] + 1].type \in {"done", "error"}
  PROVE  IsTerminal(follows[c]) /\ Complete(c)
<1> DEFINE j == follows[c]
<1>1. /\ j \in Jobs /\ next[c] \in Nat /\ TypeOK /\ cursor[c] \in Nat
      /\ channel[j] \in Seq(Events) /\ Len(tokens[j]) \in Nat
  BY ReaderDomains, Domains DEF SystemTypeOK
<1>2. cursor[c] + 1 \in Ends(j) BY <1>1 DEF Ends
<1>3. IsTerminal(j) BY <1>1, <1>2 DEF PipelineInv, SettledInv, SettledJob
<1>4. pc[j] \notin {"arm", "publish"}
  BY <1>1, <1>3 DEF PipelineInv, LifecycleInv, PromisedJob, StatusAt, IsTerminal, TerminalStatuses
<1>5. ~(next[c] < Len(tokens[j]))
  <2> SUFFICES ASSUME next[c] < Len(tokens[j]) PROVE FALSE OBVIOUS
  <2>1. next[c] \in 0..(Len(tokens[j]) - 1) BY <1>1
  <2>2. PICK k \in TokenEvents(j) : channel[j][k].index = next[c]
    BY <1>1, <1>4, <2>1 DEF PublishedInv, AllPublished
  <2>3. k < cursor[c] + 1 /\ k \in Nat BY <1>1, <1>2 DEF PublishedInv, EndsLast, TokenEvents
  <2>4. k <= cursor[c] BY <1>1, <2>3
  <2>5. channel[j][k].index < next[c] BY <2>4 DEF CaughtUp
  <2> QED BY <1>1, <2>2, <2>5
<1>6. next[c] <= Len(tokens[j]) BY DEF ReceivedInv
<1> QED BY <1>1, <1>3, <1>5, <1>6 DEF Complete

(* Whoever moves reads a readable record of a job that exists.                *)
LEMMA MovingClient ==
  ASSUME Undisturbed, SystemTypeOK, PipelineInv, PublishedInv, NEW c \in Clients,
         ReceivedInv(c), ClientInv(c), ClientMoves(c)
  PROVE  ClientInv(c)'
<1> DEFINE j == follows[c]
<1>0. /\ j \in Jobs /\ next[c] \in Nat /\ TypeOK /\ cursor[c] \in Nat
      /\ BufferInv /\ Gapless(c) /\ CaughtUp(c) /\ Concluding(c)
  BY ReaderDomains DEF SystemTypeOK, PipelineInv, ClientInv
<1>1. Readable(j) /\ ~Broken(j) /\ RecordSeen(j) = hash[j].status
  BY <1>0 DEF ClientMoves, PipelineInv, StrandInv, KeptJob, Broken, RecordSeen
<1>2. follows'[c] = j /\ UNCHANGED vars BY ClientCases DEF ClientMoves
<1>3. channel' = channel /\ hash' = hash /\ tokens' = tokens /\ TokenEvents(j)' = TokenEvents(j)
     /\ TokenEvents(follows[c])' = TokenEvents(j)
  BY <1>2 DEF vars, storeVars, TokenEvents
<1>a. \A k \in TokenEvents(j) :
        k \in Nat /\ channel[j][k].index \in Nat /\ channel[j][k].type = "token"
  <2>1. \A k \in TokenEvents(j) : k \in Nat /\ channel[j][k].type = "token"
    BY <1>0, Domains DEF TokenEvents
  <2> QED BY <1>0, <2>1, TokenEventFields
<1>4. ASSUME Silent(c) PROVE Gapless(c)' BY <1>0, <1>4 DEF Silent, Gapless
<1> HIDE DEF j
<1>5. CASE Opens(c)
  <2>1. Silent(c) /\ spc'[c] \in {"get", "subscribe", "route"} BY <1>1, <1>5 DEF Opens, j
  <2> QED BY <1>4, <2>1 DEF ClientInv, CaughtUp, Concluding
<1>6. CASE Subscribes(c)
  BY <1>4, <1>6 DEF Subscribes, ClientInv, CaughtUp, Concluding
<1>7. CASE Replays(c)
  <2>1. Gapless(c)' /\ Complete(c)' BY <1>0, <1>2, <1>7, ReplayCompletes DEF Replays, j
  <2>2. CASE spc[c] = "replay" /\ spc'[c] = "check"
    <3>1. ASSUME NEW k \in TokenEvents(j) PROVE channel[j][k].index < Len(tokens[j])
      <4>1. EventFaithful(j, k) BY <1>0 DEF BufferInv, TokenInv
      <4> QED BY <4>1 DEF EventFaithful
    <3>2. next'[c] = Len(tokens[j]) BY <1>2, <1>3, <2>1 DEF Complete
    <3>3. CaughtUp(c)' BY <1>2, <1>3, <3>1, <3>2 DEF CaughtUp
    <3> QED BY <2>1, <2>2, <3>3 DEF ClientInv, Concluding
  <2>3. CASE spc[c] = "drain" /\ spc'[c] = "closed"
    <3>1. IsTerminal(j) /\ final'[c] = hash[j].status
      BY <1>0, <1>7, <2>3 DEF Concluding, ShowsRecord, Replays, j
    <3>2. Concluding(c)'
      BY <1>2, <1>3, <2>1, <3>1 DEF Concluding, ShowsRecord, IsTerminal
    <3> QED BY <2>1, <2>3, <3>2 DEF ClientInv, CaughtUp
  <2> QED BY <1>7, <2>2, <2>3 DEF Replays
<1>8. CASE Checks(c)
  <2>1. /\ Silent(c) /\ cursor'[c] = cursor[c] /\ final'[c] = hash[j].status /\ spc[c] = "check"
        /\ spc'[c] = IF IsTerminal(j) THEN "drain" ELSE "tail"
    BY <1>1, <1>8 DEF Checks, j
  <2>2. CaughtUp(c)' BY <1>0, <1>2, <1>3, <2>1 DEF CaughtUp, Silent, j
  <2>3. Concluding(c)' BY <1>2, <1>3, <2>1 DEF Concluding, ShowsRecord, IsTerminal
  <2> QED BY <1>4, <2>1, <2>2, <2>3 DEF ClientInv
<1>9. CASE Tails(c)
  <2> DEFINE e == channel[j][cursor[c] + 1]
  <2>1. /\ spc[c] = "tail" /\ cursor[c] < Len(channel[j]) /\ cursor'[c] = cursor[c] + 1
        /\ spc'[c] = IF e.type \in {"done", "error"} THEN "reread" ELSE "tail"
        /\ IF e.type = "token" /\ e.index >= next[c]
             THEN Gets(c, <<<<e.index, e.delta>>>>) ELSE Silent(c)
    BY <1>9 DEF Tails, j
  <2>2. CASE e.type = "token" /\ e.index >= next[c]
    <3>1. Consecutive(c, <<<<e.index, e.delta>>>>) /\ e.index = next[c]
      BY <1>0, <2>1, <2>2, TailConsecutive DEF j
    <3>2. Gapless(c)' /\ next'[c] = next[c] + 1
      <4>1. Gapless(c)' /\ next'[c] = next[c] + Len(<<<<e.index, e.delta>>>>)
        BY <1>0, <2>1, <2>2, <3>1, GetsConsecutive
      <4> QED BY <4>1
    <3>3. ASSUME NEW k \in TokenEvents(j), k <= cursor[c] + 1
          PROVE  channel[j][k].index < next[c] + 1
      <4>1. k \in Nat /\ channel[j][k].index \in Nat BY <1>a
      <4>2. CASE k = cursor[c] + 1 BY <1>0, <3>1, <4>2
      <4>3. CASE k <= cursor[c]
        <5>1. channel[j][k].index < next[c] BY <1>0, <2>1, <4>3 DEF CaughtUp, j
        <5> QED BY <1>0, <4>1, <5>1
      <4> QED BY <1>0, <3>3, <4>1, <4>2, <4>3
    <3>4. CaughtUp(c)' BY <1>2, <1>3, <2>1, <3>2, <3>3 DEF CaughtUp
    <3>5. spc'[c] = "tail" BY <2>1, <2>2
    <3> QED BY <3>2, <3>4, <3>5 DEF ClientInv, Concluding
  <2>3. CASE ~(e.type = "token" /\ e.index >= next[c])
    <3>1. Silent(c) BY <2>1, <2>3
    <3>2. ASSUME NEW k \in TokenEvents(j), k <= cursor[c] + 1
          PROVE  channel[j][k].index < next[c]
      <4>1. k \in Nat /\ channel[j][k].index \in Nat /\ channel[j][k].type = "token" BY <1>a
      <4>2. CASE k = cursor[c] + 1 BY <1>0, <2>3, <4>1, <4>2
      <4>3. CASE k <= cursor[c] BY <1>0, <2>1, <4>3 DEF CaughtUp, j
      <4> QED BY <1>0, <3>2, <4>1, <4>2, <4>3
    <3>3. CaughtUp(c)' BY <1>2, <1>3, <2>1, <3>1, <3>2 DEF CaughtUp, Silent
    <3>4. Concluding(c)'
      <4>1. CASE e.type \in {"done", "error"}
        <5>1. IsTerminal(j) /\ Complete(c) BY <1>0, <2>1, <4>1, FinalReceived DEF j
        <5>2. spc'[c] = "reread" BY <2>1, <4>1
        <5> QED
          BY <1>2, <1>3, <3>1, <5>1, <5>2
             DEF Concluding, Complete, IsTerminal, Silent, j
      <4>2. CASE e.type \notin {"done", "error"} BY <2>1, <4>2 DEF Concluding
      <4> QED BY <4>1, <4>2
    <3> QED BY <1>4, <3>1, <3>3, <3>4 DEF ClientInv
  <2> QED BY <2>2, <2>3
<1>10. CASE Rereads(c)
  <2>1. /\ Silent(c) /\ final'[c] = hash[j].status /\ spc[c] = "reread" /\ spc'[c] = "closed"
    BY <1>1, <1>10 DEF Rereads, j
  <2>2. IsTerminal(j) /\ Complete(c) BY <1>0, <2>1 DEF Concluding, j
  <2>3. Concluding(c)'
    BY <1>2, <1>3, <2>1, <2>2 DEF Concluding, ShowsRecord, Complete, IsTerminal, Silent, j
  <2> QED BY <1>4, <2>1, <2>3 DEF ClientInv, CaughtUp
<1>11. CASE Breaks(c)
  <2>1. spc'[c] = "away" BY <1>11 DEF Breaks
  <2>2. Gapless(c)'
    <3>1. ASSUME NEW n \in 0..Len(Replay(follows[c], next[c])),
                 Gets(c, SubSeq(Replay(follows[c], next[c]), 1, n))
          PROVE  Gapless(c)'
      BY <1>0, <3>1, ReplayConsecutive, GetsConsecutive
    <3> QED BY <1>4, <1>11, <3>1 DEF Breaks
  <2> QED BY <2>1, <2>2 DEF ClientInv, CaughtUp, Concluding
<1> QED BY <1>5, <1>6, <1>7, <1>8, <1>9, <1>10, <1>11, ClientCases

LEMMA NextClients ==
  ASSUME Undisturbed, ReaderTypeInv, TypeOK', PipelineInv, PublishedInv, AllReceived, AlertInv,
         AllClientsInv, [SystemNext]_allVars
  PROVE  AllClientsInv'
<1>1. SystemTypeOK /\ [Next]_vars BY SystemStep DEF ReaderTypeInv
<1>2. ASSUME NEW c \in Clients PROVE ClientInv(c)'
  <2>1. ReceivedInv(c) /\ ClientAlert(c) /\ ClientInv(c)
    BY DEF AllReceived, AlertInv, AllClientsInv
  <2>2. SameClient(c) \/ ClientMoves(c) BY <1>1, ReaderFrame
  <2> QED BY <1>1, <2>1, <2>2, RestingClient, MovingClient
<1> QED BY <1>2 DEF AllClientsInv

THEOREM ClientsInvariant ==
  ASSUME Undisturbed
  PROVE  SystemSpec => [](ReaderTypeInv /\ AllReceived /\ AllClientsInv)
<1>1. SystemInit => AllClientsInv
  BY DEF SystemInit, ReaderInit, AllClientsInv, ClientInv, Gapless, CaughtUp, Concluding
<1>2. /\ TypeInv' /\ ReaderTypeInv /\ PipelineInv /\ PublishedInv /\ AllReceived /\ AlertInv
      /\ AllClientsInv /\ [SystemNext]_allVars
      => AllClientsInv'
  BY NextClients DEF TypeInv
<1>3. "expiry" \notin Faults /\ "sigterm" \notin Faults BY UndisturbedFaults
<1>4. SystemSpec => [](TypeInv /\ ReaderTypeInv) BY ReaderTypeInvariant
<1>5. SystemSpec => [](PipelineInv /\ PublishedInv)
  BY PublishedInvariant, SystemIsPipeline, PTL
<1>6. SystemSpec => [](ReaderTypeInv /\ AllReceived) BY <1>3, ReceivedInvariant
<1>7. SystemSpec => [](ReaderTypeInv /\ AlertInv) BY <1>3, AlertInvariant
<1> QED BY <1>1, <1>2, <1>4, <1>5, <1>6, <1>7, PTL DEF SystemSpec

(* No gaps: what a client has received is the start of the buffer, whatever the *)
(* replay and the live tail contribute and however often its connection breaks, *)
(* for any number of chunks, tries and reconnections.                         *)
THEOREM NoTokenMissed ==
  ASSUME Undisturbed
  PROVE  SystemSpec => []NoGaps
<1>1. AllClientsInv => NoGaps BY DEF AllClientsInv, ClientInv, Gapless, NoGaps
<1> QED BY <1>1, ClientsInvariant, PTL

(* A stream that has closed has given its client every token of the buffer and *)
(* then the terminal record, and neither changes behind its back.            *)
THEOREM ClosingIsComplete ==
  ASSUME Undisturbed
  PROVE  SystemSpec => []ClosesComplete
<1>1. AllClientsInv => ClosesComplete
  <2> SUFFICES ASSUME AllClientsInv, NEW c \in Clients, spc[c] = "closed"
               PROVE  /\ final[c] \in TerminalStatuses
                      /\ final[c] = hash[follows[c]].status
                      /\ Len(got[c]) = Len(tokens[follows[c]])
    BY DEF ClosesComplete
  <2>1. IsTerminal(follows[c]) /\ ShowsRecord(c) /\ Complete(c) /\ Gapless(c)
    BY DEF AllClientsInv, ClientInv, Concluding
  <2> QED BY <2>1 DEF IsTerminal, ShowsRecord, Complete, Gapless
<1> QED BY <1>1, ClientsInvariant, PTL
=============================================================================
