------------------------- MODULE DownloadWireProofs -------------------------
(***************************************************************************)
(* What the backend of a download sends, for any number of downloads and    *)
(* threads and both kinds of line ends: the order of the events             *)
(* (setup/download.py, downloader.py) and where their frames lie on the     *)
(* wire. What the browser makes of it is proved in DownloadProofs.          *)
(***************************************************************************)
EXTENDS DownloadSystem, TLAPS, FiniteSetTheorems, SequenceTheorems

-----------------------------------------------------------------------------
(* What travels, and what the screen may show.                             *)
Symbol == {Data(e, h) : e \in Messages, h \in {1, 2}} \cup {Comment, CR, LF}
Views == [state : {"idle", "running", "done", "error"}, percent : 0..Total]

(* The pieces of a download are finitely many.                             *)
LEMMA TotalType == Total \in Nat
BY DownloadAssumption, FS_CardinalityType DEF Total

(* A set of naturals that is not empty has a least member.                 *)
LEMMA Least ==
  ASSUME NEW T \in SUBSET Nat, T # {}
  PROVE  \E x \in T : \A y \in T : ~(y < x)
<1> DEFINE R == {ss \in Nat \X Nat : ss[1] < ss[2]}
<1>1. IsWellFoundedOn(R, Nat) BY NatLessThanWellFounded DEF OpToRel
<1> HIDE DEF R
<1>2. PICK x \in T : \A y \in T : <<y, x>> \notin R BY <1>1, WFMin
<1> QED BY <1>2 DEF R

(* Induction: whatever holds 0 and, with each number, the next holds all.  *)
LEMMA Induct ==
  ASSUME NEW S, 0 \in S, \A n \in Nat : n \in S => n + 1 \in S
  PROVE  Nat \subseteq S
<1> SUFFICES ASSUME Nat \ S # {} PROVE FALSE OBVIOUS
<1>1. PICK x \in Nat \ S : \A y \in Nat \ S : ~(y < x) BY Least
<1>2. x # 0 /\ x \in Nat OBVIOUS
<1>3. x - 1 \in Nat /\ x - 1 < x BY <1>2
<1>4. x - 1 \in S BY <1>1, <1>3
<1> QED BY <1>2, <1>3, <1>4

(* Max is what it says of a bounded set of naturals,                       *)
LEMMA Greatest ==
  ASSUME NEW n \in Nat, NEW S \in SUBSET (0..n), S # {}
  PROVE  /\ Max(S) \in S
         /\ \A x \in S : x <= Max(S)
<1> DEFINE T == {k \in 0..n : n - k \in S}
<1>1. T \in SUBSET Nat /\ T # {}
  <2>1. PICK x \in S : TRUE OBVIOUS
  <2>2. n - x \in T
    <3>1. x \in 0..n OBVIOUS
    <3>2. n - x \in 0..n /\ n - (n - x) = x BY <3>1
    <3> QED BY <3>2
  <2> HIDE DEF T
  <2>3. T # {} BY <2>2
  <2>4. T \subseteq Nat BY DEF T
  <2> QED BY <2>3, <2>4
<1>2. PICK t \in T : \A y \in T : ~(y < t)
  <2> HIDE DEF T
  <2> QED BY <1>1, Least
<1>3. ASSUME NEW x \in S PROVE n - t >= x
  <2>1. x \in 0..n /\ t \in 0..n OBVIOUS
  <2>2. n - x \in 0..n /\ n - (n - x) = x BY <2>1
  <2>3. ~(n - x < t) BY <1>2, <2>2
  <2> QED BY <2>1, <2>3
<1>4. Max(S) \in S /\ \A x \in S : Max(S) >= x
  <2>1. n - t \in S BY <1>2
  <2> QED BY <1>3, <2>1 DEF Max
<1>5. \A x \in S : x \in 0..n OBVIOUS
<1> QED BY <1>4, <1>5

(* and of any set with a greatest member.                                  *)
LEMMA MaxIs ==
  ASSUME NEW S \in SUBSET Nat, NEW m \in S, \A x \in S : x <= m
  PROVE  Max(S) = m
<1>1. \A x \in S : x \in Nat OBVIOUS
<1>2. \A x \in S : m >= x BY <1>1
<1>3. Max(S) \in S /\ \A x \in S : Max(S) >= x BY <1>2 DEF Max
<1>4. Max(S) >= m /\ m >= Max(S) /\ m \in Nat /\ Max(S) \in Nat BY <1>1, <1>2, <1>3
<1> QED BY <1>4

(* The functions that follow a step from a first value, n times.           *)
Orbits(V, first, n, step) ==
    {f \in [0..n -> V] : f[0] = first /\ \A i \in 1..n : f[i] = step[i][f[i - 1]]}

(* There is one, so a function that is defined by recursion on 0..n is     *)
(* what its definition says.                                               *)
LEMMA Recursion ==
  ASSUME NEW V, NEW first \in V, NEW n \in Nat, NEW step \in [1..n -> [V -> V]]
  PROVE  Orbits(V, first, n, step) # {}
<1> DEFINE Solves(k, f) == /\ f \in [0..k -> V] /\ f[0] = first
                           /\ \A i \in 1..k : f[i] = step[i][f[i - 1]]
           S == {k \in Nat : k <= n => \E f : Solves(k, f)}
<1>1. 0 \in S
  <2>1. Solves(0, [i \in 0..0 |-> first]) OBVIOUS
  <2> QED BY <2>1
<1>2. ASSUME NEW k \in Nat, k \in S PROVE k + 1 \in S
  <2> SUFFICES ASSUME k + 1 <= n PROVE \E f : Solves(k + 1, f) OBVIOUS
  <2>1. PICK f : Solves(k, f) BY <1>2
  <2> DEFINE x == step[k + 1][f[k]]
             g == [i \in 0..(k + 1) |-> IF i = k + 1 THEN x ELSE f[i]]
  <2>2. x \in V
    <3>1. k \in 0..k /\ k + 1 \in 1..n OBVIOUS
    <3> QED BY <2>1, <3>1
  <2>3. g \in [0..(k + 1) -> V] /\ g[0] = first BY <2>1, <2>2
  <2>4. ASSUME NEW i \in 1..(k + 1) PROVE g[i] = step[i][g[i - 1]]
    <3>1. g[i - 1] = f[i - 1] OBVIOUS
    <3>2. CASE i = k + 1 BY <3>1, <3>2
    <3>3. CASE i \in 1..k BY <2>1, <3>1, <3>3
    <3> QED BY <3>2, <3>3
  <2>5. Solves(k + 1, g)
    <3> HIDE DEF g
    <3> QED BY <2>3, <2>4
  <2> QED BY <2>5
<1>3. Nat \subseteq S
  <2> HIDE DEF S
  <2> QED BY <1>1, <1>2, Induct
<1> QED BY <1>3 DEF Orbits

(* emit hands over events and nothing else.                                *)
LEMMA ParsedType ==
  ASSUME NEW block
  PROVE  Parsed(block) \in Seq(Messages)
BY DEF Parsed

(* drain's loop (api.js:92-97) handles block after block.                  *)
LEMMA EmittedDef ==
  ASSUME NEW b, Len(b) \in Nat, NEW blanks
  PROVE  /\ Emitted(b, blanks) \in [0..Len(b) -> Seq(Messages)]
         /\ Emitted(b, blanks)[0] = <<>>
         /\ \A i \in 1..Len(b) : Emitted(b, blanks)[i] = Emitted(b, blanks)[i - 1] \o
                 (IF i \in blanks THEN Parsed(SubSeq(b, BlockStart(blanks, i), i)) ELSE <<>>)
<1> DEFINE more(i) == IF i \in blanks THEN Parsed(SubSeq(b, BlockStart(blanks, i), i)) ELSE <<>>
           V == Seq(Messages)
           Defines(f) == f = [i \in 0..Len(b) |-> IF i = 0 THEN <<>> ELSE f[i - 1] \o more(i)]
           step == [i \in 1..Len(b) |-> [s \in V |-> s \o more(i)]]
<1>1. Emitted(b, blanks) = CHOOSE f : Defines(f)
  BY DEF Emitted
<1>2. \A i : more(i) \in V BY ParsedType
<1> HIDE DEF more
<1>3. \E f : Defines(f)
  <2>1. step \in [1..Len(b) -> [V -> V]] BY <1>2
  <2>2. <<>> \in V OBVIOUS
  <2>3. PICK f \in [0..Len(b) -> V] :
          f[0] = <<>> /\ \A i \in 1..Len(b) : f[i] = step[i][f[i - 1]]
    <3>1. Orbits(V, <<>>, Len(b), step) # {}
      <4> HIDE DEF step, V
      <4> QED BY <2>1, <2>2, Recursion
    <3> QED BY <3>1 DEF Orbits
  <2>4. ASSUME NEW i \in 0..Len(b)
        PROVE  f[i] = IF i = 0 THEN <<>> ELSE f[i - 1] \o more(i)
    <3>1. CASE i = 0 BY <2>3, <3>1
    <3>2. CASE i \in 1..Len(b)
      <4>1. f[i - 1] \in V BY <3>2
      <4>2. step[i][f[i - 1]] = f[i - 1] \o more(i) BY <3>2, <4>1
      <4> QED BY <2>3, <3>2, <4>2
    <3> QED BY <3>1, <3>2
  <2>5. Defines(f) BY <2>3, <2>4
  <2> QED BY <2>5
<1>4. Defines(Emitted(b, blanks)) BY <1>1, <1>3
<1>5. \A i \in 0..Len(b) : Emitted(b, blanks)[i] \in V
  <2> DEFINE S == {i \in Nat : i <= Len(b) => Emitted(b, blanks)[i] \in V}
  <2>1. 0 \in S BY <1>4
  <2>2. ASSUME NEW i \in Nat, i \in S PROVE i + 1 \in S
    <3> SUFFICES ASSUME i + 1 <= Len(b) PROVE Emitted(b, blanks)[i + 1] \in V OBVIOUS
    <3>1. Emitted(b, blanks)[i + 1] = Emitted(b, blanks)[i] \o more(i + 1)
      <4> i + 1 \in 0..Len(b) /\ i + 1 # 0 /\ (i + 1) - 1 = i OBVIOUS
      <4> QED BY <1>4
    <3> QED BY <1>2, <2>2, <3>1
  <2>3. Nat \subseteq S
    <3> HIDE DEF S
    <3> QED BY <2>1, <2>2, Induct
  <2> QED BY <2>3
<1> QED BY <1>4, <1>5 DEF more

(* An event leaves a view a view.                                          *)
LEMMA ShowType ==
  ASSUME NEW v \in Views, NEW e \in Messages
  PROVE  Show(v, e) \in Views
<1> QED BY TotalType DEF Show, Views, Messages, Progress, Done, Failure

(* onEvent (steps.jsx:177-190) shows event after event.                    *)
LEMMA ShowingDef ==
  ASSUME NEW v \in Views, NEW events \in Seq(Messages)
  PROVE  /\ Showing(v, events) \in [0..Len(events) -> Views]
         /\ Showing(v, events)[0] = v
         /\ \A n \in 1..Len(events) :
               Showing(v, events)[n] = Show(Showing(v, events)[n - 1], events[n])
<1> DEFINE Defines(f) ==
             f = [n \in 0..Len(events) |-> IF n = 0 THEN v ELSE Show(f[n - 1], events[n])]
           step == [n \in 1..Len(events) |-> [w \in Views |-> Show(w, events[n])]]
<1>1. Showing(v, events) = CHOOSE f : Defines(f)
  BY DEF Showing
<1>2. \A n \in 1..Len(events), w \in Views : Show(w, events[n]) \in Views BY ShowType
<1>3. \E f : Defines(f)
  <2>1. step \in [1..Len(events) -> [Views -> Views]] BY <1>2
  <2>2. PICK f \in [0..Len(events) -> Views] :
          f[0] = v /\ \A n \in 1..Len(events) : f[n] = step[n][f[n - 1]]
    <3>1. Orbits(Views, v, Len(events), step) # {}
      <4>1. Len(events) \in Nat OBVIOUS
      <4> HIDE DEF step
      <4> QED BY <2>1, <4>1, Recursion
    <3> QED BY <3>1 DEF Orbits
  <2>3. \A n \in 0..Len(events) : f[n] = IF n = 0 THEN v ELSE Show(f[n - 1], events[n]) BY <2>2
  <2>4. Defines(f) BY <2>2, <2>3
  <2> QED BY <2>4
<1>4. Defines(Showing(v, events)) BY <1>1, <1>3
<1>5. \A n \in 0..Len(events) : Showing(v, events)[n] \in Views
  <2> DEFINE S == {n \in Nat : n <= Len(events) => Showing(v, events)[n] \in Views}
  <2>1. 0 \in S BY <1>4
  <2>2. ASSUME NEW n \in Nat, n \in S PROVE n + 1 \in S
    <3> SUFFICES ASSUME n + 1 <= Len(events) PROVE Showing(v, events)[n + 1] \in Views OBVIOUS
    <3>1. Showing(v, events)[n + 1] = Show(Showing(v, events)[n], events[n + 1]) BY <1>4
    <3> QED BY <1>2, <2>2, <3>1
  <2>3. Nat \subseteq S
    <3> HIDE DEF S
    <3> QED BY <2>1, <2>2, Induct
  <2> QED BY <2>3
<1>6. Showing(v, events)[0] = v
  <2>1. 0 \in 0..Len(events) BY <1>2
  <2> QED BY <1>4, <2>1
<1>7. Showing(v, events) \in [0..Len(events) -> Views] BY <1>4, <1>5
<1>8. ASSUME NEW n \in 1..Len(events)
      PROVE  Showing(v, events)[n] = Show(Showing(v, events)[n - 1], events[n])
  <2>1. n \in 0..Len(events) /\ n # 0 OBVIOUS
  <2> QED BY <1>4, <2>1
<1> QED BY <1>6, <1>7, <1>8

-----------------------------------------------------------------------------
(* The types that a step keeps by itself; the bounds on the counters and   *)
(* the cursor follow from the invariants further down.                     *)
ServerTypes ==
    /\ style \in Styles
    /\ fetch \in [Starts -> [Threads -> Nat]]
    /\ accrued \in [Starts -> Nat]
    /\ worker \in [Starts -> {"none", "running", "told", "over"}]
    /\ queue \in [Starts -> Seq(Messages \cup {Sentinel})]
    /\ stream \in [Starts -> {"none", "open", "ended", "broken"}]
    /\ wire \in [Starts -> Seq(Symbol)]
    /\ frames \in [Starts -> Seq([event : Messages, end : Nat])]
    /\ pings \in 0..MaxPings
ClientTypes ==
    /\ reader \in [Starts -> {"none", "asking", "reading", "over"}]
    /\ taken \in [Starts -> Nat]
    /\ buffer \in [Starts -> Seq(Symbol)]
    /\ handled \in [Starts -> Seq(Messages)]
    /\ cuts \in 0..MaxCuts
    /\ view \in Views
    /\ hasty \in BOOLEAN
Types == ServerTypes /\ ClientTypes

(* A block starts at its end or before.                                    *)
LEMMA BlockStartType ==
  ASSUME NEW n \in Nat, NEW blanks \in SUBSET (1..n), NEW i \in 1..(n + 1)
  PROVE  BlockStart(blanks, i) \in 1..i
<1> DEFINE S == {0} \cup {k \in blanks : k < i}
<1>1. S \subseteq 0..n /\ 0 \in S
  <2>1. 0 \in 0..n OBVIOUS
  <2>2. ASSUME NEW k \in blanks PROVE k \in 0..n OBVIOUS
  <2> QED BY <2>1, <2>2
<1>2. Max(S) \in S
  <2> HIDE DEF S
  <2> QED BY <1>1, Greatest
<1>3. Max(S) \in 0..(i - 1) BY <1>1, <1>2
<1> QED BY <1>3 DEF BlockStart

(* What the parser makes of symbols are events and symbols,                *)
LEMMA DrainTypes ==
  ASSUME NEW b \in Seq(Symbol)
  PROVE  /\ Drain(b).events \in Seq(Messages)
         /\ Drain(b).rest \in Seq(Symbol)
<1>1. Len(b) \in Nat OBVIOUS
<1>2. Blanks(b) \in SUBSET (1..Len(b)) BY DEF Blanks, BlanksRaw
<1>3. BlockStart(Blanks(b), Len(b) + 1) \in 1..(Len(b) + 1) BY <1>1, <1>2, BlockStartType
<1>4. SubSeq(b, BlockStart(Blanks(b), Len(b) + 1), Len(b)) \in Seq(Symbol)
  <2>1. \A k \in BlockStart(Blanks(b), Len(b) + 1)..Len(b) : k \in 1..Len(b) BY <1>1, <1>3
  <2> QED BY <1>1, <1>3, <2>1, SubSeqProperties
<1>5. Emitted(b, Blanks(b))[Len(b)] \in Seq(Messages)
  <2>1. Emitted(b, Blanks(b)) \in [0..Len(b) -> Seq(Messages)] BY <1>1, EmittedDef
  <2>2. Len(b) \in 0..Len(b) BY <1>1
  <2> QED BY <2>1, <2>2
<1> QED BY <1>4, <1>5 DEF Drain, DrainAt

(* and what events make of a view is a view.                               *)
LEMMA ShowAllType ==
  ASSUME NEW v \in Views, NEW events \in Seq(Messages)
  PROVE  ShowAll(v, events) \in Views
<1>1. Len(events) \in 0..Len(events) OBVIOUS
<1> QED BY <1>1, ShowingDef DEF ShowAll

(* Line ends, frames and comments are symbols.                             *)
LEMMA LineEndType == LineEnd \in Seq(Symbol)
<1>1. CR \in Symbol /\ LF \in Symbol BY DEF Symbol
<1> QED BY <1>1 DEF LineEnd

LEMMA FrameType ==
  ASSUME NEW e \in Messages
  PROVE  Frame(e) \in Seq(Symbol)
<1>1. Data(e, 1) \in Symbol /\ Data(e, 2) \in Symbol BY DEF Symbol
<1>2. <<Data(e, 1), Data(e, 2)>> \in Seq(Symbol) BY <1>1
<1> QED BY <1>2, LineEndType DEF Frame

LEMMA KeepAliveType == <<Comment>> \in Seq(Symbol)
<1>1. Comment \in Symbol BY DEF Symbol
<1> QED BY <1>1

(* The types hold at first ...                                             *)
LEMMA InitTypes == SystemInit => Types
<1> SUFFICES ASSUME SystemInit PROVE Types OBVIOUS
<1>1. ServerTypes
  <2> USE DEF SystemInit, DownloadInit, ClientInit
  <2>1. pings \in 0..MaxPings BY DownloadAssumption
  <2>2. fetch \in [Starts -> [Threads -> Nat]] BY DEF Waiting
  <2>3. style \in Styles /\ accrued \in [Starts -> Nat] OBVIOUS
  <2>4. queue \in [Starts -> Seq(Messages \cup {Sentinel})] OBVIOUS
  <2>5. wire \in [Starts -> Seq(Symbol)] OBVIOUS
  <2>6. frames \in [Starts -> Seq([event : Messages, end : Nat])] OBVIOUS
  <2>7. /\ worker \in [Starts -> {"none", "running", "told", "over"}]
        /\ stream \in [Starts -> {"none", "open", "ended", "broken"}]
    OBVIOUS
  <2> QED BY <2>1, <2>2, <2>3, <2>4, <2>5, <2>6, <2>7 DEF ServerTypes
<1>2. ClientTypes
  <2> USE DEF SystemInit, DownloadInit, ClientInit
  <2>1. view \in Views BY TotalType DEF Views
  <2>2. cuts \in 0..MaxCuts BY ClientAssumption
  <2>3. buffer \in [Starts -> Seq(Symbol)] /\ handled \in [Starts -> Seq(Messages)] OBVIOUS
  <2>4. reader \in [Starts -> {"none", "asking", "reading", "over"}] OBVIOUS
  <2>5. taken \in [Starts -> Nat] /\ hasty \in BOOLEAN OBVIOUS
  <2> QED BY <2>1, <2>2, <2>3, <2>4, <2>5 DEF ClientTypes
<1> QED BY <1>1, <1>2 DEF Types

(* A chunk: how far it goes, and what the parser makes of it.                *)
Takes(r, n) ==
    LET drained == Drain(buffer[r] \o SubSeq(wire[r], taken[r] + 1, n))
    IN /\ cuts' \in {cuts, cuts + 1} /\ (cuts' = cuts \/ cuts < MaxCuts)
       /\ taken' = [taken EXCEPT ![r] = n]
       /\ buffer' = [buffer EXCEPT ![r] = drained.rest]
       /\ handled' = [handled EXCEPT ![r] = @ \o drained.events]
       /\ view' = ShowAll(view, drained.events)

(* A chunk is taken as Takes says.                                         *)
LEMMA ReadTakes ==
  ASSUME NEW r \in Starts, Read(r)
  PROVE  \E n \in (taken[r] + 1)..Len(wire[r]) : Takes(r, n)
BY DEF Read, Takes

(* ... the backend keeps its own ...                                       *)
LEMMA ServerTypesKept ==
  ASSUME NEW r \in Starts, Types,
         Work(r) \/ Forward(r) \/ Ping(r) \/ Break(r) \/ PostDownload(r)
  PROVE  ServerTypes'
<1> USE DEF Types, ServerTypes
<1>7. ASSUME NEW h \in Threads, Count(r, h) PROVE ServerTypes'
  <2>1. accrued' \in [Starts -> Nat] /\ fetch' \in [Starts -> [Threads -> Nat]] BY <1>7 DEF Count
  <2> QED BY <1>7, <2>1 DEF Count
<1>8. ASSUME NEW h \in Threads, Report(r, h) PROVE ServerTypes'
  <2>1. Progress(fetch[r][h]) \in Messages BY <1>8 DEF Report, Messages
  <2>2. Reported \in Nat BY TotalType DEF Reported
  <2>3. fetch' \in [Starts -> [Threads -> Nat]] BY <1>8, <2>2 DEF Report
  <2>4. queue' \in [Starts -> Seq(Messages \cup {Sentinel})] BY <1>8, <2>1 DEF Report, Put
  <2> QED BY <1>8, <2>3, <2>4 DEF Report
<1>9. ASSUME Succeed(r) \/ Fail(r) PROVE ServerTypes'
  <2>1. Done \in Messages /\ Failure \in Messages BY DEF Messages
  <2>2. PICK e \in Messages : Tell(r, e) BY <1>9, <2>1 DEF Succeed, Fail
  <2>3. queue' \in [Starts -> Seq(Messages \cup {Sentinel})] BY <2>2 DEF Tell, Put
  <2> QED BY <2>2, <2>3 DEF Tell
<1>10. CASE Close(r) 
  <2>2. queue' \in [Starts -> Seq(Messages \cup {Sentinel})] BY <1>10 DEF Close, Put
  <2> QED BY <1>10, <2>2 DEF Close
<1>11. CASE Forward(r)
  <2>0. queue' \in [Starts -> Seq(Messages \cup {Sentinel})]
    <3>1. Tail(queue[r]) \in Seq(Messages \cup {Sentinel}) BY <1>11, HeadTailProperties DEF Forward
    <3> QED BY <1>11, <3>1 DEF Forward
  <2>1. CASE Head(queue[r]) = Sentinel
    <3>1. stream' \in [Starts -> {"none", "open", "ended", "broken"}] BY <1>11, <2>1 DEF Forward
    <3> QED BY <1>11, <2>0, <2>1, <3>1 DEF Forward
  <2>2. CASE Head(queue[r]) # Sentinel
    <3>1. Head(queue[r]) \in Messages BY <1>11, <2>2, HeadTailProperties DEF Forward
    <3>2. wire[r] \o Frame(Head(queue[r])) \in Seq(Symbol) BY <3>1, FrameType
    <3>3. wire' \in [Starts -> Seq(Symbol)] BY <1>11, <2>2, <3>2 DEF Forward
    <3>4. [event |-> Head(queue[r]), end |-> Len(wire'[r])] \in [event : Messages, end : Nat]
      BY <3>1, <3>3
    <3>5. Append(frames[r], [event |-> Head(queue[r]), end |-> Len(wire'[r])])
             \in Seq([event : Messages, end : Nat])
      BY <3>4, AppendProperties
    <3>6. frames' \in [Starts -> Seq([event : Messages, end : Nat])] BY <1>11, <2>2, <3>5 DEF Forward
    <3> QED BY <1>11, <2>0, <2>2, <3>3, <3>6 DEF Forward
  <2> QED BY <2>1, <2>2
<1>12. CASE Ping(r)
  <2>1. wire[r] \o <<Comment>> \o LineEnd \o LineEnd \in Seq(Symbol)
     BY LineEndType, KeepAliveType
  <2>2. wire' \in [Starts -> Seq(Symbol)] BY <1>12, <2>1 DEF Ping
  <2>3. pings' \in 0..MaxPings BY <1>12, DownloadAssumption DEF Ping
  <2> QED BY <1>12, <2>2, <2>3 DEF Ping
<1>13. CASE Break(r) BY <1>13 DEF Break
<1>14. CASE PostDownload(r) BY <1>14 DEF PostDownload
<1> QED BY <1>7, <1>8, <1>9, <1>10, <1>11, <1>12, <1>13, <1>14 DEF Work

(* ... and so does the browser.                                            *)
LEMMA ClientTypesKept ==
  ASSUME NEW r \in Starts, Types,
         Start(r) \/ Opened(r) \/ Read(r) \/ EndOfStream(r) \/ Throw(r)
  PROVE  ClientTypes'
<1> USE DEF Types, ClientTypes
<1>2. CASE Start(r)
  <2>1. view' \in Views BY <1>2, TotalType DEF Start, Views
  <2>2. hasty' \in BOOLEAN BY <1>2 DEF Start
  <2> QED BY <1>2, <2>1, <2>2 DEF Start
<1>3. CASE Opened(r) BY <1>3 DEF Opened
<1>4. CASE Read(r)
  <2>1. PICK n \in (taken[r] + 1)..Len(wire[r]) : Takes(r, n) BY <1>4, ReadTakes
  <2> DEFINE text == buffer[r] \o SubSeq(wire[r], taken[r] + 1, n)
  <2>2. text \in Seq(Symbol)
    <3>0. wire[r] \in Seq(Symbol) /\ taken[r] \in Nat /\ n \in (taken[r] + 1)..Len(wire[r])
      BY DEF ServerTypes
    <3>1. \A k \in (taken[r] + 1)..n : wire[r][k] \in Symbol BY <3>0
    <3>2. SubSeq(wire[r], taken[r] + 1, n) \in Seq(Symbol) BY <3>0, <3>1, SubSeqProperties
    <3> QED BY <3>2
  <2>3. Drain(text).events \in Seq(Messages) /\ Drain(text).rest \in Seq(Symbol)
    BY <2>2, DrainTypes
  <2>4. /\ buffer' = [buffer EXCEPT ![r] = Drain(text).rest]
        /\ handled' = [handled EXCEPT ![r] = @ \o Drain(text).events]
        /\ view' = ShowAll(view, Drain(text).events)
        /\ taken' = [taken EXCEPT ![r] = n]
        /\ cuts' \in {cuts, cuts + 1} /\ (cuts' = cuts \/ cuts < MaxCuts)
    BY <2>1 DEF Takes
  <2> HIDE DEF text
  <2>5. buffer' \in [Starts -> Seq(Symbol)] BY <2>3, <2>4
  <2>6. handled' \in [Starts -> Seq(Messages)]
    <3>1. handled[r] \o Drain(text).events \in Seq(Messages) BY <2>3
    <3> QED BY <2>4, <3>1
  <2>7. view' \in Views BY <2>3, <2>4, ShowAllType
  <2>8. cuts' \in 0..MaxCuts BY <2>4, ClientAssumption
  <2>9. taken' \in [Starts -> Nat] BY <2>4
  <2> QED BY <1>4, <2>5, <2>6, <2>7, <2>8, <2>9 DEF Read
<1>5. CASE EndOfStream(r)
  <2>1. Flush(buffer[r]) \in Seq(Messages) BY ParsedType DEF Flush
  <2>2. ShowAll(view, Flush(buffer[r])) \in Views BY <2>1, ShowAllType
  <2>3. view' \in Views BY <1>5, <2>2 DEF EndOfStream, Views
  <2>4. handled[r] \o Flush(buffer[r]) \in Seq(Messages) BY <2>1
  <2>5. handled' \in [Starts -> Seq(Messages)] BY <1>5, <2>4 DEF EndOfStream
  <2>6. buffer' \in [Starts -> Seq(Symbol)] BY <1>5 DEF EndOfStream
  <2> QED BY <1>5, <2>3, <2>5, <2>6 DEF EndOfStream
<1>6. CASE Throw(r)
  <2>1. view' \in Views BY <1>6 DEF Throw, Views
  <2>2. buffer' \in [Starts -> Seq(Symbol)] BY <1>6 DEF Throw, Gone
  <2> QED BY <1>6, <2>1, <2>2 DEF Throw, Gone
<1> QED BY <1>2, <1>3, <1>4, <1>5, <1>6

(* Who changes what.                                                         *)
LEMMA ClientSteps ==
  ASSUME NEW r \in Starts, Start(r) \/ Read(r) \/ EndOfStream(r) \/ Throw(r)
  PROVE  UNCHANGED downloadVars
BY DEF Start, Read, EndOfStream, Throw, Gone

(* Every step keeps the types.                                             *)
LEMMA NextTypes == Types /\ [DownloadNext]_allDownloadVars => Types'
<1> SUFFICES ASSUME Types, [DownloadNext]_allDownloadVars PROVE Types' OBVIOUS
<1>1. UNCHANGED downloadVars => ServerTypes' BY DEF Types, ServerTypes, downloadVars
<1>2. UNCHANGED clientVars => ClientTypes' BY DEF Types, ClientTypes, clientVars
<1>3. CASE UNCHANGED allDownloadVars BY <1>1, <1>2, <1>3 DEF allDownloadVars, Types
<1>4. ASSUME NEW r \in Starts, Start(r) \/ Read(r) \/ EndOfStream(r) \/ Throw(r) PROVE Types'
  BY <1>1, <1>4, ClientSteps, ClientTypesKept DEF Types
<1>5. ASSUME NEW r \in Starts, Opened(r) PROVE Types'
  BY <1>5, ClientTypesKept, ServerTypesKept DEF Types, Opened
<1>6. ASSUME NEW r \in Starts, Work(r) \/ Forward(r) \/ Ping(r) \/ Break(r), UNCHANGED clientVars PROVE Types'
  BY <1>2, <1>6, ServerTypesKept DEF Types
<1> QED BY <1>3, <1>4, <1>5, <1>6 DEF DownloadNext, Run

-----------------------------------------------------------------------------
(* Threads that have counted their piece.                                    *)
Counting(r) == {h \in Threads : fetch[r][h] # Waiting}

(* What event_stream and the browser have been or will be told, in order.    *)
Join(F, Q) == [i \in DOMAIN F |-> F[i].event] \o Q
Told(r) == Join(frames[r], queue[r])

(* The byte counter is the number of threads that have counted, and no     *)
(* thread is between its two steps once the worker has told the outcome    *)
(* (downloader.py:136-152, download.py:48-63).                             *)
Counted(r) ==
    /\ accrued[r] = Cardinality(Counting(r))
    /\ worker[r] = "none" => \A h \in Threads : fetch[r][h] = Waiting
    /\ worker[r] \in {"told", "over"} => \A h \in Threads : fetch[r][h] \in {Waiting, Reported}

(* How far the request has come says how far the response has.             *)
Begun(r) ==
    /\ reader[r] \in {"none", "asking"} => stream[r] = "none"
    /\ reader[r] = "reading" => stream[r] # "none"
    /\ reader[r] = "over" => stream[r] # "open"
    /\ worker[r] = "none" <=> stream[r] = "none"
    /\ stream[r] = "none" => wire[r] = <<>> /\ frames[r] = <<>> /\ queue[r] = <<>>

(* Nothing but the sentinel follows a last event, nothing follows the      *)
(* sentinel, and one of each is there when it should be: a "done" is told  *)
(* when every thread has reported (download.py:48-65).                     *)
Ordered(r) ==
    /\ \A i \in DOMAIN Told(r) : IsLast(Told(r)[i]) =>
          /\ worker[r] \in {"told", "over"}
          /\ \A k \in DOMAIN Told(r) : k > i => Told(r)[k] = Sentinel
          /\ Told(r)[i] = Done => \A h \in Threads : fetch[r][h] = Reported
    /\ \A i \in DOMAIN Told(r) : Told(r)[i] = Sentinel => i = Len(Told(r)) /\ worker[r] = "over"
    /\ worker[r] \in {"told", "over"} => \E i \in DOMAIN Told(r) : IsLast(Told(r)[i])
    /\ worker[r] = "over" /\ stream[r] # "ended" =>
          \E i \in DOMAIN queue[r] : queue[r][i] = Sentinel
    /\ stream[r] = "ended" => worker[r] = "over" /\ queue[r] = <<>>

CourseInv == Types /\ \A r \in Starts : Counted(r) /\ Begun(r) /\ Ordered(r)

(* The events of frames are events.                                        *)
LEMMA FrameEvents ==
  ASSUME NEW F \in Seq([event : Messages, end : Nat])
  PROVE  /\ [i \in DOMAIN F |-> F[i].event] \in Seq(Messages)
         /\ [i \in DOMAIN F |-> F[i].event] \in Seq(Messages \cup {Sentinel})
         /\ Len([i \in DOMAIN F |-> F[i].event]) = Len(F)
<1>1. Len(F) \in Nat /\ DOMAIN F = 1..Len(F) OBVIOUS
<1>2. ASSUME NEW i \in 1..Len(F) PROVE F[i].event \in Messages
  <2> DEFINE R == [event : Messages, end : Nat]
  <2>1. F \in Seq(R) OBVIOUS
  <2>2. F[i] \in R
    <3> HIDE DEF R
    <3> QED BY <2>1
  <2> QED BY <2>2
<1>3. [i \in 1..Len(F) |-> F[i].event] \in [1..Len(F) -> Messages] BY <1>2
<1>4. [i \in 1..Len(F) |-> F[i].event] \in [1..Len(F) -> Messages \cup {Sentinel}] BY <1>2
<1> QED BY <1>1, <1>3, <1>4

(* What is told: the frames that were sent, then the queue.                *)
LEMMA Joined ==
  ASSUME NEW F \in Seq([event : Messages, end : Nat]), NEW Q \in Seq(Messages \cup {Sentinel})
  PROVE  /\ Join(F, Q) \in Seq(Messages \cup {Sentinel})
         /\ DOMAIN Join(F, Q) = 1..(Len(F) + Len(Q))
         /\ Len(Join(F, Q)) = Len(F) + Len(Q)
         /\ \A i \in 1..Len(F) : Join(F, Q)[i] = F[i].event
         /\ \A i \in 1..Len(Q) : Join(F, Q)[Len(F) + i] = Q[i]
<1> DEFINE es == [i \in DOMAIN F |-> F[i].event]
           M == Messages \cup {Sentinel}
<1>1. es \in Seq(M) /\ Len(es) = Len(F) BY FrameEvents
<1>2. Q \in Seq(M) OBVIOUS
<1>3. Len(F) \in Nat /\ Len(Q) \in Nat OBVIOUS
<1>4. \A i \in 1..Len(F) : es[i] = F[i].event OBVIOUS
<1>5. Join(F, Q) = es \o Q BY DEF Join
<1> HIDE DEF M, es
<1>6. /\ es \o Q \in Seq(M)
      /\ Len(es \o Q) = Len(es) + Len(Q)
      /\ \A i \in 1 .. Len(es) + Len(Q) : (es \o Q)[i] =
                     IF i <= Len(es) THEN es[i] ELSE Q[i - Len(es)]
  BY <1>1, <1>2, ConcatProperties
<1>7. \A i \in 1..Len(F) : Join(F, Q)[i] = F[i].event
  BY <1>1, <1>3, <1>4, <1>5, <1>6
<1>8. ASSUME NEW i \in 1..Len(Q) PROVE Join(F, Q)[Len(F) + i] = Q[i]
  <2>1. Len(F) + i \in 1..(Len(es) + Len(Q)) BY <1>1, <1>3
  <2> QED BY <1>1, <1>3, <1>5, <1>6, <2>1
<1>9. DOMAIN Join(F, Q) = 1..(Len(F) + Len(Q)) BY <1>1, <1>5, <1>6
<1> QED BY <1>1, <1>5, <1>6, <1>7, <1>8, <1>9 DEF M

(* The same of one download.                                               *)
LEMMA ToldType ==
  ASSUME Types, NEW r \in Starts
  PROVE  /\ Told(r) \in Seq(Messages \cup {Sentinel})
         /\ DOMAIN Told(r) = 1..(Len(frames[r]) + Len(queue[r]))
         /\ Len(Told(r)) = Len(frames[r]) + Len(queue[r])
         /\ \A i \in 1..Len(frames[r]) : Told(r)[i] = frames[r][i].event
         /\ \A i \in 1..Len(queue[r]) : Told(r)[Len(frames[r]) + i] = queue[r][i]
<1>1. frames[r] \in Seq([event : Messages, end : Nat]) /\ queue[r] \in Seq(Messages \cup {Sentinel})
  BY DEF Types, ServerTypes
<1> QED BY <1>1, Joined DEF Told

(* The sentinel is no event.                                               *)
LEMMA SentinelApart == Sentinel \notin Messages /\ ~IsLast(Sentinel)
BY DEF Sentinel, Messages, Progress, Done, Failure, IsLast

(* An event that is put on the queue is told after all others.               *)
LEMMA PutTells ==
  ASSUME Types, NEW r \in Starts, NEW e \in Messages \cup {Sentinel}, Put(r, e), frames' = frames
  PROVE  /\ Told(r)' = Append(Told(r), e)
         /\ \A q \in Starts \ {r} : Told(q)' = Told(q)
<1> DEFINE es == [i \in DOMAIN frames[r] |-> frames[r][i].event]
           M == Messages \cup {Sentinel}
<1>1. frames[r] \in Seq([event : Messages, end : Nat]) /\ queue[r] \in Seq(M)
  BY DEF Types, ServerTypes
<1>2. es \in Seq(M)
  BY <1>1, FrameEvents
<1>3. queue' = [queue EXCEPT ![r] = Append(@, e)] BY DEF Put
<1>4. queue'[r] = Append(queue[r], e) BY <1>3 DEF Types, ServerTypes
<1>5. es \o Append(queue[r], e) = Append(es \o queue[r], e) BY <1>1, <1>2
<1>6. \A q \in Starts \ {r} : queue'[q] = queue[q] BY <1>3 DEF Types, ServerTypes
<1> QED BY <1>4, <1>5, <1>6 DEF Told, Join

(* A download of which nothing changes.                                      *)
Same(q) ==
    /\ fetch'[q] = fetch[q] /\ accrued'[q] = accrued[q] /\ worker'[q] = worker[q]
    /\ queue'[q] = queue[q] /\ stream'[q] = stream[q]
    /\ wire'[q] = wire[q] /\ frames'[q] = frames[q]
    /\ reader'[q] = reader[q] /\ taken'[q] = taken[q]
    /\ buffer'[q] = buffer[q] /\ handled'[q] = handled[q]

(* A step of one download ...                                              *)
StepOf(r) ==
    \/ Start(r)
    \/ Run(r)
    \/ (Ping(r) \/ Break(r)) /\ UNCHANGED clientVars

(* ... leaves the others alone ...                                         *)
LEMMA OthersSame ==
  ASSUME Types, NEW r \in Starts, StepOf(r), NEW q \in Starts \ {r}
  PROVE  Same(q)
<1> USE DEF Types, ServerTypes, ClientTypes, downloadVars, clientVars, Same
<1>1. CASE Start(r) BY <1>1 DEF Start
<1>2. CASE Opened(r) BY <1>2 DEF Opened, PostDownload
<1>3. CASE Read(r) BY <1>3 DEF Read
<1>4. CASE EndOfStream(r) BY <1>4 DEF EndOfStream
<1>5. CASE Throw(r) BY <1>5 DEF Throw, Gone
<1>6. CASE Work(r) /\ UNCHANGED clientVars
  BY <1>6 DEF Work, Count, Report, Succeed, Fail, Tell, Close, Put
<1>7. CASE Forward(r) /\ UNCHANGED clientVars BY <1>7 DEF Forward
<1>8. CASE Ping(r) /\ UNCHANGED clientVars BY <1>8 DEF Ping
<1>9. CASE Break(r) /\ UNCHANGED clientVars BY <1>9 DEF Break
<1> QED BY <1>1, <1>2, <1>3, <1>4, <1>5, <1>6, <1>7, <1>8, <1>9 DEF StepOf, Run

(* ... and so does not disturb what holds of them.                         *)
LEMMA SameCourse ==
  ASSUME NEW q \in Starts, Same(q), Counted(q), Begun(q), Ordered(q)
  PROVE  Counted(q)' /\ Begun(q)' /\ Ordered(q)'
<1>1. Told(q)' = Told(q) BY DEF Same, Told
<1>2. Counting(q)' = Counting(q) BY DEF Same, Counting
<1>3. Counted(q)' BY <1>2 DEF Same, Counted
<1>4. Begun(q)' BY DEF Same, Begun
<1>5. Ordered(q)' BY <1>1 DEF Same, Ordered
<1> QED BY <1>3, <1>4, <1>5

-----------------------------------------------------------------------------
(* No more threads count than there are.                                   *)
LEMMA CountType ==
  ASSUME Types, NEW r \in Starts
  PROVE  /\ IsFiniteSet(Counting(r))
         /\ Cardinality(Counting(r)) \in 0..Total
<1>1. Counting(r) \subseteq Threads BY DEF Counting
<1>2. IsFiniteSet(Threads) BY DownloadAssumption
<1>3. IsFiniteSet(Counting(r)) /\ Cardinality(Counting(r)) <= Cardinality(Threads)
  BY <1>1, <1>2, FS_Subset
<1> QED BY <1>3, FS_CardinalityType DEF Total

(* The browser's steps do not touch the course of a download.              *)
LEMMA ClientCourse ==
  ASSUME CourseInv, NEW r \in Starts,
         Start(r) \/ Read(r) \/ EndOfStream(r) \/ Throw(r)
  PROVE  Counted(r)' /\ Begun(r)' /\ Ordered(r)'
<1>1. UNCHANGED downloadVars BY ClientSteps
<1>2. Told(r)' = Told(r) /\ Counting(r)' = Counting(r) BY <1>1 DEF Told, Counting, downloadVars
<1>3. Counted(r)' BY <1>1, <1>2 DEF CourseInv, Counted, downloadVars
<1>4. Ordered(r)' BY <1>1, <1>2 DEF CourseInv, Ordered, downloadVars
<1>5. Begun(r)'
  <2> USE DEF CourseInv, Begun, downloadVars, Types, ClientTypes
  <2>1. CASE Start(r) BY <1>1, <2>1 DEF Start
  <2>2. CASE Read(r) BY <1>1, <2>2 DEF Read
  <2>3. CASE EndOfStream(r) BY <1>1, <2>3 DEF EndOfStream
  <2>4. CASE Throw(r) BY <1>1, <2>4 DEF Throw, Gone
  <2> QED BY <2>1, <2>2, <2>3, <2>4
<1> QED BY <1>3, <1>4, <1>5

(* The request starts it.                                                  *)
LEMMA OpenedCourse ==
  ASSUME CourseInv, NEW r \in Starts, Opened(r)
  PROVE  Counted(r)' /\ Begun(r)' /\ Ordered(r)'
<1>1. stream[r] = "none" /\ queue[r] = <<>> /\ frames[r] = <<>>
  BY DEF CourseInv, Begun, Opened
<1>4. Len(Told(r)) = 0
  <2>1. Len(Told(r)) = Len(frames[r]) + Len(queue[r]) BY ToldType DEF CourseInv
  <2>2. Len(frames[r]) = 0 /\ Len(queue[r]) = 0 BY <1>1
  <2> QED BY <2>1, <2>2
<1>5. DOMAIN Told(r) = {} BY <1>4, ToldType DEF CourseInv
<1> USE DEF CourseInv, Types, ServerTypes, ClientTypes, Opened, PostDownload
<1>2. Told(r)' = Told(r) /\ Counting(r)' = Counting(r) BY DEF Told, Counting
<1>3. worker'[r] = "running" /\ stream'[r] = "open" /\ reader'[r] = "reading" OBVIOUS
<1>6. Counted(r)' BY <1>2, <1>3 DEF Counted
<1>7. Begun(r)' BY <1>3 DEF Begun
<1>8. Ordered(r)' BY <1>2, <1>3, <1>5 DEF Ordered
<1> QED BY <1>6, <1>7, <1>8

(* A thread adds its piece under the lock.                                 *)
LEMMA CountCourse ==
  ASSUME CourseInv, NEW r \in Starts, NEW h \in Threads, Count(r, h), UNCHANGED clientVars
  PROVE  Counted(r)' /\ Begun(r)' /\ Ordered(r)'
<1> USE DEF CourseInv, Types, ServerTypes, Count, clientVars
<1>1. Told(r)' = Told(r) BY DEF Told
<1>2. h \notin Counting(r) /\ Counting(r)' = Counting(r) \cup {h}
  <2>1. fetch'[r] = [fetch[r] EXCEPT ![h] = accrued[r] + 1] OBVIOUS
  <2>2. accrued[r] \in Nat /\ accrued[r] + 1 # Waiting BY DEF Waiting
  <2> QED BY <2>1, <2>2 DEF Counting
<1>3. Cardinality(Counting(r)') = Cardinality(Counting(r)) + 1
  BY <1>2, CountType, FS_AddElement
<1>4. accrued'[r] = accrued[r] + 1 /\ worker' = worker /\ worker[r] = "running" OBVIOUS
<1>5. Counted(r)' BY <1>3, <1>4 DEF Counted
<1>6. Begun(r)' BY DEF Begun
<1>7. Ordered(r)' BY <1>1, <1>4 DEF Ordered
<1> QED BY <1>5, <1>6, <1>7

(* What is told after an event is put on the queue.                          *)
LEMMA PutTold ==
  ASSUME CourseInv, NEW r \in Starts, NEW e \in Messages \cup {Sentinel},
         Put(r, e), frames' = frames
  PROVE  /\ DOMAIN Told(r) = 1..Len(Told(r)) /\ Len(Told(r)) \in Nat
         /\ DOMAIN (Told(r)') = 1..(Len(Told(r)) + 1)
         /\ Len(Told(r)') = Len(Told(r)) + 1
         /\ Told(r)'[Len(Told(r)) + 1] = e
         /\ \A i \in 1..Len(Told(r)) : Told(r)'[i] = Told(r)[i]
<1>1. Told(r)' = Append(Told(r), e) BY PutTells DEF CourseInv
<1>2. Told(r) \in Seq(Messages \cup {Sentinel}) BY ToldType DEF CourseInv
<1> QED BY <1>1, <1>2

(* A thread calls back, while the worker still runs.                       *)
LEMMA ReportCourse ==
  ASSUME CourseInv, NEW r \in Starts, NEW h \in Threads, Report(r, h), UNCHANGED clientVars
  PROVE  Counted(r)' /\ Begun(r)' /\ Ordered(r)'
<1> DEFINE e == Progress(fetch[r][h])
           n == Len(Told(r))
<1>1. e \in Messages /\ ~IsLast(e) /\ e # Sentinel
  BY DEF Report, Messages, IsLast, Progress, Done, Failure, Sentinel
<1>2. Total \in Nat BY TotalType
<1>3. worker[r] = "running"
  <2>1. fetch[r][h] \notin {Waiting, Reported} BY <1>2 DEF Report, Waiting, Reported
  <2>2. worker[r] \in {"none", "running", "told", "over"}
    BY DEF CourseInv, Types, ServerTypes
  <2> QED BY <2>1, <2>2 DEF CourseInv, Counted
<1>4. /\ DOMAIN Told(r) = 1..n /\ n \in Nat
      /\ DOMAIN (Told(r)') = 1..(n + 1)
      /\ Len(Told(r)') = n + 1
      /\ Told(r)'[n + 1] = e
      /\ \A i \in 1..n : Told(r)'[i] = Told(r)[i]
  BY <1>1, PutTold DEF Report
<1>5. \A i \in 1..n : ~IsLast(Told(r)[i]) /\ Told(r)[i] # Sentinel
  BY <1>3, <1>4 DEF CourseInv, Ordered
<1> USE DEF CourseInv, Types, ServerTypes, Report, clientVars
<1>6. worker'[r] = "running" /\ stream'[r] = stream[r] /\ stream[r] # "none"
  BY <1>3 DEF Begun
<1>7. Counted(r)'
  <2>1. fetch'[r] = [fetch[r] EXCEPT ![h] = Reported] OBVIOUS
  <2>2. fetch[r][h] # Waiting /\ Reported # Waiting BY <1>2 DEF Waiting, Reported
  <2>3. Counting(r)' = Counting(r) BY <2>1, <2>2 DEF Counting
  <2> QED BY <1>6, <2>3 DEF Counted
<1>8. Begun(r)' BY <1>6 DEF Begun
<1> HIDE DEF e, n, CourseInv, Types, ServerTypes, Report, clientVars
<1>9. stream[r] # "ended" BY <1>3 DEF CourseInv, Ordered
<1>10. \A i \in 1..(n + 1) : ~IsLast(Told(r)'[i]) /\ Told(r)'[i] # Sentinel
  BY <1>1, <1>4, <1>5
<1>11. Ordered(r)' BY <1>4, <1>6, <1>9, <1>10 DEF Ordered
<1> QED BY <1>7, <1>8, <1>11

(* The worker tells the outcome when its threads are done.                 *)
LEMMA TellCourse ==
  ASSUME CourseInv, NEW r \in Starts, Succeed(r) \/ Fail(r), UNCHANGED clientVars
  PROVE  Counted(r)' /\ Begun(r)' /\ Ordered(r)'
<1> DEFINE n == Len(Told(r))
<1>1. PICK e \in {Done, Failure} :
        /\ Tell(r, e)
        /\ \A h \in Threads : fetch[r][h] \in {Waiting, Reported}
        /\ e = Done => \A h \in Threads : fetch[r][h] = Reported
  BY DEF Succeed, Fail, Done, Failure
<1>2. e \in Messages /\ IsLast(e) /\ e # Sentinel
  BY DEF Messages, IsLast, Done, Failure, Sentinel
<1>4. /\ DOMAIN Told(r) = 1..n /\ n \in Nat
      /\ DOMAIN (Told(r)') = 1..(n + 1)
      /\ Len(Told(r)') = n + 1
      /\ Told(r)'[n + 1] = e
      /\ \A i \in 1..n : Told(r)'[i] = Told(r)[i]
  BY <1>1, <1>2, PutTold DEF Tell
<1>5. \A i \in 1..n : ~IsLast(Told(r)[i]) /\ Told(r)[i] # Sentinel
  BY <1>1, <1>4 DEF CourseInv, Ordered, Tell
<1>6. stream[r] # "none" /\ stream[r] # "ended" BY <1>1 DEF CourseInv, Ordered, Begun, Tell
<1>7. /\ worker'[r] = "told" /\ stream' = stream /\ fetch' = fetch /\ accrued' = accrued
      /\ wire' = wire /\ frames' = frames /\ reader' = reader
  BY <1>1 DEF CourseInv, Types, ServerTypes, Tell, clientVars
<1>8. Counting(r)' = Counting(r) BY <1>7 DEF Counting
<1>9. Counted(r)' BY <1>1, <1>7, <1>8 DEF CourseInv, Counted
<1>10. Begun(r)' BY <1>6, <1>7 DEF CourseInv, Begun
<1>11. Ordered(r)'
  <2> HIDE DEF n
  <2>1. \A i \in 1..(n + 1) : Told(r)'[i] # Sentinel /\ (IsLast(Told(r)'[i]) <=> i = n + 1)
    BY <1>2, <1>4, <1>5
  <2>2. \A i \in 1..(n + 1) : IsLast(Told(r)'[i]) =>
          /\ \A k \in 1..(n + 1) : k > i => Told(r)'[k] = Sentinel
          /\ Told(r)'[i] = Done => \A h \in Threads : fetch[r][h] = Reported
    BY <1>1, <1>4, <2>1
  <2>3. n + 1 \in 1..(n + 1) BY <1>4
  <2> QED BY <1>4, <1>6, <1>7, <2>1, <2>2, <2>3 DEF Ordered
<1> QED BY <1>9, <1>10, <1>11

(* The worker puts the sentinel behind the outcome.                        *)
LEMMA CloseCourse ==
  ASSUME CourseInv, NEW r \in Starts, Close(r), UNCHANGED clientVars
  PROVE  Counted(r)' /\ Begun(r)' /\ Ordered(r)'
<1> DEFINE n == Len(Told(r))
<1>4. /\ DOMAIN Told(r) = 1..n /\ n \in Nat
      /\ DOMAIN (Told(r)') = 1..(n + 1)
      /\ Len(Told(r)') = n + 1
      /\ Told(r)'[n + 1] = Sentinel
      /\ \A i \in 1..n : Told(r)'[i] = Told(r)[i]
  BY PutTold DEF Close
<1>5. \A i \in 1..n : Told(r)[i] # Sentinel
  BY <1>4 DEF CourseInv, Ordered, Close
<1>6. stream[r] # "none" /\ stream[r] # "ended" BY DEF CourseInv, Ordered, Begun, Close
<1>7. /\ worker'[r] = "over" /\ stream' = stream /\ fetch' = fetch /\ accrued' = accrued
      /\ wire' = wire /\ frames' = frames /\ reader' = reader /\ worker[r] = "told"
  BY DEF CourseInv, Types, ServerTypes, Close, clientVars
<1>8. Counting(r)' = Counting(r) BY <1>7 DEF Counting
<1>9. Counted(r)' BY <1>7, <1>8 DEF CourseInv, Counted
<1>10. Begun(r)' BY <1>6, <1>7 DEF CourseInv, Begun
<1>11. Ordered(r)'
  <2> HIDE DEF n
  <2>0. Ordered(r) BY DEF CourseInv
  <2>1. \A i \in 1..(n + 1) : Told(r)'[i] = Sentinel <=> i = n + 1
    BY <1>4, <1>5
  <2>2. \A i \in 1..(n + 1) : IsLast(Told(r)'[i]) =>
          /\ \A k \in 1..(n + 1) : k > i => Told(r)'[k] = Sentinel
          /\ Told(r)'[i] = Done => \A h \in Threads : fetch[r][h] = Reported
    <3> TAKE i \in 1..(n + 1)
    <3> HAVE IsLast(Told(r)'[i])
    <3>1. i \in 1..n /\ Told(r)'[i] = Told(r)[i] BY <1>4, SentinelApart
    <3>2. /\ \A k \in 1..n : k > i => Told(r)[k] = Sentinel
          /\ Told(r)[i] = Done => \A h \in Threads : fetch[r][h] = Reported
      BY <1>4, <2>0, <3>1 DEF Ordered
    <3> QED BY <1>4, <3>1, <3>2
  <2>3. \E i \in 1..(n + 1) : IsLast(Told(r)'[i])
    <3>1. PICK i \in 1..n : IsLast(Told(r)[i]) BY <1>4, <1>7, <2>0 DEF Ordered
    <3>2. i \in 1..(n + 1) /\ Told(r)'[i] = Told(r)[i] BY <1>4
    <3> QED BY <3>1, <3>2
  <2>4. \E i \in DOMAIN queue'[r] : queue'[r][i] = Sentinel
    <3>1. queue'[r] = Append(queue[r], Sentinel) /\ queue[r] \in Seq(Messages \cup {Sentinel})
      BY DEF Close, Put, CourseInv, Types, ServerTypes
    <3>2. Len(queue[r]) + 1 \in DOMAIN queue'[r] /\ queue'[r][Len(queue[r]) + 1] = Sentinel
      BY <3>1
    <3> QED BY <3>2
  <2> QED BY <1>4, <1>6, <1>7, <2>1, <2>2, <2>3, <2>4 DEF Ordered
<1> QED BY <1>9, <1>10, <1>11

(* event_stream moves the head of the queue to the wire, so what is told   *)
(* stays the same; only a sentinel disappears, and the stream ends.        *)
LEMMA ForwardCourse ==
  ASSUME CourseInv, NEW r \in Starts, Forward(r), UNCHANGED clientVars
  PROVE  Counted(r)' /\ Begun(r)' /\ Ordered(r)'
<1> DEFINE M == Messages \cup {Sentinel}
           R == [event : Messages, end : Nat]
<1>0. PICK F \in Seq(R), Q \in Seq(M) : F = frames[r] /\ Q = queue[r]
  BY DEF CourseInv, Types, ServerTypes
<1>1. PICK m \in Nat, n \in Nat : m = Len(F) /\ n = Len(Q) BY <1>0
<1>2. Q # <<>> /\ stream[r] = "open" BY <1>0 DEF Forward
<1>3. /\ Head(Q) \in M /\ Head(Q) = Q[1] /\ n > 0
      /\ Tail(Q) \in Seq(M) /\ Len(Tail(Q)) = n - 1
      /\ n = 1 => Tail(Q) = <<>>
      /\ \A i \in 1..(n - 1) : Tail(Q)[i] = Q[i + 1]
  BY <1>1, <1>2
<1>4. /\ queue'[r] = Tail(Q) /\ worker' = worker /\ fetch' = fetch
      /\ accrued' = accrued /\ reader' = reader
  BY <1>0 DEF CourseInv, Types, ServerTypes, Forward, clientVars
<1>5. /\ DOMAIN Told(r) = 1..(m + n) /\ Len(Told(r)) = m + n
      /\ \A i \in 1..m : Told(r)[i] = F[i].event
      /\ \A i \in 1..n : Told(r)[m + i] = Q[i]
  BY <1>0, <1>1, Joined DEF Told
<1>6. Ordered(r) /\ Begun(r) /\ Counted(r) BY DEF CourseInv
<1>7. Counting(r)' = Counting(r) BY <1>4 DEF Counting
<1>8. Counted(r)' BY <1>4, <1>6, <1>7 DEF Counted
<1>9. reader[r] = "reading" /\ worker[r] # "none"
  BY <1>2, <1>6 DEF Begun, CourseInv, Types, ClientTypes
<1> HIDE DEF M
<1>10. CASE Head(Q) = Sentinel
  <2>1. m + 1 \in 1..(m + n) /\ Told(r)[m + 1] = Sentinel
    <3>1. 1 \in 1..n BY <1>3
    <3> QED BY <1>3, <1>5, <1>10, <3>1
  <2>2. n = 1 /\ worker[r] = "over"
    <3>1. m + 1 = m + n /\ worker[r] = "over" BY <1>5, <1>6, <2>1 DEF Ordered
    <3> QED BY <3>1
  <2>3. queue'[r] = <<>> /\ frames'[r] = F /\ stream'[r] = "ended"
    <3>1. Tail(Q) = <<>> BY <1>3, <2>2 
    <3> QED BY <1>0, <1>4, <1>10, <3>1 DEF CourseInv, Types, ServerTypes, Forward
  <2>4. Begun(r)' BY <1>4, <1>9, <2>3 DEF Begun
  <2>5. Told(r)' = Join(F, <<>>) BY <2>3 DEF Told
  <2>6. /\ DOMAIN (Told(r)') = 1..m /\ Len(Told(r)') = m
        /\ \A i \in 1..m : Told(r)'[i] = Told(r)[i]
    <3>1. <<>> \in Seq(M) /\ Len(<<>>) = 0 OBVIOUS
    <3>2. /\ DOMAIN Join(F, <<>>) = 1..(Len(F) + Len(<<>>))
          /\ Len(Join(F, <<>>)) = Len(F) + Len(<<>>)
          /\ \A i \in 1..Len(F) : Join(F, <<>>)[i] = F[i].event
      BY <1>0, <3>1, Joined DEF M
    <3>3. /\ DOMAIN Join(F, <<>>) = 1..m /\ Len(Join(F, <<>>)) = m
          /\ \A i \in 1..m : Join(F, <<>>)[i] = F[i].event
      BY <1>1, <3>1, <3>2
    <3> QED BY <1>5, <2>2, <2>5, <3>3
  <2>7. \A i \in 1..m : Told(r)[i] # Sentinel
    <3>1. \A i \in 1..m : i \in DOMAIN Told(r) /\ i # Len(Told(r)) BY <1>5, <2>2
    <3> QED BY <1>6, <3>1 DEF Ordered
  <2>8. PICK i \in 1..m : IsLast(Told(r)[i])
    <3>1. PICK i \in 1..(m + n) : IsLast(Told(r)[i]) BY <1>5, <1>6, <2>2 DEF Ordered
    <3>2. i # m + 1 BY <2>1, <3>1, SentinelApart
    <3> QED BY <2>2, <3>1, <3>2
  <2>9. \A k \in 1..m : IsLast(Told(r)'[k]) =>
          /\ worker[r] \in {"told", "over"}
          /\ \A l \in 1..m : l > k => Told(r)'[l] = Sentinel
          /\ Told(r)'[k] = Done => \A h \in Threads : fetch[r][h] = Reported
    <3> TAKE k \in 1..m
    <3> HAVE IsLast(Told(r)'[k])
    <3>0. k \in 1..(m + n) BY <2>2
    <3>1. k \in DOMAIN Told(r) /\ IsLast(Told(r)[k]) BY <1>5, <2>6, <3>0
    <3>2. \A l \in 1..m : l \in DOMAIN Told(r) BY <1>5, <2>2
    <3> QED BY <1>6, <2>6, <3>1, <3>2 DEF Ordered
  <2>10. Ordered(r)'
    <3>1. IsLast(Told(r)'[i]) BY <2>6, <2>8
    <3> QED BY <1>4, <2>2, <2>3, <2>6, <2>7, <2>9, <3>1 DEF Ordered
  <2> QED BY <1>8, <2>4, <2>10
<1>11. CASE Head(Q) # Sentinel
  <2>1. Head(Q) \in Messages BY <1>3, <1>11 DEF M
  <2>2. PICK end \in Nat : frames'[r] = Append(F, [event |-> Head(Q), end |-> end])
    <3>1. wire'[r] \in Seq(Symbol)
      <4>1. wire[r] \o Frame(Head(Q)) \in Seq(Symbol)
        BY <2>1, FrameType DEF CourseInv, Types, ServerTypes
      <4> QED BY <1>0, <1>11, <4>1 DEF Forward, CourseInv, Types, ServerTypes
    <3>2. frames'[r] = Append(F, [event |-> Head(Q), end |-> Len(wire'[r])])
      BY <1>0, <1>11 DEF Forward, CourseInv, Types, ServerTypes
    <3> QED BY <3>1, <3>2
  <2>3. stream' = stream BY <1>0, <1>11 DEF Forward
  <2> DEFINE G == Append(F, [event |-> Head(Q), end |-> end])
  <2>4. G \in Seq(R) /\ Len(G) = m + 1 /\ G[m + 1].event = Head(Q) /\ \A i \in 1..m : G[i] = F[i]
    <3>1. [event |-> Head(Q), end |-> end] \in R BY <2>1
    <3> HIDE DEF R
    <3> QED BY <1>1, <3>1, AppendProperties
  <2>5. Told(r)' = Join(G, Tail(Q)) BY <1>4, <2>2 DEF Told
  <2> HIDE DEF G
  <2>6. /\ DOMAIN Join(G, Tail(Q)) = 1..(m + 1 + (n - 1)) /\ Len(Join(G, Tail(Q))) = m + 1 + (n - 1)
        /\ \A i \in 1..(m + 1) : Join(G, Tail(Q))[i] = G[i].event
        /\ \A i \in 1..(n - 1) : Join(G, Tail(Q))[m + 1 + i] = Tail(Q)[i]
    <3>1. /\ DOMAIN Join(G, Tail(Q)) = 1..(Len(G) + Len(Tail(Q)))
          /\ Len(Join(G, Tail(Q))) = Len(G) + Len(Tail(Q))
          /\ \A i \in 1..Len(G) : Join(G, Tail(Q))[i] = G[i].event
          /\ \A i \in 1..Len(Tail(Q)) : Join(G, Tail(Q))[Len(G) + i] = Tail(Q)[i]
      BY <1>3, <2>4, Joined DEF M
    <3> QED BY <1>3, <2>4, <3>1
  <2>7. DOMAIN (Told(r)') = DOMAIN Told(r) /\ Len(Told(r)') = Len(Told(r))
    BY <1>5, <2>5, <2>6
  <2>8. ASSUME NEW i \in 1..(m + n) PROVE Told(r)'[i] = Told(r)[i]
    <3>1. CASE i \in 1..m
      <4>1. i \in 1..(m + 1) BY <3>1
      <4>2. Told(r)'[i] = G[i].event BY <2>5, <2>6, <4>1
      <4>3. Told(r)[i] = F[i].event BY <1>5, <3>1
      <4> QED BY <2>4, <3>1, <4>2, <4>3
    <3>2. CASE i = m + 1
      <4>1. 1 \in 1..n /\ m + 1 \in 1..(m + 1) BY <1>3
      <4> QED BY <1>3, <1>5, <2>4, <2>5, <2>6, <3>2, <4>1
    <3>3. CASE i > m + 1
      <4>1. PICK k \in 1..(n - 1) : i = m + 1 + k
        <5>1. i - (m + 1) \in 1..(n - 1) BY <1>3, <3>3
        <5> QED BY <5>1
      <4>2. Told(r)'[i] = Q[k + 1] BY <1>3, <2>5, <2>6, <4>1
      <4>3. k + 1 \in 1..n /\ i = m + (k + 1) BY <4>1
      <4> QED BY <1>5, <4>2, <4>3
    <3> QED BY <3>1, <3>2, <3>3
  <2>9. Begun(r)' BY <1>2, <1>4, <1>6, <1>9, <2>3 DEF Begun
  <2>10. worker[r] = "over" => \E i \in DOMAIN queue'[r] : queue'[r][i] = Sentinel
    <3> SUFFICES ASSUME worker[r] = "over" PROVE \E i \in DOMAIN queue'[r] : queue'[r][i] = Sentinel
      OBVIOUS
    <3>1. PICK i \in 1..n : Q[i] = Sentinel BY <1>0, <1>1, <1>2, <1>6 DEF Ordered
    <3>2. i # 1 BY <1>3, <1>11, <3>1
    <3>3. i - 1 \in 1..(n - 1) /\ (i - 1) + 1 = i BY <3>2
    <3>4. Tail(Q)[i - 1] = Sentinel BY <1>3, <3>1, <3>3
    <3>5. DOMAIN Tail(Q) = 1..(n - 1) BY <1>3
    <3> QED BY <1>4, <3>3, <3>4, <3>5
  <2>11. Ordered(r)'
    <3>1. \A i \in DOMAIN Told(r) : Told(r)'[i] = Told(r)[i] BY <1>5, <2>8
    <3> QED BY <1>2, <1>4, <1>6, <2>3, <2>7, <2>10, <3>1 DEF Ordered
  <2> QED BY <1>8, <2>9, <2>11
<1> QED BY <1>10, <1>11

(* Comments and broken connections change nothing of what is told.         *)
LEMMA PingBreakCourse ==
  ASSUME CourseInv, NEW r \in Starts, Ping(r) \/ Break(r), UNCHANGED clientVars
  PROVE  Counted(r)' /\ Begun(r)' /\ Ordered(r)'
<1>1. /\ fetch' = fetch /\ accrued' = accrued /\ worker' = worker /\ queue' = queue
      /\ frames' = frames /\ reader' = reader /\ stream[r] = "open"
      /\ stream'[r] \in {"open", "broken"}
  BY DEF CourseInv, Types, ServerTypes, Ping, Break, clientVars
<1>2. Told(r)' = Told(r) /\ Counting(r)' = Counting(r) BY <1>1 DEF Told, Counting
<1>3. Counted(r) /\ Begun(r) /\ Ordered(r) BY DEF CourseInv
<1>4. Counted(r)' BY <1>1, <1>2, <1>3 DEF Counted
<1>5. Begun(r)'
  <2>1. reader[r] = "reading" BY <1>1, <1>3 DEF Begun, CourseInv, Types, ClientTypes
  <2> QED BY <1>1, <1>3, <2>1 DEF Begun
<1>6. Ordered(r)' BY <1>1, <1>2, <1>3 DEF Ordered
<1> QED BY <1>4, <1>5, <1>6

(* The course of the downloads is an invariant.                            *)
LEMMA InitCourse == SystemInit => CourseInv
<1> SUFFICES ASSUME SystemInit PROVE CourseInv OBVIOUS
<1>1. Types BY InitTypes
<1> SUFFICES ASSUME NEW r \in Starts PROVE Counted(r) /\ Begun(r) /\ Ordered(r)
  BY <1>1 DEF CourseInv
<1> USE DEF SystemInit, DownloadInit, ClientInit
<1>2. Counting(r) = {} BY DEF Counting
<1>3. Counted(r) BY <1>2, FS_EmptySet DEF Counted
<1>4. Begun(r) BY DEF Begun
<1>5. DOMAIN Told(r) = {}
  <2>1. DOMAIN Told(r) = 1..(Len(frames[r]) + Len(queue[r])) BY <1>1, ToldType
  <2>2. Len(frames[r]) = 0 /\ Len(queue[r]) = 0 OBVIOUS
  <2> QED BY <2>1, <2>2
<1>6. Ordered(r) BY <1>5 DEF Ordered
<1> QED BY <1>3, <1>4, <1>6

LEMMA NextCourse == CourseInv /\ [DownloadNext]_allDownloadVars => CourseInv'
<1> SUFFICES ASSUME CourseInv, [DownloadNext]_allDownloadVars PROVE CourseInv' OBVIOUS
<1>1. Types' BY NextTypes DEF CourseInv
<1>2. CASE UNCHANGED allDownloadVars
  <2>1. \A q \in Starts : Same(q) BY <1>2 DEF allDownloadVars, downloadVars, clientVars, Same
  <2> QED BY <1>1, <2>1, SameCourse DEF CourseInv
<1>3. CASE DownloadNext
  <2>1. PICK r \in Starts : StepOf(r) BY <1>3 DEF DownloadNext, StepOf
  <2>2. \A q \in Starts \ {r} : Counted(q)' /\ Begun(q)' /\ Ordered(q)'
    BY <2>1, OthersSame, SameCourse DEF CourseInv
  <2>3. Counted(r)' /\ Begun(r)' /\ Ordered(r)'
    BY <2>1, ClientCourse, OpenedCourse, CountCourse, ReportCourse, TellCourse, CloseCourse,
       ForwardCourse, PingBreakCourse DEF StepOf, Run, Work
  <2> QED BY <1>1, <2>2, <2>3 DEF CourseInv
<1> QED BY <1>2, <1>3

-----------------------------------------------------------------------------
(* Symbols are told apart by their kind.                                   *)
LEMMA SymbolIs ==
  /\ CR.is = "cr" /\ LF.is = "lf" /\ Comment.is = "comment"
  /\ \A e, h : Data(e, h).is = "data" /\ Data(e, h).event = e /\ Data(e, h).half = h
  /\ \A x \in Symbol : (x = LF <=> x.is = "lf") /\ (x = CR <=> x.is = "cr")
BY DEF CR, LF, Comment, Data, Symbol

(* Where blank lines end, symbol by symbol.                                  *)
LEMMA BlanksIs ==
  ASSUME NEW b \in Seq(Symbol)
  PROVE  /\ Blanks(b) \subseteq 1..Len(b)
         /\ \A i \in 1..Len(b) : i \in Blanks(b) <=>
               /\ b[i].is = "lf"
               /\ \/ i > 1 /\ b[i - 1].is = "lf"
                  \/ i > 2 /\ b[i - 1].is = "cr" /\ b[i - 2].is = "lf"
<1>1. Blanks(b) \subseteq 1..Len(b) BY DEF Blanks, BlanksRaw
<1>2. ASSUME NEW i \in 1..Len(b)
      PROVE  i \in Blanks(b) <=>
               /\ b[i].is = "lf"
               /\ \/ i > 1 /\ b[i - 1].is = "lf"
                  \/ i > 2 /\ b[i - 1].is = "cr" /\ b[i - 2].is = "lf"
  <2>1. \A k \in 1..Len(b) : (b[k] = LF <=> b[k].is = "lf") /\ (b[k] = CR <=> b[k].is = "cr")
    BY SymbolIs
  <2>2. i > 1 => i - 1 \in 1..Len(b) OBVIOUS
  <2>3. i > 2 => i - 1 \in 1..Len(b) /\ i - 2 \in 1..Len(b) OBVIOUS
  <2> QED BY <2>1, <2>2, <2>3 DEF Blanks, BlanksRaw
<1> QED BY <1>1, <1>2

(* Blank lines of what was sent and what is sent next.                       *)
LEMMA Grown ==
  ASSUME NEW W \in Seq(Symbol), NEW C \in Seq(Symbol), Len(C) >= 2,
         C[1].is \notin {"cr", "lf"}
  PROVE  /\ W \o C \in Seq(Symbol) /\ Len(W \o C) = Len(W) + Len(C)
         /\ \A i \in 1..Len(W) : (W \o C)[i] = W[i]
         /\ \A i \in 1..Len(C) : (W \o C)[Len(W) + i] = C[i]
         /\ \A i \in 1..Len(W) : i \in Blanks(W \o C) <=> i \in Blanks(W)
         /\ \A i \in 1..Len(C) : Len(W) + i \in Blanks(W \o C) <=> i \in Blanks(C)
<1> DEFINE D == W \o C
<1>1. /\ D \in Seq(Symbol) /\ Len(D) = Len(W) + Len(C)
      /\ \A i \in 1..(Len(W) + Len(C)) : D[i] = IF i <= Len(W) THEN W[i] ELSE C[i - Len(W)]
  BY ConcatProperties
<1> HIDE DEF D
<1>2. Len(W) \in Nat /\ Len(C) \in Nat OBVIOUS
<1>3. \A i \in 1..Len(W) : D[i] = W[i] BY <1>1, <1>2
<1>4. \A i \in 1..Len(C) : D[Len(W) + i] = C[i]
  <2> TAKE i \in 1..Len(C)
  <2>1. Len(W) + i \in 1..(Len(W) + Len(C)) /\ ~(Len(W) + i <= Len(W)) /\ (Len(W) + i) - Len(W) = i
    BY <1>2
  <2> QED BY <1>1, <2>1
<1>5. ASSUME NEW i \in 1..Len(W) PROVE i \in Blanks(D) <=> i \in Blanks(W)
  <2>1. i \in 1..Len(D) BY <1>1, <1>2
  <2>2. i > 1 => i - 1 \in 1..Len(W) BY <1>2
  <2>3. i > 2 => i - 2 \in 1..Len(W) BY <1>2
  <2>4. i \in Blanks(D) <=>
               /\ D[i].is = "lf"
               /\ \/ i > 1 /\ D[i - 1].is = "lf"
                  \/ i > 2 /\ D[i - 1].is = "cr" /\ D[i - 2].is = "lf"
    BY <1>1, <2>1, BlanksIs
  <2>5. i \in Blanks(W) <=>
               /\ W[i].is = "lf"
               /\ \/ i > 1 /\ W[i - 1].is = "lf"
                  \/ i > 2 /\ W[i - 1].is = "cr" /\ W[i - 2].is = "lf"
    BY BlanksIs
  <2> QED BY <1>3, <2>2, <2>3, <2>4, <2>5, SMTT(30)
<1>6. ASSUME NEW i \in 1..Len(C) PROVE Len(W) + i \in Blanks(D) <=> i \in Blanks(C)
  <2>1. Len(W) + i \in 1..Len(D) BY <1>1, <1>2
  <2> DEFINE j == Len(W) + i
  <2>2. j \in Blanks(D) <=>
               /\ D[j].is = "lf"
               /\ \/ j > 1 /\ D[j - 1].is = "lf"
                  \/ j > 2 /\ D[j - 1].is = "cr" /\ D[j - 2].is = "lf"
    BY <1>1, <2>1, BlanksIs
  <2>3. i \in Blanks(C) <=>
               /\ C[i].is = "lf"
               /\ \/ i > 1 /\ C[i - 1].is = "lf"
                  \/ i > 2 /\ C[i - 1].is = "cr" /\ C[i - 2].is = "lf"
    BY BlanksIs
  <2>4. D[j] = C[i] BY <1>4
  <2>5. CASE i = 1 BY <2>2, <2>3, <2>4, <2>5
  <2>6. CASE i = 2
    <3>1. j - 1 = Len(W) + 1 /\ 1 \in 1..Len(C) BY <1>2, <2>6
    <3>2. D[j - 1] = C[1] BY <1>4, <3>1
    <3> QED BY <2>2, <2>3, <2>6, <3>2
  <2>7. CASE i > 2
    <3>1. i - 1 \in 1..Len(C) /\ i - 2 \in 1..Len(C) BY <1>2, <2>7
    <3>2. Len(W) + (i - 1) = j - 1 /\ Len(W) + (i - 2) = j - 2 BY <1>2
    <3>3. D[j - 1] = C[i - 1] /\ D[j - 2] = C[i - 2] BY <1>4, <3>1, <3>2
    <3>4. j > 2 /\ i > 1 /\ j > 1 BY <1>2, <2>7
    <3> QED BY <2>2, <2>3, <2>4, <2>7, <3>3, <3>4
  <2> QED BY <1>2, <2>5, <2>6, <2>7
<1> QED BY <1>1, <1>3, <1>4, <1>5, <1>6 DEF D

-----------------------------------------------------------------------------
(* How the frames lie in what was sent.                                      *)
Width == IF style.crlf THEN 2 ELSE 1
Bare(e) == IsLast(e) /\ ~style.blankAtEnd
Ending(e) == IF Bare(e) THEN Width ELSE 2 * Width
Begin(f) == f.end - Ending(f.event) - 2

Laid(W, F) ==
    /\ \A i \in DOMAIN F :
          /\ 0 <= Begin(F[i]) /\ F[i].end <= Len(W)
          /\ W[Begin(F[i]) + 1] = Data(F[i].event, 1)
          /\ W[Begin(F[i]) + 2] = Data(F[i].event, 2)
          /\ F[i].end \in Blanks(W) <=> ~Bare(F[i].event)
          /\ Bare(F[i].event) => F[i].end = Len(W)
    /\ \A i, k \in DOMAIN F : i < k => F[i].end <= Begin(F[k])
    /\ \A n \in DOMAIN W : W[n].is = "data" =>
          \E i \in DOMAIN F : n \in {Begin(F[i]) + 1, Begin(F[i]) + 2}
    /\ \A p \in Blanks(W) :
          /\ \A i \in DOMAIN F : p <= Begin(F[i]) \/ F[i].end <= p
          /\ p + 1 \in DOMAIN W => W[p + 1].is \in {"data", "comment"}

(* A line end after some symbols.                                           *)
LEMMA Ended ==
  ASSUME NEW H \in Seq(Symbol)
  PROVE  /\ H \o LineEnd \in Seq(Symbol) /\ Len(H \o LineEnd) = Len(H) + Width
         /\ Width \in {1, 2}
         /\ \A i \in 1..Len(H) : (H \o LineEnd)[i] = H[i]
         /\ (H \o LineEnd)[Len(H) + Width] = LF
         /\ Width = 2 => (H \o LineEnd)[Len(H) + 1] = CR
<1>1. LineEnd \in Seq(Symbol) BY LineEndType
<1>2. /\ Width \in {1, 2} /\ Len(LineEnd) = Width /\ LineEnd[Width] = LF
      /\ Width = 2 => LineEnd[1] = CR
  BY DEF LineEnd, Width
<1> DEFINE E == LineEnd
<1> HIDE DEF E
<1>3. /\ H \o E \in Seq(Symbol) /\ Len(H \o E) = Len(H) + Len(E)
      /\ \A i \in 1..(Len(H) + Len(E)) : (H \o E)[i] = IF i <= Len(H) THEN H[i] ELSE E[i - Len(H)]
  BY <1>1, ConcatProperties DEF E
<1>4. Len(H) \in Nat OBVIOUS
<1>5. \A i \in 1..Len(H) : (H \o E)[i] = H[i] BY <1>2, <1>3, <1>4
<1>6. \A i \in 1..Width : (H \o E)[Len(H) + i] = E[i]
  <2> TAKE i \in 1..Width
  <2>1. Len(H) + i \in 1..(Len(H) + Width) /\ ~(Len(H) + i <= Len(H)) /\ (Len(H) + i) - Len(H) = i
    BY <1>2, <1>4
  <2> QED BY <1>2, <1>3, <2>1 DEF E
<1>7. Width \in 1..Width /\ 1 \in 1..Width BY <1>2
<1> QED BY <1>2, <1>3, <1>5, <1>6, <1>7 DEF E

(* Where the blank lines of a frame or a comment end.                        *)
LEMMA Shapes ==
  ASSUME NEW X \in Seq(Symbol), NEW n \in Nat, n >= 1,
         \A i \in 1..n : X[i].is \notin {"cr", "lf"}
  PROVE  /\ Len(X) = n + 1 => \A i \in 1..Len(X) : i \notin Blanks(X)
         /\ Len(X) = n + 2 /\ X[n + 1].is = "cr" => \A i \in 1..Len(X) : i \notin Blanks(X)
         /\ Len(X) = n + 2 /\ X[n + 1].is = "lf" /\ X[n + 2].is = "lf" =>
               \A i \in 1..Len(X) : i \in Blanks(X) <=> i = Len(X)
         /\ /\ Len(X) = n + 4 /\ X[n + 1].is = "cr" /\ X[n + 2].is = "lf"
            /\ X[n + 3].is = "cr" /\ X[n + 4].is = "lf"
            => \A i \in 1..Len(X) : i \in Blanks(X) <=> i = Len(X)
<1>1. \A i \in 1..Len(X) : i \in Blanks(X) <=>
               /\ X[i].is = "lf"
               /\ \/ i > 1 /\ X[i - 1].is = "lf"
                  \/ i > 2 /\ X[i - 1].is = "cr" /\ X[i - 2].is = "lf"
  BY BlanksIs
<1>2. ASSUME NEW i \in 1..Len(X), i \in 1..n PROVE i \notin Blanks(X) BY <1>1, <1>2
<1>3. ASSUME n + 1 \in 1..Len(X) PROVE n + 1 \notin Blanks(X)
  <2>1. n \in 1..n /\ (n + 1) - 1 = n OBVIOUS
  <2> QED BY <1>1, <1>3, <2>1
<1>4. ASSUME n + 2 \in 1..Len(X) PROVE n + 2 \in Blanks(X) <=> X[n + 2].is = "lf" /\ X[n + 1].is = "lf"
  <2>1. n \in 1..n /\ (n + 2) - 2 = n /\ (n + 2) - 1 = n + 1 /\ n + 2 > 2 OBVIOUS
  <2> QED BY <1>1, <1>4, <2>1
<1>5. ASSUME n + 3 \in 1..Len(X), X[n + 3].is # "lf" PROVE n + 3 \notin Blanks(X)
  BY <1>1, <1>5
<1>6. ASSUME n + 4 \in 1..Len(X), X[n + 4].is = "lf", X[n + 3].is = "cr", X[n + 2].is = "lf"
      PROVE  n + 4 \in Blanks(X)
  <2>1. (n + 4) - 2 = n + 2 /\ (n + 4) - 1 = n + 3 /\ n + 4 > 2 OBVIOUS
  <2> QED BY <1>1, <1>6, <2>1
<1>7. \A i \in 1..(n + 4) : i \in 1..n \/ i \in {n + 1, n + 2, n + 3, n + 4} OBVIOUS
<1>8. CASE Len(X) = n + 1 BY <1>2, <1>3, <1>7, <1>8
<1>9. CASE Len(X) = n + 2 BY <1>2, <1>3, <1>4, <1>7, <1>9
<1>10. CASE /\ Len(X) = n + 4 /\ X[n + 1].is = "cr" /\ X[n + 2].is = "lf"
            /\ X[n + 3].is = "cr" /\ X[n + 4].is = "lf"
  <2>1. n + 1 \in 1..Len(X) /\ n + 2 \in 1..Len(X) /\ n + 3 \in 1..Len(X) /\ n + 4 \in 1..Len(X)
    BY <1>10
  <2>2. n + 1 \notin Blanks(X) /\ n + 2 \notin Blanks(X) /\ n + 3 \notin Blanks(X) /\ n + 4 \in Blanks(X)
    BY <1>3, <1>4, <1>5, <1>6, <1>10, <2>1
  <2> QED BY <1>2, <1>7, <1>10, <2>2
<1> QED BY <1>8, <1>9, <1>10

(* What is appended: a frame, or a comment.                                  *)
LEMMA Closed ==
  ASSUME NEW H \in Seq(Symbol), NEW n \in Nat, n = Len(H), n >= 1,
         \A i \in 1..n : H[i].is \notin {"cr", "lf"}
  PROVE  LET A == H \o LineEnd
             B == A \o LineEnd
         IN /\ Width \in {1, 2}
            /\ A \in Seq(Symbol) /\ Len(A) = n + Width
            /\ B \in Seq(Symbol) /\ Len(B) = n + 2 * Width
            /\ \A i \in 1..n : A[i] = H[i] /\ B[i] = H[i]
            /\ \A i \in 1..Len(A) : i > n => A[i].is \in {"cr", "lf"}
            /\ \A i \in 1..Len(B) : i > n => B[i].is \in {"cr", "lf"}
            /\ \A i \in 1..Len(A) : i \notin Blanks(A)
            /\ \A i \in 1..Len(B) : i \in Blanks(B) <=> i = Len(B)
<1> DEFINE A == H \o LineEnd
           B == A \o LineEnd
<1>1. CR.is = "cr" /\ LF.is = "lf" BY SymbolIs
<1>2. /\ A \in Seq(Symbol) /\ Len(A) = n + Width /\ Width \in {1, 2}
      /\ \A i \in 1..n : A[i] = H[i]
      /\ A[n + Width] = LF /\ (Width = 2 => A[n + 1] = CR)
  BY Ended
<1> HIDE DEF A
<1>3. /\ B \in Seq(Symbol) /\ Len(B) = Len(A) + Width
      /\ \A i \in 1..Len(A) : B[i] = A[i]
      /\ B[Len(A) + Width] = LF /\ (Width = 2 => B[Len(A) + 1] = CR)
  BY <1>2, Ended
<1> HIDE DEF B
<1>4. /\ Len(B) = n + 2 * Width /\ \A i \in 1..(n + Width) : B[i] = A[i]
      /\ B[n + 2 * Width] = LF /\ (Width = 2 => B[n + 3] = CR)
  <2>1. CASE Width = 1 BY <1>2, <1>3, <2>1
  <2>2. CASE Width = 2 BY <1>2, <1>3, <2>2
  <2> QED BY <1>2, <2>1, <2>2
<1>5. \A i \in 1..n : B[i] = H[i] BY <1>2, <1>4
<1>6. ASSUME Width = 1
      PROVE  /\ Len(A) = n + 1 /\ A[n + 1].is = "lf"
             /\ Len(B) = n + 2 /\ B[n + 1].is = "lf" /\ B[n + 2].is = "lf"
  <2>1. n + 1 \in 1..(n + 1) OBVIOUS
  <2> QED BY <1>1, <1>2, <1>4, <1>6, <2>1
<1>7. ASSUME Width = 2
      PROVE  /\ Len(A) = n + 2 /\ A[n + 1].is = "cr" /\ A[n + 2].is = "lf"
             /\ Len(B) = n + 4 /\ B[n + 1].is = "cr" /\ B[n + 2].is = "lf"
             /\ B[n + 3].is = "cr" /\ B[n + 4].is = "lf"
  <2>1. n + 1 \in 1..(n + 2) /\ n + 2 \in 1..(n + 2) OBVIOUS
  <2> QED BY <1>1, <1>2, <1>4, <1>7, <2>1
<1>8. (\A i \in 1..n : A[i].is \notin {"cr", "lf"}) /\ (\A i \in 1..n : B[i].is \notin {"cr", "lf"})
  BY <1>2, <1>5
<1>9. CASE Width = 1
  <2>1. \A i \in 1..Len(A) : i \notin Blanks(A) BY <1>2, <1>6, <1>8, <1>9, Shapes
  <2>2. \A i \in 1..Len(B) : i \in Blanks(B) <=> i = Len(B) BY <1>3, <1>6, <1>8, <1>9, Shapes
  <2>3. /\ \A i \in 1..(n + 1) : i > n => i = n + 1
        /\ \A i \in 1..(n + 2) : i > n => i \in {n + 1, n + 2}
    OBVIOUS
  <2>4. /\ \A i \in 1..Len(A) : i > n => A[i].is \in {"cr", "lf"}
        /\ \A i \in 1..Len(B) : i > n => B[i].is \in {"cr", "lf"}
    BY <1>6, <1>9, <2>3
  <2> QED BY <1>2, <1>3, <1>4, <1>5, <2>1, <2>2, <2>4 DEF B, A
<1>10. CASE Width = 2
  <2>1. \A i \in 1..Len(A) : i \notin Blanks(A) BY <1>2, <1>7, <1>8, <1>10, Shapes
  <2>2. \A i \in 1..Len(B) : i \in Blanks(B) <=> i = Len(B) BY <1>3, <1>7, <1>8, <1>10, Shapes
  <2>3. /\ \A i \in 1..(n + 2) : i > n => i \in {n + 1, n + 2}
        /\ \A i \in 1..(n + 4) : i > n => i \in {n + 1, n + 2, n + 3, n + 4}
    OBVIOUS
  <2>4. /\ \A i \in 1..Len(A) : i > n => A[i].is \in {"cr", "lf"}
        /\ \A i \in 1..Len(B) : i > n => B[i].is \in {"cr", "lf"}
    BY <1>7, <1>10, <2>3
  <2> QED BY <1>2, <1>3, <1>4, <1>5, <2>1, <2>2, <2>4 DEF B, A
<1> QED BY <1>2, <1>9, <1>10

(* A frame: two halves of a data line, then line ends; it ends in a blank  *)
(* line unless it is bare.                                                 *)
LEMMA FrameShape ==
  ASSUME NEW e \in Messages
  PROVE  /\ Frame(e) \in Seq(Symbol) /\ Len(Frame(e)) = Ending(e) + 2
         /\ Width \in {1, 2} /\ Ending(e) \in 1..4
         /\ Frame(e)[1] = Data(e, 1) /\ Frame(e)[2] = Data(e, 2)
         /\ \A i \in 1..Len(Frame(e)) : i > 2 => Frame(e)[i].is \in {"cr", "lf"}
         /\ \A i \in 1..Len(Frame(e)) : i \in Blanks(Frame(e)) <=> ~Bare(e) /\ i = Len(Frame(e))
<1> DEFINE H == <<Data(e, 1), Data(e, 2)>>
           A == H \o LineEnd
           B == A \o LineEnd
<1>1. H \in Seq(Symbol) /\ Len(H) = 2 /\ H[1] = Data(e, 1) /\ H[2] = Data(e, 2)
  <2>1. Data(e, 1) \in Symbol /\ Data(e, 2) \in Symbol BY DEF Symbol
  <2> QED BY <2>1
<1>2. \A i \in 1..2 : H[i].is \notin {"cr", "lf"}
  <2>1. H[1].is = "data" /\ H[2].is = "data" BY <1>1, SymbolIs
  <2>2. \A i \in 1..2 : i = 1 \/ i = 2 OBVIOUS
  <2> HIDE DEF H
  <2> QED BY <2>1, <2>2
<1>3. Frame(e) = IF Bare(e) THEN A ELSE B
  <2>1. A \in Seq(Symbol) BY <1>1, Ended
  <2>2. A \o <<>> = A BY <2>1, ConcatEmptySeq
  <2> QED BY <2>2 DEF Frame, Bare
<1> HIDE DEF H
<1>4. /\ Width \in {1, 2}
      /\ A \in Seq(Symbol) /\ Len(A) = 2 + Width
      /\ B \in Seq(Symbol) /\ Len(B) = 2 + 2 * Width
      /\ \A i \in 1..2 : A[i] = H[i] /\ B[i] = H[i]
      /\ \A i \in 1..Len(A) : i > 2 => A[i].is \in {"cr", "lf"}
      /\ \A i \in 1..Len(B) : i > 2 => B[i].is \in {"cr", "lf"}
      /\ \A i \in 1..Len(A) : i \notin Blanks(A)
      /\ \A i \in 1..Len(B) : i \in Blanks(B) <=> i = Len(B)
  <2>1. 2 \in Nat /\ 2 = Len(H) /\ 2 >= 1 BY <1>1
  <2> QED BY <1>1, <1>2, <2>1, Closed, Zenon
<1> HIDE DEF A, B
<1>5. 1 \in 1..2 /\ 2 \in 1..2 OBVIOUS
<1>6. CASE Bare(e) BY <1>1, <1>3, <1>4, <1>5, <1>6 DEF Ending
<1>7. CASE ~Bare(e) BY <1>1, <1>3, <1>4, <1>5, <1>7 DEF Ending
<1> QED BY <1>6, <1>7

(* A comment ends in a blank line.                                         *)
LEMMA KeepAliveShape ==
  ASSUME NEW C, C = <<Comment>> \o LineEnd \o LineEnd
  PROVE  /\ C \in Seq(Symbol) /\ Len(C) = 1 + 2 * Width /\ Width \in {1, 2}
         /\ C[1].is = "comment"
         /\ \A i \in 1..Len(C) : i > 1 => C[i].is \in {"cr", "lf"}
         /\ \A i \in 1..Len(C) : i \in Blanks(C) <=> i = Len(C)
<1> DEFINE H == <<Comment>>
<1>1. H \in Seq(Symbol) /\ Len(H) = 1 /\ H[1] = Comment BY KeepAliveType
<1>2. \A i \in 1..1 : H[i].is = "comment" /\ H[i].is \notin {"cr", "lf"} BY <1>1, SymbolIs
<1>3. C = H \o LineEnd \o LineEnd OBVIOUS
<1> HIDE DEF H
<1>4. /\ Width \in {1, 2}
      /\ C \in Seq(Symbol) /\ Len(C) = 1 + 2 * Width
      /\ \A i \in 1..1 : C[i] = H[i]
      /\ \A i \in 1..Len(C) : i > 1 => C[i].is \in {"cr", "lf"}
      /\ \A i \in 1..Len(C) : i \in Blanks(C) <=> i = Len(C)
  BY <1>1, <1>2, <1>3, Closed, SMTT(30)
<1>5. 1 \in 1..1 OBVIOUS
<1> QED BY <1>2, <1>4, <1>5

-----------------------------------------------------------------------------
(* A frame in the log.                                                     *)
Sent == [event : Messages, end : Nat]

(* Where a frame begins and ends.                                          *)
LEMMA SentIs ==
  ASSUME NEW F \in Seq(Sent), NEW i \in DOMAIN F
  PROVE  /\ i \in 1..Len(F) /\ F[i].event \in Messages /\ F[i].end \in Nat
         /\ Begin(F[i]) \in Int /\ Begin(F[i]) + 2 < F[i].end
         /\ Ending(F[i].event) \in 1..4 /\ F[i].end = Begin(F[i]) + 2 + Ending(F[i].event)
<1>1. F[i] \in Sent /\ i \in 1..Len(F) OBVIOUS
<1>2. F[i].event \in Messages /\ F[i].end \in Nat BY <1>1 DEF Sent
<1>3. Ending(F[i].event) \in 1..4 BY <1>2, FrameShape
<1> QED BY <1>1, <1>2, <1>3, SMTT(30) DEF Begin

(* What was sent, and what is sent next.                                     *)
Extends(D, W, C) ==
    /\ Len(D) = Len(W) + Len(C)
    /\ \A i \in 1..Len(W) : D[i] = W[i] /\ (i \in Blanks(D) <=> i \in Blanks(W))
    /\ \A i \in 1..Len(C) :
          D[Len(W) + i] = C[i] /\ (Len(W) + i \in Blanks(D) <=> i \in Blanks(C))

(* Appending symbols that do not start with a line end moves no blank line.*)
LEMMA ExtendsIs ==
  ASSUME NEW W \in Seq(Symbol), NEW C \in Seq(Symbol), Len(C) >= 2, C[1].is \notin {"cr", "lf"}
  PROVE  W \o C \in Seq(Symbol) /\ Extends(W \o C, W, C)
<1> DEFINE D == W \o C
<1>1. /\ D \in Seq(Symbol) /\ Len(D) = Len(W) + Len(C)
      /\ \A i \in 1..Len(W) : D[i] = W[i]
      /\ \A i \in 1..Len(C) : D[Len(W) + i] = C[i]
      /\ \A i \in 1..Len(W) : i \in Blanks(D) <=> i \in Blanks(W)
      /\ \A i \in 1..Len(C) : Len(W) + i \in Blanks(D) <=> i \in Blanks(C)
  BY Grown
<1> HIDE DEF D
<1>2. Extends(D, W, C) BY <1>1, Zenon DEF Extends
<1> QED BY <1>1, <1>2 DEF D

(* The frames that were sent stay where they are.                            *)
LEMMA Stays ==
  ASSUME NEW W \in Seq(Symbol), NEW F \in Seq(Sent), Laid(W, F),
         \A i \in DOMAIN F : ~Bare(F[i].event),
         NEW C \in Seq(Symbol), NEW D \in Seq(Symbol), Extends(D, W, C)
  PROVE  /\ \A i \in DOMAIN F :
              /\ 0 <= Begin(F[i]) /\ F[i].end <= Len(W) /\ F[i].end <= Len(D)
              /\ D[Begin(F[i]) + 1] = Data(F[i].event, 1)
              /\ D[Begin(F[i]) + 2] = Data(F[i].event, 2)
              /\ F[i].end \in Blanks(D)
         /\ \A n \in 1..Len(W) : D[n].is = "data" =>
              \E i \in DOMAIN F : n \in {Begin(F[i]) + 1, Begin(F[i]) + 2}
         /\ \A p \in Blanks(D) : p <= Len(W) =>
              /\ p \in Blanks(W)
              /\ \A i \in DOMAIN F : p <= Begin(F[i]) \/ F[i].end <= p
              /\ p + 1 \in 1..Len(W) => D[p + 1].is \in {"data", "comment"}
<1>1. Len(W) \in Nat /\ Len(C) \in Nat OBVIOUS
<1>2. /\ D \in Seq(Symbol) /\ Len(D) = Len(W) + Len(C)
      /\ \A i \in 1..Len(W) : D[i] = W[i] /\ (i \in Blanks(D) <=> i \in Blanks(W))
  BY DEF Extends
<1>3. ASSUME NEW i \in DOMAIN F
      PROVE /\ 0 <= Begin(F[i]) /\ F[i].end <= Len(W) /\ F[i].end <= Len(D)
            /\ D[Begin(F[i]) + 1] = Data(F[i].event, 1)
            /\ D[Begin(F[i]) + 2] = Data(F[i].event, 2)
            /\ F[i].end \in Blanks(D)
  <2>1. /\ Begin(F[i]) \in Int /\ F[i].end \in Nat /\ Begin(F[i]) + 2 < F[i].end BY SentIs
  <2>2. /\ 0 <= Begin(F[i]) /\ F[i].end <= Len(W) /\ F[i].end \in Blanks(W)
        /\ W[Begin(F[i]) + 1] = Data(F[i].event, 1)
        /\ W[Begin(F[i]) + 2] = Data(F[i].event, 2)
    BY DEF Laid
  <2>3. Begin(F[i]) + 1 \in 1..Len(W) /\ Begin(F[i]) + 2 \in 1..Len(W) /\ F[i].end \in 1..Len(W)
    BY <1>1, <2>1, <2>2
  <2> QED BY <1>1, <1>2, <2>1, <2>2, <2>3
<1>4. ASSUME NEW n \in 1..Len(W), D[n].is = "data"
      PROVE  \E i \in DOMAIN F : n \in {Begin(F[i]) + 1, Begin(F[i]) + 2}
  <2>1. W[n].is = "data" /\ n \in DOMAIN W BY <1>2, <1>4
  <2> QED BY <2>1 DEF Laid
<1>5. ASSUME NEW p \in Blanks(D), p <= Len(W)
      PROVE  /\ p \in Blanks(W)
             /\ \A i \in DOMAIN F : p <= Begin(F[i]) \/ F[i].end <= p
             /\ p + 1 \in 1..Len(W) => D[p + 1].is \in {"data", "comment"}
  <2>1. p \in 1..Len(W)
    <3>1. p \in 1..Len(D) BY <1>2, BlanksIs
    <3> QED BY <1>1, <1>2, <1>5, <3>1
  <2>2. p \in Blanks(W) BY <1>2, <2>1
  <2>3. DOMAIN W = 1..Len(W) OBVIOUS
  <2> QED BY <1>2, <2>2, <2>3 DEF Laid
<1> QED BY <1>3, <1>4, <1>5

(* A comment is laid behind the frames.                                    *)
LEMMA LaidComment ==
  ASSUME NEW W \in Seq(Symbol), NEW F \in Seq(Sent), Laid(W, F),
         \A i \in DOMAIN F : ~Bare(F[i].event),
         NEW C \in Seq(Symbol), Len(C) \in 3..5, C[1].is = "comment",
         \A i \in 1..Len(C) : i > 1 => C[i].is \in {"cr", "lf"},
         \A i \in 1..Len(C) : i \in Blanks(C) <=> i = Len(C),
         NEW D \in Seq(Symbol), Extends(D, W, C)
  PROVE  Laid(D, F)
<1>1. Len(W) \in Nat OBVIOUS
<1>2. /\ C[1].is = "comment" /\ C[1].is \notin {"cr", "lf"}
      /\ \A i \in 1..Len(C) : i > 1 => C[i].is \in {"cr", "lf"}
      /\ \A i \in 1..Len(C) : i \in Blanks(C) <=> i = Len(C)
  OBVIOUS
<1>3. Len(C) \in 3..5 OBVIOUS
<1>4. /\ D \in Seq(Symbol) /\ Len(D) = Len(W) + Len(C) /\ Len(D) \in Nat
      /\ \A i \in 1..Len(C) : D[Len(W) + i] = C[i] /\ (Len(W) + i \in Blanks(D) <=> i \in Blanks(C))
  BY <1>1, <1>3 DEF Extends
<1>5. /\ \A i \in DOMAIN F :
              /\ 0 <= Begin(F[i]) /\ F[i].end <= Len(W) /\ F[i].end <= Len(D)
              /\ D[Begin(F[i]) + 1] = Data(F[i].event, 1)
              /\ D[Begin(F[i]) + 2] = Data(F[i].event, 2)
              /\ F[i].end \in Blanks(D)
      /\ \A n \in 1..Len(W) : D[n].is = "data" =>
              \E i \in DOMAIN F : n \in {Begin(F[i]) + 1, Begin(F[i]) + 2}
      /\ \A p \in Blanks(D) : p <= Len(W) =>
              /\ p \in Blanks(W)
              /\ \A i \in DOMAIN F : p <= Begin(F[i]) \/ F[i].end <= p
              /\ p + 1 \in 1..Len(W) => D[p + 1].is \in {"data", "comment"}
  BY Stays
<1>6. ASSUME NEW n \in 1..Len(D), n > Len(W)
      PROVE  D[n].is # "data" /\ (n \in Blanks(D) <=> n = Len(D))
  <2>1. n - Len(W) \in 1..Len(C) /\ Len(W) + (n - Len(W)) = n BY <1>1, <1>3, <1>4, <1>6
  <2>2. D[n] = C[n - Len(W)] /\ (n \in Blanks(D) <=> n - Len(W) \in Blanks(C)) BY <1>4, <2>1
  <2>3. C[n - Len(W)].is # "data"
    <3>1. n - Len(W) = 1 \/ n - Len(W) > 1 BY <2>1
    <3> QED BY <1>2, <2>1, <3>1
  <2>4. n - Len(W) = Len(C) <=> n = Len(D) BY <1>1, <1>3, <1>4
  <2> QED BY <1>2, <2>1, <2>2, <2>3, <2>4
<1>7. DOMAIN D = 1..Len(D) BY <1>4
<1>8. ASSUME NEW n \in DOMAIN D, D[n].is = "data"
      PROVE  \E i \in DOMAIN F : n \in {Begin(F[i]) + 1, Begin(F[i]) + 2}
  <2>1. n \in 1..Len(W) BY <1>1, <1>3, <1>4, <1>6, <1>7, <1>8
  <2> QED BY <1>5, <1>8, <2>1
<1>9. ASSUME NEW p \in Blanks(D)
      PROVE  /\ \A i \in DOMAIN F : p <= Begin(F[i]) \/ F[i].end <= p
             /\ p + 1 \in DOMAIN D => D[p + 1].is \in {"data", "comment"}
  <2>1. p \in 1..Len(D) BY <1>4, BlanksIs
  <2>2. CASE p < Len(W) 
    <3>1. p + 1 \in 1..Len(W) BY <1>1, <2>1, <2>2
    <3> QED BY <1>1, <1>5, <2>1, <2>2, <3>1
  <2>3. CASE p = Len(W)
    <3>1. 1 \in 1..Len(C) /\ p + 1 = Len(W) + 1 BY <1>3, <2>3
    <3>2. D[p + 1] = C[1] BY <1>4, <3>1
    <3> QED BY <1>1, <1>2, <1>5, <2>3, <3>2
  <2>4. CASE p > Len(W)
    <3>1. p = Len(D) BY <1>6, <2>1, <2>4
    <3>2. p + 1 \notin DOMAIN D BY <1>7, <2>1, <3>1
    <3>3. \A i \in DOMAIN F : F[i].end <= p BY <1>5, <3>1
    <3> QED BY <3>2, <3>3
  <2> QED BY <1>1, <1>4, <2>1, <2>2, <2>3, <2>4
<1>10. \A i, k \in DOMAIN F : i < k => F[i].end <= Begin(F[k]) BY DEF Laid
<1> QED BY <1>5, <1>8, <1>9, <1>10 DEF Laid

(* A frame is laid behind the frames.                                      *)
LEMMA LaidFrame ==
  ASSUME NEW W \in Seq(Symbol), NEW F \in Seq(Sent), Laid(W, F),
         \A i \in DOMAIN F : ~Bare(F[i].event),
         NEW e \in Messages,
         NEW C \in Seq(Symbol), Len(C) = Ending(e) + 2, Ending(e) \in 1..4,
         C[1] = Data(e, 1), C[2] = Data(e, 2),
         \A i \in 1..Len(C) : i > 2 => C[i].is \in {"cr", "lf"},
         \A i \in 1..Len(C) : i \in Blanks(C) <=> ~Bare(e) /\ i = Len(C),
         NEW D \in Seq(Symbol), Extends(D, W, C),
         NEW G, G = Append(F, [event |-> e, end |-> Len(D)])
  PROVE  Laid(D, G)
<1> DEFINE g == [event |-> e, end |-> Len(D)]
           m == Len(F)
<1>1. Len(W) \in Nat /\ m \in Nat /\ DOMAIN F = 1..m OBVIOUS
<1>2. /\ C \in Seq(Symbol) /\ Len(C) = Ending(e) + 2 /\ Ending(e) \in 1..4
      /\ C[1] = Data(e, 1) /\ C[2] = Data(e, 2)
      /\ \A i \in 1..Len(C) : i > 2 => C[i].is \in {"cr", "lf"}
      /\ \A i \in 1..Len(C) : i \in Blanks(C) <=> ~Bare(e) /\ i = Len(C)
  OBVIOUS
<1>3. Len(C) \in 3..6 /\ C[1].is = "data" /\ C[2].is = "data" /\ C[1].is \notin {"cr", "lf"}
  <2>1. C[1].is = "data" /\ C[2].is = "data" BY <1>2, SymbolIs
  <2>2. Len(C) \in 3..6 BY <1>2
  <2> QED BY <2>1, <2>2
<1>4. /\ D \in Seq(Symbol) /\ Len(D) = Len(W) + Len(C) /\ Len(D) \in Nat
      /\ \A i \in 1..Len(C) : D[Len(W) + i] = C[i] /\ (Len(W) + i \in Blanks(D) <=> i \in Blanks(C))
  BY <1>1, <1>3 DEF Extends
<1>5. /\ \A i \in DOMAIN F :
              /\ 0 <= Begin(F[i]) /\ F[i].end <= Len(W) /\ F[i].end <= Len(D)
              /\ D[Begin(F[i]) + 1] = Data(F[i].event, 1)
              /\ D[Begin(F[i]) + 2] = Data(F[i].event, 2)
              /\ F[i].end \in Blanks(D)
      /\ \A n \in 1..Len(W) : D[n].is = "data" =>
              \E i \in DOMAIN F : n \in {Begin(F[i]) + 1, Begin(F[i]) + 2}
      /\ \A p \in Blanks(D) : p <= Len(W) =>
              /\ p \in Blanks(W)
              /\ \A i \in DOMAIN F : p <= Begin(F[i]) \/ F[i].end <= p
              /\ p + 1 \in 1..Len(W) => D[p + 1].is \in {"data", "comment"}
  BY Stays
<1>6. g \in Sent /\ g.event = e /\ g.end = Len(D) /\ Begin(g) = Len(W)
  <2>1. g \in Sent /\ g.event = e /\ g.end = Len(D) BY <1>4 DEF Sent
  <2> HIDE DEF g
  <2>2. g.end - Ending(g.event) - 2 = Len(W) BY <1>1, <1>2, <1>4, <2>1, SMTT(30)
  <2>3. Begin(g) = Len(W) BY <2>2 DEF Begin
  <2> QED BY <2>1, <2>3
<1>7. /\ G \in Seq(Sent) /\ DOMAIN G = 1..(m + 1) /\ G[m + 1] = g
      /\ \A i \in 1..m : G[i] = F[i]
  <2> HIDE DEF g
  <2>1. G = Append(F, g) BY DEF g
  <2> QED BY <1>6, <2>1, AppendProperties
<1> HIDE DEF g, m
<1>8. ASSUME NEW n \in 1..Len(D), n > Len(W)
      PROVE  /\ D[n].is = "data" => n \in {Begin(g) + 1, Begin(g) + 2}
             /\ n \in Blanks(D) <=> ~Bare(e) /\ n = Len(D)
  <2>1. n - Len(W) \in 1..Len(C) /\ Len(W) + (n - Len(W)) = n BY <1>1, <1>3, <1>4, <1>8
  <2>2. D[n] = C[n - Len(W)] /\ (n \in Blanks(D) <=> n - Len(W) \in Blanks(C)) BY <1>4, <2>1
  <2>3. D[n].is = "data" => n - Len(W) \in {1, 2}
    <3>1. n - Len(W) = 1 \/ n - Len(W) = 2 \/ n - Len(W) > 2 BY <2>1
    <3> QED BY <1>2, <2>1, <2>2, <3>1
  <2>4. n - Len(W) = Len(C) <=> n = Len(D) BY <1>1, <1>3, <1>4
  <2>5. n - Len(W) \in {1, 2} => n \in {Len(W) + 1, Len(W) + 2} BY <1>1
  <2> QED BY <1>2, <1>6, <2>1, <2>2, <2>3, <2>4, <2>5
<1>9. DOMAIN D = 1..Len(D) BY <1>4
<1>10. ASSUME NEW n \in DOMAIN D, D[n].is = "data"
       PROVE  \E i \in DOMAIN G : n \in {Begin(G[i]) + 1, Begin(G[i]) + 2}
  <2>1. CASE n > Len(W)
    <3>1. n \in {Begin(G[m + 1]) + 1, Begin(G[m + 1]) + 2} BY <1>7, <1>8, <1>9, <1>10, <2>1
    <3>2. m + 1 \in DOMAIN G BY <1>1, <1>7
    <3> QED BY <3>1, <3>2
  <2>2. CASE ~(n > Len(W))
    <3>1. n \in 1..Len(W) BY <1>1, <1>4, <1>9, <1>3, <2>2
    <3>2. PICK i \in 1..m : n \in {Begin(F[i]) + 1, Begin(F[i]) + 2} BY <1>1, <1>5, <1>10, <3>1
    <3>3. i \in DOMAIN G /\ G[i] = F[i] BY <1>1, <1>7
    <3> QED BY <3>2, <3>3
  <2> QED BY <2>1, <2>2
<1>11. ASSUME NEW i \in DOMAIN G
       PROVE  /\ 0 <= Begin(G[i]) /\ G[i].end <= Len(D)
              /\ D[Begin(G[i]) + 1] = Data(G[i].event, 1)
              /\ D[Begin(G[i]) + 2] = Data(G[i].event, 2)
              /\ G[i].end \in Blanks(D) <=> ~Bare(G[i].event)
              /\ Bare(G[i].event) => G[i].end = Len(D)
              /\ \A k \in DOMAIN G : i < k => G[i].end <= Begin(G[k])
              /\ \A p \in Blanks(D) : p <= Begin(G[i]) \/ G[i].end <= p
  <2>1. CASE i \in 1..m
    <3>1. G[i] = F[i] /\ i \in DOMAIN F BY <1>1, <1>7, <2>1
    <3>2. /\ 0 <= Begin(F[i]) /\ F[i].end <= Len(W) /\ F[i].end <= Len(D)
          /\ D[Begin(F[i]) + 1] = Data(F[i].event, 1)
          /\ D[Begin(F[i]) + 2] = Data(F[i].event, 2)
          /\ F[i].end \in Blanks(D)
      BY <1>5, <3>1
    <3>3. ~Bare(F[i].event) BY <3>1
    <3>4. ASSUME NEW k \in DOMAIN G, i < k PROVE F[i].end <= Begin(G[k])
      <4>1. CASE k = m + 1 BY <1>6, <1>7, <3>2, <4>1
      <4>2. CASE k \in 1..m
        <5>1. F[i].end <= Begin(F[k]) BY <1>1, <2>1, <3>4, <4>2 DEF Laid
        <5> QED BY <1>7, <4>2, <5>1
      <4> QED BY <1>1, <1>7, <4>1, <4>2
    <3>5. ASSUME NEW p \in Blanks(D) PROVE p <= Begin(F[i]) \/ F[i].end <= p
      <4>1. p \in 1..Len(D) BY <1>4, BlanksIs
      <4>2. F[i].end \in Nat BY <3>1, SentIs
      <4>3. CASE p <= Len(W) BY <1>5, <3>1, <4>3
      <4>4. CASE p > Len(W) BY <1>1, <3>2, <4>1, <4>2, <4>4
      <4> QED BY <1>1, <4>1, <4>3, <4>4
    <3> QED BY <3>1, <3>2, <3>3, <3>4, <3>5
  <2>2. CASE i = m + 1
    <3>1. G[i] = g BY <1>7, <2>2
    <3>2. 1 \in 1..Len(C) /\ 2 \in 1..Len(C) BY <1>3
    <3>3. D[Begin(g) + 1] = Data(e, 1) /\ D[Begin(g) + 2] = Data(e, 2)
      BY <1>2, <1>4, <1>6, <3>2
    <3>4. Len(D) \in 1..Len(D) /\ Len(D) > Len(W) BY <1>1, <1>3, <1>4, SMTT(30)
    <3>5. g.end \in Blanks(D) <=> ~Bare(e) BY <1>6, <1>8, <3>4
    <3>6. \A k \in DOMAIN G : ~(i < k) BY <1>1, <1>7, <2>2
    <3>7. ASSUME NEW p \in Blanks(D) PROVE p <= Len(W) \/ Len(D) <= p
      <4>1. p \in 1..Len(D) BY <1>4, BlanksIs
      <4> QED BY <1>1, <1>4, <1>8, <4>1, SMTT(30)
    <3>8. 0 <= Begin(g) /\ g.end <= Len(D) BY <1>1, <1>6, <3>4
    <3> QED BY <1>6, <3>1, <3>3, <3>5, <3>6, <3>7, <3>8
  <2>3. i \in 1..m \/ i = m + 1 BY <1>1, <1>7
  <2> QED BY <2>1, <2>2, <2>3
<1>12. ASSUME NEW p \in Blanks(D), p + 1 \in DOMAIN D PROVE D[p + 1].is \in {"data", "comment"}
  <2>1. p \in 1..Len(D) BY <1>4, BlanksIs
  <2>2. CASE p < Len(W) 
    <3>1. p + 1 \in 1..Len(W) BY <1>1, <2>1, <2>2
    <3> QED BY <1>1, <1>5, <2>1, <2>2, <3>1
  <2>3. CASE p = Len(W)
    <3>1. 1 \in 1..Len(C) /\ p + 1 = Len(W) + 1 BY <1>3, <2>3
    <3>2. D[p + 1] = C[1] BY <1>4, <3>1
    <3> QED BY <1>3, <3>2
  <2>4. CASE p > Len(W)
    <3>1. p = Len(D) BY <1>8, <2>1, <2>4
    <3> QED BY <1>4, <1>9, <1>12, <3>1
  <2>5. p < Len(W) \/ p = Len(W) \/ p > Len(W) BY <1>1, <1>4, <2>1
  <2> QED BY <2>2, <2>3, <2>4, <2>5
<1>13. \A i, k \in DOMAIN G : i < k => G[i].end <= Begin(G[k]) BY <1>11
<1>14. \A i \in DOMAIN G :
              /\ 0 <= Begin(G[i]) /\ G[i].end <= Len(D)
              /\ D[Begin(G[i]) + 1] = Data(G[i].event, 1)
              /\ D[Begin(G[i]) + 2] = Data(G[i].event, 2)
              /\ G[i].end \in Blanks(D) <=> ~Bare(G[i].event)
              /\ Bare(G[i].event) => G[i].end = Len(D)
  BY <1>11
<1>15. \A p \in Blanks(D) :
          /\ \A i \in DOMAIN G : p <= Begin(G[i]) \/ G[i].end <= p
          /\ p + 1 \in DOMAIN D => D[p + 1].is \in {"data", "comment"}
  BY <1>11, <1>12
<1> QED BY <1>10, <1>13, <1>14, <1>15, Zenon DEF Laid

-----------------------------------------------------------------------------
(* Every response is laid out so.                                          *)
LayoutInv == CourseInv /\ \A r \in Starts : Laid(wire[r], frames[r])

(* The layout speaks of the wire, the frames and the style.                *)
LEMMA SameLaid ==
  ASSUME NEW q \in Starts, style' = style, Laid(wire'[q], frames'[q])
  PROVE  Laid(wire[q], frames[q])'
BY DEF Laid, Begin, Ending, Width, Bare

(* The types of what lies on the wire.                                     *)
LEMMA SentTypes ==
  ASSUME Types, NEW r \in Starts
  PROVE  /\ frames[r] \in Seq(Sent) /\ wire[r] \in Seq(Symbol)
         /\ queue[r] \in Seq(Messages \cup {Sentinel})
BY DEF Types, ServerTypes, Sent

(* Nothing is sent after a frame that lacks its blank line.                  *)
LEMMA ForwardAfter ==
  ASSUME CourseInv, NEW r \in Starts, Forward(r), Head(queue[r]) # Sentinel
  PROVE  \A i \in DOMAIN frames[r] : ~IsLast(frames[r][i].event)
<1> SUFFICES ASSUME NEW i \in DOMAIN frames[r], IsLast(frames[r][i].event) PROVE FALSE
  OBVIOUS
<1> DEFINE m == Len(frames[r])
<1>1. m \in Nat /\ DOMAIN frames[r] = 1..m BY SentTypes DEF CourseInv
<1>2. /\ DOMAIN Told(r) = 1..(m + Len(queue[r]))
      /\ \A k \in 1..m : Told(r)[k] = frames[r][k].event
      /\ \A k \in 1..Len(queue[r]) : Told(r)[m + k] = queue[r][k]
  BY ToldType DEF CourseInv
<1>3. Len(queue[r]) \in Nat /\ 1 \in 1..Len(queue[r]) /\ queue[r][1] # Sentinel
  <2>1. queue[r] \in Seq(Messages \cup {Sentinel}) /\ queue[r] # <<>> BY SentTypes DEF CourseInv, Forward
  <2> QED BY <2>1
<1> HIDE DEF m
<1>4. m + 1 \in DOMAIN Told(r) /\ Told(r)[m + 1] # Sentinel BY <1>1, <1>2, <1>3
<1>5. i \in DOMAIN Told(r) /\ m + 1 > i /\ IsLast(Told(r)[i]) BY <1>1, <1>2, <1>3
<1> QED BY <1>4, <1>5 DEF CourseInv, Ordered

(* A comment is not sent after it, either.                                 *)
LEMMA PingAfter ==
  ASSUME CourseInv, NEW r \in Starts, Ping(r)
  PROVE  \A i \in DOMAIN frames[r] : ~Bare(frames[r][i].event)
<1> SUFFICES ASSUME NEW i \in DOMAIN frames[r], Bare(frames[r][i].event) PROVE FALSE
  OBVIOUS
<1> DEFINE m == Len(frames[r])
<1>1. m \in Nat /\ DOMAIN frames[r] = 1..m /\ frames[r] # <<>> /\ m \in 1..m /\ i \in 1..m
  BY SentTypes DEF CourseInv
<1>2. /\ DOMAIN Told(r) = 1..(m + Len(queue[r]))
      /\ \A k \in 1..m : Told(r)[k] = frames[r][k].event
  BY ToldType DEF CourseInv
<1>3. Len(queue[r]) \in Nat BY SentTypes DEF CourseInv
<1>4. frames[r][m].event \in Messages
  <2>1. frames[r] \in Seq(Sent) BY SentTypes DEF CourseInv
  <2> QED BY <1>1, <2>1, SentIs
<1>5. Last(frames[r]) = frames[r][m] BY DEF Last
<1> HIDE DEF m
<1>6. IsLast(frames[r][i].event) /\ ~style.blankAtEnd BY DEF Bare
<1>7. i # m
  <2>1. ~IsLast(Last(frames[r]).event) BY <1>1, <1>6 DEF Ping
  <2> QED BY <1>5, <1>6, <2>1
<1>8. /\ i \in DOMAIN Told(r) /\ m \in DOMAIN Told(r) /\ m > i
      /\ IsLast(Told(r)[i]) /\ Told(r)[m] \in Messages
  BY <1>1, <1>2, <1>3, <1>4, <1>6, <1>7
<1>9. Told(r)[m] = Sentinel BY <1>8 DEF CourseInv, Ordered
<1> QED BY <1>8, <1>9, SentinelApart

(* What a frame adds.                                                        *)
LEMMA ForwardSends ==
  ASSUME LayoutInv, NEW r \in Starts, Forward(r), NEW e, e = Head(queue[r]), e # Sentinel
  PROVE  \E C, D \in Seq(Symbol) :
            /\ e \in Messages
            /\ Len(C) = Ending(e) + 2 /\ Ending(e) \in 1..4
            /\ C[1] = Data(e, 1) /\ C[2] = Data(e, 2)
            /\ \A i \in 1..Len(C) : i > 2 => C[i].is \in {"cr", "lf"}
            /\ \A i \in 1..Len(C) : i \in Blanks(C) <=> ~Bare(e) /\ i = Len(C)
            /\ Extends(D, wire[r], C)
            /\ wire'[r] = D
            /\ frames'[r] = Append(frames[r], [event |-> e, end |-> Len(D)])
<1>1. wire[r] \in Seq(Symbol) /\ frames[r] \in Seq(Sent)
  BY SentTypes DEF LayoutInv, CourseInv
<1>2. e \in Messages
  <2>1. queue[r] \in Seq(Messages \cup {Sentinel}) /\ queue[r] # <<>>
    BY SentTypes DEF LayoutInv, CourseInv, Forward
  <2>2. e \in Messages \cup {Sentinel} BY <2>1
  <2> QED BY <2>2
<1>3. PICK C : C = Frame(e) OBVIOUS
<1>4. /\ C \in Seq(Symbol) /\ Len(C) = Ending(e) + 2 /\ Ending(e) \in 1..4
      /\ C[1] = Data(e, 1) /\ C[2] = Data(e, 2)
      /\ \A i \in 1..Len(C) : i > 2 => C[i].is \in {"cr", "lf"}
      /\ \A i \in 1..Len(C) : i \in Blanks(C) <=> ~Bare(e) /\ i = Len(C)
  BY <1>2, <1>3, FrameShape
<1>5. PICK D \in Seq(Symbol) : D = wire[r] \o C /\ Extends(D, wire[r], C)
  <2>1. C[1].is = "data" BY <1>4, SymbolIs
  <2>2. Len(C) >= 2 BY <1>4
  <2>3. wire[r] \o C \in Seq(Symbol) /\ Extends(wire[r] \o C, wire[r], C)
    BY <1>1, <1>4, <2>1, <2>2, ExtendsIs
  <2> QED BY <2>3
<1>6. wire'[r] = D
  BY <1>3, <1>5 DEF LayoutInv, CourseInv, Types, ServerTypes, Forward
<1>7. frames'[r] = Append(frames[r], [event |-> e, end |-> Len(D)])
  BY <1>6 DEF LayoutInv, CourseInv, Types, ServerTypes, Forward
<1> QED BY <1>2, <1>4, <1>5, <1>6, <1>7

(* event_stream keeps the layout,                                          *)
LEMMA ForwardLaid ==
  ASSUME LayoutInv, NEW r \in Starts, Forward(r)
  PROVE  Laid(wire[r], frames[r])'
<1> DEFINE W == wire[r]
           F == frames[r]
<1>0. PICK e : e = Head(queue[r]) OBVIOUS
<1>1. W \in Seq(Symbol) /\ F \in Seq(Sent) /\ Laid(W, F) /\ style' = style
  BY SentTypes DEF LayoutInv, CourseInv, Forward
<1>2. CASE e = Sentinel
  <2>1. wire' = wire /\ frames' = frames BY <1>0, <1>2 DEF Forward
  <2> QED BY <1>1, <2>1, SameLaid
<1>3. CASE e # Sentinel
  <2>1. \A i \in DOMAIN F : ~Bare(F[i].event) BY <1>0, <1>3, ForwardAfter DEF LayoutInv, Bare
  <2>2. PICK C, D \in Seq(Symbol) :
            /\ e \in Messages
            /\ Len(C) = Ending(e) + 2 /\ Ending(e) \in 1..4
            /\ C[1] = Data(e, 1) /\ C[2] = Data(e, 2)
            /\ \A i \in 1..Len(C) : i > 2 => C[i].is \in {"cr", "lf"}
            /\ \A i \in 1..Len(C) : i \in Blanks(C) <=> ~Bare(e) /\ i = Len(C)
            /\ Extends(D, W, C)
            /\ wire'[r] = D
            /\ frames'[r] = Append(F, [event |-> e, end |-> Len(D)])
    BY <1>0, <1>3, ForwardSends, ZenonT(30)
  <2> HIDE DEF W, F
  <2>3. Laid(D, Append(F, [event |-> e, end |-> Len(D)]))
    BY <1>1, <2>1, <2>2, LaidFrame
  <2> QED BY <1>1, <2>2, <2>3, SameLaid
<1> QED BY <1>2, <1>3

(* Symbols may be appended together or one after the other.                  *)
LEMMA Appended ==
  \A x, y, z \in Seq(Symbol) : x \o y \o z = x \o (y \o z)
BY ConcatAssociative

(* What a comment adds.                                                      *)
LEMMA PingSends ==
  ASSUME LayoutInv, NEW r \in Starts, Ping(r)
  PROVE  \E C, D \in Seq(Symbol) :
            /\ Len(C) \in 3..5 /\ C[1].is = "comment"
            /\ \A i \in 1..Len(C) : i > 1 => C[i].is \in {"cr", "lf"}
            /\ \A i \in 1..Len(C) : i \in Blanks(C) <=> i = Len(C)
            /\ Extends(D, wire[r], C)
            /\ wire'[r] = D
<1> DEFINE W == wire[r]
<1>1. W \in Seq(Symbol) BY SentTypes DEF LayoutInv, CourseInv
<1>3. PICK C : C = <<Comment>> \o LineEnd \o LineEnd OBVIOUS
<1>4. /\ C \in Seq(Symbol) /\ Len(C) = 1 + 2 * Width /\ Width \in {1, 2}
      /\ C[1].is = "comment"
      /\ \A i \in 1..Len(C) : i > 1 => C[i].is \in {"cr", "lf"}
      /\ \A i \in 1..Len(C) : i \in Blanks(C) <=> i = Len(C)
  BY <1>3, KeepAliveShape
<1>5. Len(C) \in 3..5 /\ Len(C) >= 2
  <2>1. Len(C) = 3 \/ Len(C) = 5 BY <1>4
  <2> QED BY <2>1
<1>6. wire[r] \o <<Comment>> \o LineEnd \o LineEnd = W \o C
  <2>1. LineEnd \in Seq(Symbol) /\ <<Comment>> \in Seq(Symbol) BY LineEndType, KeepAliveType
  <2> DEFINE H == <<Comment>>
             E == LineEnd
  <2> HIDE DEF H, E, W
  <2>2. H \in Seq(Symbol) /\ E \in Seq(Symbol) /\ H \o E \in Seq(Symbol) BY <2>1 DEF H, E
  <2>3. W \o H \o E = W \o (H \o E) BY <1>1, <2>2, Appended, Zenon
  <2>4. W \o (H \o E) \o E = W \o (H \o E \o E) BY <1>1, <2>2, Appended, Zenon
  <2>5. W \o H \o E \o E = W \o (H \o E \o E) BY <2>3, <2>4
  <2> QED BY <1>3, <2>5 DEF H, E, W
<1>7. PICK D \in Seq(Symbol) : D = W \o C /\ Extends(D, W, C)
  <2>1. W \o C \in Seq(Symbol) /\ Extends(W \o C, W, C)
    <3> HIDE DEF W
    <3> QED BY <1>1, <1>4, <1>5, ExtendsIs
  <2> QED BY <2>1
<1>8. wire'[r] = D BY <1>6, <1>7 DEF LayoutInv, CourseInv, Types, ServerTypes, Ping
<1> QED BY <1>4, <1>5, <1>7, <1>8

(* and so does a keep-alive.                                               *)
LEMMA PingLaid ==
  ASSUME LayoutInv, NEW r \in Starts, Ping(r)
  PROVE  Laid(wire[r], frames[r])'
<1> DEFINE W == wire[r]
           F == frames[r]
<1>1. W \in Seq(Symbol) /\ F \in Seq(Sent) /\ Laid(W, F) /\ style' = style /\ frames' = frames
  BY SentTypes DEF LayoutInv, CourseInv, Ping
<1>2. \A i \in DOMAIN F : ~Bare(F[i].event) BY PingAfter DEF LayoutInv
<1>3. PICK C, D \in Seq(Symbol) :
            /\ Len(C) \in 3..5 /\ C[1].is = "comment"
            /\ \A i \in 1..Len(C) : i > 1 => C[i].is \in {"cr", "lf"}
            /\ \A i \in 1..Len(C) : i \in Blanks(C) <=> i = Len(C)
            /\ Extends(D, W, C)
            /\ wire'[r] = D
  BY PingSends
<1> HIDE DEF W, F
<1>4. Laid(D, F) BY <1>1, <1>2, <1>3, LaidComment
<1> QED BY <1>1, <1>3, <1>4, SameLaid DEF F

(* Every step keeps the layout,                                            *)
LEMMA NextLayout == LayoutInv /\ [DownloadNext]_allDownloadVars => LayoutInv'
<1> SUFFICES ASSUME LayoutInv, [DownloadNext]_allDownloadVars PROVE LayoutInv' OBVIOUS
<1>1. CourseInv' BY NextCourse DEF LayoutInv
<1>2. CASE UNCHANGED allDownloadVars
  <2>1. \A q \in Starts : Laid(wire[q], frames[q])'
    BY <1>2, SameLaid DEF LayoutInv, allDownloadVars, downloadVars
  <2> QED BY <1>1, <2>1 DEF LayoutInv
<1>3. ASSUME NEW r \in Starts, StepOf(r) PROVE LayoutInv'
  <2>1. style' = style
    BY <1>3, ClientSteps DEF downloadVars, StepOf, Run, Opened, PostDownload, Work, Count, Report,
       Succeed, Fail, Tell, Close, Forward, Ping, Break
  <2>2. \A q \in Starts \ {r} : Laid(wire[q], frames[q])'
    BY <1>3, <2>1, OthersSame, SameLaid DEF LayoutInv, CourseInv, Same
  <2>3. wire' = wire /\ frames' = frames => Laid(wire[r], frames[r])'
    BY <2>1, SameLaid DEF LayoutInv
  <2>4. Forward(r) \/ Ping(r) \/ (wire' = wire /\ frames' = frames)
    BY <1>3, ClientSteps DEF downloadVars, StepOf, Run, Opened, PostDownload, Work, Count, Report,
       Succeed, Fail, Tell, Close, Break
  <2> QED BY <1>1, <2>2, <2>3, <2>4, ForwardLaid, PingLaid DEF LayoutInv
<1>4. CASE DownloadNext BY <1>3, <1>4 DEF DownloadNext, StepOf
<1> QED BY <1>2, <1>4

(* which holds at first.                                                   *)
LEMMA InitLayout == SystemInit => LayoutInv
<1> SUFFICES ASSUME SystemInit PROVE LayoutInv OBVIOUS
<1>1. ASSUME NEW r \in Starts PROVE Laid(wire[r], frames[r])
  <2>1. wire[r] = <<>> /\ frames[r] = <<>> BY DEF SystemInit, DownloadInit
  <2>2. Blanks(<<>>) = {} BY DEF Blanks, BlanksRaw
  <2>3. DOMAIN <<>> = {} OBVIOUS
  <2> QED BY <2>1, <2>2, <2>3 DEF Laid
<1> QED BY <1>1, InitCourse DEF LayoutInv


(* Whatever the threads, pings and broken connections do, the events of a    *)
(* download go out in order, one verdict last and then the sentinel          *)
(* (download.py:47-75), and their frames lie apart on the wire, separated by *)
(* the blank lines that api.js looks for (api.js:92-97).                     *)
THEOREM FramesLaid == DownloadSpec => []LayoutInv
<1>1. SystemInit => LayoutInv BY InitLayout
<1>2. LayoutInv /\ [DownloadNext]_allDownloadVars => LayoutInv' BY NextLayout
<1> QED BY <1>1, <1>2, PTL DEF DownloadSpec
=============================================================================
