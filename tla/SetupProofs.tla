----------------------------- MODULE SetupProofs -----------------------------
(***************************************************************************)
(* First-run setup for every number of tabs and connections, every trouble  *)
(* and every file: types, the wizard's disabled buttons, and the .env file  *)
(* that each save leaves behind.                                            *)
(***************************************************************************)
EXTENDS SetupSystem, EnvFileProofs

-----------------------------------------------------------------------------
(* Requests: each step of one leaves every request well-formed.              *)
CallsOK == call = [c \in Conns |-> call[c]] /\ \A c \in Conns : CallOK(call[c])

LEMMA IdleOK == CallOK(Idle)
  BY EmptySeq DEF CallOK, Calls, Idle, Ops, Writing, Bodies, Replies

SentOn(c, t, op) ==
    /\ call[c].at = "idle"
    /\ call'[c].op = op /\ call'[c].tab = t /\ call'[c].at = "sent"
    /\ call'[c].seen = <<>> /\ call'[c].todo = <<>>
    /\ \A d \in Conns \ {c} : call'[d] = call[d]

LEMMA FetchOK ==
  ASSUME CallsOK, NEW t \in Tabs, NEW op \in Ops, NEW a \in Sendable \cup {NoCreds},
         NEW b \in Bodies(op), Fetch(t, op, a, b)
  PROVE  CallsOK' /\ \E c \in Conns : SentOn(c, t, op)
<1> DEFINE r == [Idle EXCEPT !.op = op, !.tab = t, !.auth = a, !.body = b, !.at = "sent"]
<1>1. PICK c \in Conns : call[c].at = "idle" /\ call' = [call EXCEPT ![c] = r]
  BY DEF Fetch
<1>a. <<>> \in Seq({"crt", "key", "read", "truncate", "write"}) /\ <<>> \in Seq(Line)
  BY EmptySeq
<1>b. r.op = op /\ r.tab = t /\ r.at = "sent" /\ r.seen = <<>> /\ r.todo = <<>>
  BY DEF Idle
<1>c. r \in Calls(op)
  BY <1>a DEF Calls, Idle, Ops, Writing, Replies
<1>3. CallOK(r)
  BY <1>b, <1>c DEF CallOK
<1> HIDE DEF r
<1>4. call'[c] = r /\ \A d \in Conns \ {c} : call'[d] = call[d]
  BY <1>1 DEF CallsOK
<1>5. CallsOK'
  BY <1>1, <1>3, <1>4 DEF CallsOK
<1>6. SentOn(c, t, op)
  BY <1>1, <1>b, <1>4 DEF SentOn
<1> QED BY <1>5, <1>6

(* A tab hears of a request: the request is over, or it is still served and  *)
(* nobody waits for it.                                                      *)
GaveUp(c) ==
    /\ call[c].at \in {"sent", "working"} /\ call[c].op \in Writing
    /\ call'[c] = [call[c] EXCEPT !.tab = NoTab]

LEMMA ReceiveOK ==
  ASSUME CallsOK, NEW t, NEW c \in Conns, NEW op, NEW got, Receive(t, c, op, got)
  PROVE  /\ CallsOK'
         /\ \/ call'[c] = Idle /\ call[c].at # "working"
            \/ GaveUp(c)
         /\ \A d \in Conns \ {c} : call'[d] = call[d]
<1> DEFINE r == call[c]
           s == [r EXCEPT !.tab = NoTab]
<1>1. r \in Calls(r.op) /\ r.op \in Ops /\ CallOK(r)
  BY DEF CallsOK, CallOK
<1>2. s \in Calls(r.op) /\ s.op = r.op /\ s.at = r.at /\ s.todo = r.todo
  BY <1>1 DEF Calls
<1>3. CallOK(s)
  BY <1>1, <1>2 DEF CallOK
<1>4. \/ call' = [call EXCEPT ![c] = Idle] /\ r.at # "working"
      \/ call' = [call EXCEPT ![c] = s] /\ r.at \in {"sent", "working"} /\ r.op \in Writing
  BY DEF Receive, Answered, Broken
<1> HIDE DEF s
<1>5. CASE call' = [call EXCEPT ![c] = Idle] /\ r.at # "working"
  <2>1. call'[c] = Idle /\ \A d \in Conns \ {c} : call'[d] = call[d]
    BY <1>5 DEF CallsOK
  <2> QED BY <1>5, <2>1, IdleOK DEF CallsOK
<1>6. CASE call' = [call EXCEPT ![c] = s] /\ r.at \in {"sent", "working"} /\ r.op \in Writing
  <2>1. call'[c] = s /\ \A d \in Conns \ {c} : call'[d] = call[d]
    BY <1>6 DEF CallsOK
  <2>2. CallsOK'
    BY <1>3, <1>6, <2>1 DEF CallsOK
  <2> QED BY <1>6, <2>1, <2>2 DEF GaveUp, s
<1> QED BY <1>4, <1>5, <1>6

(* A request that is served keeps what was sent.                             *)
SameRequest(r, s) ==
    /\ s.op = r.op /\ s.tab = r.tab /\ s.auth = r.auth /\ s.body = r.body

LEMMA StepsType ==
  ASSUME NEW r
  PROVE  Steps(r) \in Seq({"crt", "key", "read", "truncate", "write"})
<1> DEFINE S == {"crt", "key", "read", "truncate", "write"}
<1>1. <<"crt", "key">> \in Seq(S) /\ <<>> \in Seq(S)
  OBVIOUS
<1>a. <<"read", "truncate", "write">> \in Seq(S)
  OBVIOUS
<1>2. Merging(r) \in Seq(S)
  BY <1>1, <1>a DEF Merging
<1>3. (IF r.op = "saveCert" THEN <<"crt", "key">> ELSE <<>>) \in Seq(S)
  BY <1>1
<1> QED BY <1>2, <1>3, ConcatProperties DEF Steps

(* A request that nobody waits for is over when its handler ends.            *)
Over(r) == r.at = "idle" /\ r.op = "none" /\ r.tab = NoTab /\ r.todo = <<>>

LEMMA ProceedOK ==
  ASSUME NEW r, r.op \in Ops, r \in Calls(r.op)
  PROVE  /\ CallOK(Proceed(r))
         /\ r.todo = <<>> /\ r.tab = NoTab => Proceed(r) = Idle
         /\ r.todo # <<>> \/ r.tab # NoTab =>
               /\ SameRequest(r, Proceed(r)) /\ Proceed(r).todo = r.todo
               /\ Proceed(r).seen = r.seen /\ Proceed(r).reply = r.reply
               /\ Proceed(r).at = IF r.todo # <<>> THEN "working" ELSE "answered"
<1>1. CASE r.todo # <<>>
  <2> DEFINE s == [r EXCEPT !.at = "working"]
  <2>1. s \in Calls(r.op) /\ s.at = "working" /\ s.op = r.op /\ s.todo = r.todo
        /\ SameRequest(r, s) /\ s.seen = r.seen /\ s.reply = r.reply
    BY DEF Calls, SameRequest
  <2>2. Proceed(r) = s
    BY <1>1 DEF Proceed
  <2> QED BY <1>1, <2>1, <2>2 DEF CallOK
<1>2. CASE r.todo = <<>> /\ r.tab = NoTab
  BY <1>2, IdleOK DEF Proceed
<1>3. CASE r.todo = <<>> /\ r.tab # NoTab
  <2> DEFINE s == [r EXCEPT !.at = "answered"]
  <2>1. s \in Calls(r.op) /\ s.at = "answered" /\ s.op = r.op /\ s.todo = r.todo
        /\ SameRequest(r, s) /\ s.seen = r.seen /\ s.reply = r.reply
    BY DEF Calls, SameRequest
  <2>2. Proceed(r) = s
    BY <1>3 DEF Proceed
  <2> QED BY <1>3, <2>1, <2>2 DEF CallOK
<1> QED BY <1>1, <1>2, <1>3

LEMMA AdmitOK ==
  ASSUME CallsOK, NEW c \in Conns, Admit(c)
  PROVE  LET todo == IF Permitted(call[c]) /\ Valid(call[c]) THEN Steps(call[c]) ELSE <<>>
         IN /\ CallsOK'
            /\ \A d \in Conns \ {c} : call'[d] = call[d]
            /\ todo = <<>> /\ call[c].tab = NoTab => call'[c] = Idle
            /\ todo # <<>> \/ call[c].tab # NoTab =>
                  /\ SameRequest(call[c], call'[c]) /\ call'[c].at # "idle"
                  /\ call'[c].seen = call[c].seen /\ call'[c].todo = todo
                  /\ ~(Permitted(call[c]) /\ Valid(call[c])) => call'[c].reply = "refused"
<1> DEFINE r == call[c]
           ok == Permitted(r) /\ Valid(r)
           todo == IF ok THEN Steps(r) ELSE <<>>
           reply == IF ~ok THEN "refused" ELSE IF r.op # "status" THEN "ok"
                    ELSE IF Sealed(env) THEN "sealed" ELSE "open"
           s == [r EXCEPT !.todo = todo, !.reply = reply]
<1>1. r \in Calls(r.op) /\ r.op \in Ops
  BY DEF CallsOK, CallOK
<1>2. call' = [call EXCEPT ![c] = Proceed(s)]
  BY DEF Admit
<1>3. call'[c] = Proceed(s) /\ \A d \in Conns \ {c} : call'[d] = call[d]
  BY <1>2 DEF CallsOK
<1>4. todo \in Seq({"crt", "key", "read", "truncate", "write"})
  BY StepsType, EmptySeq
<1>6. reply \in Replies /\ (~ok => reply = "refused")
  BY DEF Replies
<1> HIDE DEF todo, reply
<1>7. s \in Calls(r.op) /\ s.todo = todo /\ SameRequest(r, s) /\ s.seen = r.seen
      /\ s.reply = reply
  BY <1>1, <1>4, <1>6 DEF Calls, SameRequest
<1> HIDE DEF s
<1>8. s.op = r.op /\ s.tab = r.tab
  BY <1>7 DEF SameRequest
<1>9. /\ CallOK(Proceed(s))
      /\ todo = <<>> /\ r.tab = NoTab => Proceed(s) = Idle
      /\ todo # <<>> \/ r.tab # NoTab =>
            /\ SameRequest(s, Proceed(s)) /\ Proceed(s).todo = todo
            /\ Proceed(s).seen = r.seen /\ Proceed(s).at # "idle"
            /\ Proceed(s).reply = reply
  BY <1>1, <1>7, <1>8, ProceedOK
<1>10. CallsOK'
  BY <1>2, <1>3, <1>9 DEF CallsOK
<1> QED BY <1>3, <1>6, <1>7, <1>9, <1>10 DEF todo, SameRequest

(* What merge_env is given: values for some of the keys.                     *)
LEMMA UpdatesType ==
  ASSUME NEW r, CallOK(r)
  PROVE  \E K \in SUBSET Keys : Updates(r) \in [K -> Values]
<1>1. r \in Calls(r.op)
  BY DEF CallOK
<1>2. CASE r.op = "saveConfig"
  <2>1. r.body \in [ConfigKeys -> Values]
    BY <1>1, <1>2 DEF Calls, Bodies
  <2>2. Updates(r) = [k \in ConfigKeys \cap EditableKeys |-> r.body[k]]
    BY <1>2, <2>1 DEF Updates
  <2> QED BY <2>1, <2>2, SetupAssumption
<1>3. CASE r.op = "saveCert" /\ r.body.slot \in VhostSlots
  <2>1. Updates(r) = [k \in TlsKeys(r.body.slot) |-> PathOf(k)]
    BY <1>3 DEF Updates
  <2> QED BY <1>3, <2>1, SetupAssumption
<1>4. CASE r.op = "complete"
  <2>1. r.body \in Creds
    BY <1>1, <1>4 DEF Calls, Bodies
  <2>2. Updates(r) = [k \in {AdminUser, AdminHash} |->
                        IF k = AdminUser THEN UserOf(r.body) ELSE HashOf(r.body)]
    BY <1>4 DEF Updates
  <2>3. UserOf(r.body) \in Values /\ HashOf(r.body) \in Values
    BY <2>1, SetupAssumption
  <2>4. {AdminUser, AdminHash} \in SUBSET Keys
    BY SetupAssumption
  <2>5. Updates(r) \in [{AdminUser, AdminHash} -> Values]
    BY <2>2, <2>3
  <2> QED BY <2>4, <2>5
<1>5. CASE r.op # "saveConfig" /\ r.op # "complete"
           /\ ~(r.op = "saveCert" /\ r.body.slot \in VhostSlots)
  <2>1. Updates(r) = <<>>
    BY <1>5 DEF Updates
  <2>2. <<>> \in [{} -> Values]
    OBVIOUS
  <2> QED BY <2>1, <2>2
<1> QED BY <1>2, <1>3, <1>4, <1>5

LEMMA TailType ==
  ASSUME NEW S, NEW q \in Seq(S), q # <<>>
  PROVE  Tail(q) \in Seq(S) /\ (Tail(q) = <<>> <=> Len(q) = 1)
<1>1. Len(q) \in Nat /\ Tail(q) \in Seq(S) /\ Len(Tail(q)) = Len(q) - 1
  BY HeadTailProperties, LenProperties
<1>2. Tail(q) = <<>> <=> Len(Tail(q)) = 0
  BY <1>1, EmptySeq
<1> QED BY <1>1, <1>2

(* A write of a handler: its request stays well-formed, whether it reads the *)
(* file meanwhile or not.                                                    *)
LEMMA AdvanceOK ==
  ASSUME CallsOK, NEW c \in Conns, Working(c), NEW f \in Seq(Line),
         \/ call' = Advance(c)
         \/ call' = [Advance(c) EXCEPT ![c].seen = f]
  PROVE  /\ CallsOK'
         /\ \A d \in Conns \ {c} : call'[d] = call[d]
         /\ call' = Advance(c) => call'[c].seen \in {call[c].seen, <<>>}
         /\ call' = [Advance(c) EXCEPT ![c].seen = f] => call'[c].seen = f
         /\ Tail(call[c].todo) = <<>> /\ call[c].tab = NoTab =>
               Over(call'[c]) /\ (call' = Advance(c) => call'[c] = Idle)
         /\ Tail(call[c].todo) # <<>> \/ call[c].tab # NoTab =>
               /\ SameRequest(call[c], call'[c]) /\ call'[c].at # "idle"
               /\ call'[c].todo = Tail(call[c].todo)
               /\ call' = Advance(c) => call'[c].seen = call[c].seen
<1> DEFINE r == call[c]
           q == [r EXCEPT !.todo = Tail(r.todo)]
           s == Proceed(q)
           x == [s EXCEPT !.seen = f]
<1>1. r \in Calls(r.op) /\ r.op \in Ops /\ r.at = "working" /\ r.todo # <<>>
  BY DEF CallsOK, CallOK, Working
<1>2. r.todo \in Seq({"crt", "key", "read", "truncate", "write"})
  BY <1>1 DEF Calls
<1>3. Tail(r.todo) \in Seq({"crt", "key", "read", "truncate", "write"})
  BY <1>1, <1>2, TailType
<1>4. q \in Calls(r.op) /\ q.op = r.op /\ q.tab = r.tab /\ q.todo = Tail(r.todo)
      /\ SameRequest(r, q) /\ q.seen = r.seen
  BY <1>1, <1>3 DEF Calls, SameRequest
<1>5. Advance(c) = [call EXCEPT ![c] = s]
  BY DEF Advance
<1> HIDE DEF q
<1>6. /\ CallOK(s)
      /\ q.todo = <<>> /\ q.tab = NoTab => s = Idle
      /\ q.todo # <<>> \/ q.tab # NoTab =>
            SameRequest(q, s) /\ s.todo = q.todo /\ s.seen = q.seen /\ s.at # "idle"
  BY <1>1, <1>4, ProceedOK
<1> HIDE DEF s
<1>7. s \in Calls(s.op)
  BY <1>6 DEF CallOK
<1>8. x \in Calls(s.op) /\ x.at = s.at /\ x.todo = s.todo /\ SameRequest(s, x)
      /\ x.seen = f
  BY <1>7 DEF Calls, SameRequest
<1>9. CallOK(x)
  BY <1>6, <1>8 DEF CallOK, SameRequest
<1>10. [Advance(c) EXCEPT ![c].seen = f] = [call EXCEPT ![c] = x]
  <2>1. Advance(c)[c] = s
    BY <1>5 DEF CallsOK
  <2> QED BY <2>1, <1>5
<1> HIDE DEF x
<1>11. Idle.at = "idle" /\ Idle.op = "none" /\ Idle.tab = NoTab /\ Idle.todo = <<>>
       /\ Idle.seen = <<>>
  BY DEF Idle
<1>12. /\ call' = Advance(c) => call'[c] = s
       /\ call' = [Advance(c) EXCEPT ![c].seen = f] => call'[c] = x
       /\ \A d \in Conns \ {c} : call'[d] = call[d]
  BY <1>5, <1>10 DEF CallsOK
<1>13. CallsOK'
  BY <1>5, <1>6, <1>9, <1>10, <1>12 DEF CallsOK
<1>14. CASE q.todo = <<>> /\ q.tab = NoTab
  <2>1. s = Idle /\ Over(s) /\ Over(x)
    BY <1>6, <1>8, <1>11, <1>14 DEF Over, SameRequest
  <2> QED BY <1>4, <1>8, <1>11, <1>12, <1>13, <1>14, <2>1
<1>15. CASE q.todo # <<>> \/ q.tab # NoTab
  <2>1. /\ SameRequest(r, s) /\ s.at # "idle" /\ s.todo = Tail(r.todo) /\ s.seen = r.seen
        /\ SameRequest(r, x) /\ x.at # "idle" /\ x.todo = Tail(r.todo)
    BY <1>4, <1>6, <1>8, <1>15 DEF SameRequest
  <2> QED BY <1>4, <1>8, <1>12, <1>13, <1>15, <2>1
<1> QED BY <1>14, <1>15

(* The files of a slot are only written for a certificate that was accepted, *)
(* and before anything else.                                                 *)
TodoOK(r) ==
    /\ \A i \in DOMAIN r.todo : r.todo[i] \in Parts =>
          r.op = "saveCert" /\ r.body.pair # NotPem
    /\ \A i, j \in DOMAIN r.todo : i < j /\ r.todo[j] \in Parts => r.todo[i] \in Parts

LEMMA TodoTail ==
  ASSUME NEW r, NEW s, CallOK(r), r.todo # <<>>, TodoOK(r), SameRequest(r, s),
         s.todo = Tail(r.todo)
  PROVE  TodoOK(s)
<1>1. r.todo \in Seq({"crt", "key", "read", "truncate", "write"})
  BY DEF CallOK, Calls
<1>2. /\ DOMAIN r.todo = 1..Len(r.todo) /\ Len(r.todo) \in Nat
      /\ DOMAIN Tail(r.todo) = 1..(Len(r.todo) - 1)
      /\ \A i \in 1..(Len(r.todo) - 1) : Tail(r.todo)[i] = r.todo[i + 1]
  BY <1>1, HeadTailProperties, LenProperties
<1>3. \A i \in DOMAIN s.todo : i + 1 \in DOMAIN r.todo /\ s.todo[i] = r.todo[i + 1]
                               /\ i \in Int
  BY <1>2
<1> QED BY <1>3 DEF TodoOK, SameRequest

LEMMA TodoNone == ASSUME NEW r, r.todo = <<>> PROVE TodoOK(r)
  BY DEF TodoOK

LEMMA PartsFirst ==
  ASSUME NEW S, NEW p \in Seq(S), NEW q \in Seq(S),
         \A i \in DOMAIN p : p[i] \in Parts, \A i \in DOMAIN q : q[i] \notin Parts
  PROVE  \A i, j \in DOMAIN (p \o q) :
            i < j /\ (p \o q)[j] \in Parts => (p \o q)[i] \in Parts
<1>1. p \o q \in Seq(S) /\ Len(p \o q) = Len(p) + Len(q)
      /\ Len(p) \in Nat /\ Len(q) \in Nat
  BY ConcatProperties, LenProperties
<1>2. DOMAIN (p \o q) = 1..(Len(p) + Len(q)) /\ DOMAIN p = 1..Len(p) /\ DOMAIN q = 1..Len(q)
  BY <1>1, LenProperties
<1>3. \A i \in 1..(Len(p) + Len(q)) :
         (p \o q)[i] = IF i <= Len(p) THEN p[i] ELSE q[i - Len(p)]
  BY ConcatProperties
<1>4. \A i \in DOMAIN (p \o q) : (p \o q)[i] \in Parts <=> i <= Len(p)
  <2> TAKE i \in DOMAIN (p \o q)
  <2>1. CASE i <= Len(p)
    BY <1>1, <1>2, <1>3, <2>1
  <2>2. CASE ~(i <= Len(p))
    <3>1. i - Len(p) \in DOMAIN q
      BY <1>1, <1>2, <2>2
    <3> QED BY <1>2, <1>3, <2>2, <3>1
  <2> QED BY <2>1, <2>2
<1> QED BY <1>1, <1>2, <1>4

LEMMA MergingType ==
  ASSUME NEW r
  PROVE  /\ Merging(r) \in Seq({"crt", "key", "read", "truncate", "write"})
         /\ <<"crt", "key">> \in Seq({"crt", "key", "read", "truncate", "write"})
<1> DEFINE S == {"crt", "key", "read", "truncate", "write"}
<1>1. <<"crt", "key">> \in Seq(S) /\ <<>> \in Seq(S)
  OBVIOUS
<1>2. <<"read", "truncate", "write">> \in Seq(S)
  OBVIOUS
<1>3. Merging(r) \in Seq(S)
  BY <1>1, <1>2 DEF Merging
<1> QED BY <1>1, <1>3

LEMMA TodoSteps ==
  ASSUME NEW r, NEW s, Valid(r), SameRequest(r, s), s.todo = Steps(r)
  PROVE  TodoOK(s)
<1>1. Merging(r) \in {<<>>, <<"read", "truncate", "write">>}
  BY DEF Merging
<1>2. CASE r.op = "saveCert"
  <2>1. Steps(r) = <<"crt", "key">> \o Merging(r)
    BY <1>2 DEF Steps
  <2>2. CASE Merging(r) = <<>>
    <3>1. Steps(r) = <<"crt", "key">>
      BY <2>1, <2>2
    <3> QED BY <1>2, <3>1 DEF TodoOK, SameRequest, Valid, Parts
  <2>3. CASE Merging(r) = <<"read", "truncate", "write">>
    <3> DEFINE S == {"crt", "key", "read", "truncate", "write"}
               p == <<"crt", "key">>
               q == <<"read", "truncate", "write">>
    <3>1. p \in Seq(S) /\ \A i \in DOMAIN p : p[i] \in Parts
      BY DEF Parts
    <3>2. q \in Seq(S) /\ \A i \in DOMAIN q : q[i] \notin Parts
      BY DEF Parts
    <3> HIDE DEF p, q
    <3>4. \A i, j \in DOMAIN (p \o q) :
             i < j /\ (p \o q)[j] \in Parts => (p \o q)[i] \in Parts
      BY <3>1, <3>2, PartsFirst
    <3>5. s.todo = p \o q
      BY <2>1, <2>3 DEF p, q
    <3> QED BY <1>2, <3>4, <3>5 DEF TodoOK, SameRequest, Valid
  <2> QED BY <1>1, <2>2, <2>3
<1>3. CASE r.op # "saveCert"
  <2>1. Steps(r) = <<>> \/ Steps(r) = <<"read", "truncate", "write">>
    BY <1>1, <1>3 DEF Steps
  <2> QED BY <2>1 DEF TodoOK, Parts
<1> QED BY <1>2, <1>3

TodosOK == \A c \in Conns : TodoOK(call[c])

(* What a step of the backend leaves of the requests.                        *)
SameRequests ==
    \A c \in Conns :
        \/ call[c].tab = NoTab /\ Over(call'[c])
        \/ /\ SameRequest(call[c], call'[c])
           /\ call[c].at = "idle" <=> call'[c].at = "idle"

LEMMA AdvanceTodos ==
  ASSUME CallsOK, TodosOK, NEW c \in Conns, Working(c), NEW f \in Seq(Line),
         \/ call' = Advance(c)
         \/ call' = [Advance(c) EXCEPT ![c].seen = f]
  PROVE  CallsOK' /\ TodosOK' /\ SameRequests
<1>1. /\ CallsOK'
      /\ \/ call[c].tab = NoTab /\ Over(call'[c])
         \/ /\ SameRequest(call[c], call'[c]) /\ call'[c].at # "idle"
            /\ call'[c].todo = Tail(call[c].todo)
      /\ \A d \in Conns \ {c} : call'[d] = call[d]
  BY AdvanceOK
<1>2. CallOK(call[c]) /\ call[c].at = "working" /\ call[c].todo # <<>>
  BY DEF CallsOK, CallOK, Working
<1>3. TodoOK(call'[c])
  BY <1>1, <1>2, TodoTail, TodoNone DEF TodosOK, Over
<1>4. TodosOK'
  BY <1>1, <1>3 DEF TodosOK
<1>5. SameRequests
  BY <1>1, <1>2 DEF SameRequests, SameRequest
<1> QED BY <1>1, <1>4, <1>5

LEMMA AdmitTodos ==
  ASSUME CallsOK, TodosOK, NEW c \in Conns, Admit(c)
  PROVE  CallsOK' /\ TodosOK' /\ SameRequests
<1> DEFINE todo == IF Permitted(call[c]) /\ Valid(call[c]) THEN Steps(call[c]) ELSE <<>>
<1>1. /\ CallsOK'
      /\ \A d \in Conns \ {c} : call'[d] = call[d]
      /\ todo = <<>> /\ call[c].tab = NoTab => call'[c] = Idle
      /\ todo # <<>> \/ call[c].tab # NoTab =>
            /\ SameRequest(call[c], call'[c]) /\ call'[c].at # "idle"
            /\ call'[c].todo = todo
  BY AdmitOK
<1>2. Over(Idle)
  BY DEF Over, Idle
<1>3. TodoOK(call'[c])
  <2>1. CASE todo = <<>> /\ call[c].tab = NoTab
    BY <1>1, <1>2, <2>1, TodoNone DEF Over
  <2>2. CASE todo # <<>> \/ call[c].tab # NoTab
    BY <1>1, <2>2, TodoNone, TodoSteps
  <2> QED BY <2>1, <2>2
<1>4. TodosOK'
  BY <1>1, <1>3 DEF TodosOK
<1>5. call[c].at = "sent"
  BY DEF Admit
<1> HIDE DEF todo
<1>6. SameRequests
  BY <1>1, <1>2, <1>5 DEF SameRequests, SameRequest
<1> QED BY <1>1, <1>4, <1>6

-----------------------------------------------------------------------------
(* Types: no step of the backend disturbs them.                              *)
DataOK ==
    /\ env \in Seq(Line)
    /\ certs \in [Slots -> [Parts -> Pairs \cup {NoFile, EmptyFile}]]
    /\ saver \in Tabs \cup {NoTab}
    /\ accounts \subseteq Creds
    /\ mishaps \subseteq {"torn", "crossed", "contended"}

LEMMA ServerTypeSplit == ServerTypeOK <=> DataOK /\ CallsOK
  BY DEF ServerTypeOK, DataOK, CallsOK

LEMMA WorkingCall ==
  ASSUME CallsOK, TodosOK, NEW c \in Conns, NEW step, At(c, step)
  PROVE  /\ call[c].at = "working" /\ call[c].op \in Ops /\ call[c] \in Calls(call[c].op)
         /\ call[c].todo # <<>> /\ 1 \in DOMAIN call[c].todo /\ call[c].todo[1] = step
         /\ call[c].seen \in Seq(Line)
         /\ step \in Parts => call[c].op = "saveCert" /\ call[c].body.slot \in Slots
                              /\ call[c].body.pair \in Pairs
<1>1. call[c].at = "working" /\ call[c].op \in Ops /\ call[c] \in Calls(call[c].op)
      /\ call[c].todo # <<>> /\ Head(call[c].todo) = step
  BY DEF At, Working, CallsOK, CallOK
<1>2. call[c].todo \in Seq({"crt", "key", "read", "truncate", "write"}) /\ call[c].seen \in Seq(Line)
  BY <1>1 DEF Calls
<1>3. 1 \in DOMAIN call[c].todo /\ call[c].todo[1] = step
  BY <1>1, <1>2, EmptySeq, LenProperties
<1>4. ASSUME step \in Parts
      PROVE  call[c].op = "saveCert" /\ call[c].body.slot \in Slots
             /\ call[c].body.pair \in Pairs
  <2>1. call[c].op = "saveCert" /\ call[c].body.pair # NotPem
    BY <1>3, <1>4 DEF TodosOK, TodoOK
  <2>2. call[c].body \in Posted
    BY <1>1, <2>1 DEF Calls, Bodies
  <2> QED BY <2>1, <2>2 DEF Posted
<1> QED BY <1>1, <1>2, <1>3, <1>4

LEMMA ServeType ==
  ASSUME DataOK, CallsOK, TodosOK, NEW c \in Conns, Serve(c)
  PROVE  DataOK' /\ CallsOK' /\ TodosOK' /\ SameRequests
<1>1. CASE Admit(c)
  <2>1. CallsOK' /\ TodosOK' /\ SameRequests
    BY <1>1, AdmitTodos
  <2>2. UNCHANGED <<env, certs, saver, accounts>>
    BY <1>1 DEF Admit
  <2>3. mishaps' \subseteq mishaps \cup {"contended"}
    BY <1>1 DEF Admit
  <2> QED BY <2>1, <2>2, <2>3 DEF DataOK
<1>2. ASSUME NEW p \in Parts, WriteFile(c, p)
      PROVE  DataOK' /\ CallsOK' /\ TodosOK' /\ SameRequests
  <2>1. At(c, p) /\ call' = Advance(c) /\ UNCHANGED <<env, saver, accounts, mishaps>>
        /\ certs' = [certs EXCEPT ![call[c].body.slot][p] = call[c].body.pair]
    BY <1>2 DEF WriteFile, history
  <2>2. CallsOK' /\ TodosOK' /\ SameRequests
    BY <2>1, AdvanceTodos, EmptySeq DEF At
  <2>3. call[c].body.slot \in Slots /\ call[c].body.pair \in Pairs
    BY <2>1, WorkingCall
  <2>4. certs' \in [Slots -> [Parts -> Pairs \cup {NoFile, EmptyFile}]]
    BY <2>1, <2>3 DEF DataOK
  <2> QED BY <2>1, <2>2, <2>4 DEF DataOK
<1>3. CASE ReadEnv(c)
  <2>1. CallsOK' /\ TodosOK' /\ SameRequests
    BY <1>3, AdvanceTodos DEF ReadEnv, At, DataOK
  <2>2. mishaps' \subseteq mishaps \cup {"crossed"} /\ UNCHANGED <<env, certs, saver, accounts>>
    BY <1>3 DEF ReadEnv
  <2> QED BY <2>1, <2>2 DEF DataOK
<1>4. CASE TruncateEnv(c)
  <2>1. CallsOK' /\ TodosOK' /\ SameRequests
    BY <1>4, AdvanceTodos, EmptySeq DEF TruncateEnv, At
  <2>2. env' \in Seq(Line) /\ UNCHANGED <<certs, saver, accounts, mishaps>>
    BY <1>4, EmptySeq DEF TruncateEnv, history
  <2> QED BY <2>1, <2>2 DEF DataOK
<1>5. CASE WriteEnv(c)
  <2>1. At(c, "write") /\ call' = [Advance(c) EXCEPT ![c].seen = <<>>]
        /\ env' = Merge(call[c].seen, Updates(call[c])) /\ UNCHANGED <<certs, mishaps>>
        /\ saver' = (IF call[c].op = "saveConfig" THEN call[c].tab ELSE saver)
        /\ accounts' = (IF call[c].op = "complete" THEN accounts \cup {call[c].body} ELSE accounts)
    BY <1>5 DEF WriteEnv
  <2>2. CallsOK' /\ TodosOK' /\ SameRequests
    BY <2>1, AdvanceTodos, EmptySeq DEF At
  <2>3. CallOK(call[c]) /\ call[c] \in Calls(call[c].op) /\ call[c].seen \in Seq(Line)
    BY <2>1, WorkingCall DEF CallsOK
  <2>4. env' \in Seq(Line)
    BY <2>1, <2>3, UpdatesType, MergeShape
  <2>5. saver' \in Tabs \cup {NoTab}
    BY <2>1, <2>3 DEF Calls, DataOK
  <2>6. accounts' \subseteq Creds
    BY <2>1, <2>3 DEF Calls, Bodies, DataOK
  <2> QED BY <2>1, <2>2, <2>4, <2>5, <2>6 DEF DataOK
<1> QED BY <1>1, <1>2, <1>3, <1>4, <1>5 DEF Serve

LEMMA CrashType ==
  ASSUME DataOK, CallsOK, TodosOK, Crash
  PROVE  DataOK' /\ CallsOK' /\ TodosOK' /\ SameRequests
<1> DEFINE q(c) == [call[c] EXCEPT !.todo = <<>>, !.seen = <<>>, !.reply = "lost"]
           s(c) == Proceed(q(c))
<1>1. call' = [c \in Conns |-> IF call[c].at \in {"sent", "working"} THEN s(c) ELSE call[c]]
  BY DEF Crash
<1>2. ASSUME NEW c \in Conns, call[c].at \in {"sent", "working"}
      PROVE  /\ CallOK(s(c)) /\ TodoOK(s(c))
             /\ \/ call[c].tab = NoTab /\ Over(s(c))
                \/ SameRequest(call[c], s(c)) /\ s(c).at = "answered"
  <2>1. call[c].op \in Ops /\ call[c] \in Calls(call[c].op)
    BY DEF CallsOK, CallOK
  <2>2. <<>> \in Seq({"crt", "key", "read", "truncate", "write"}) /\ <<>> \in Seq(Line)
    BY EmptySeq
  <2>3. q(c) \in Calls(call[c].op) /\ q(c).op = call[c].op /\ q(c).tab = call[c].tab
        /\ q(c).todo = <<>> /\ SameRequest(call[c], q(c))
    BY <2>1, <2>2 DEF Calls, SameRequest, Replies
  <2> HIDE DEF q
  <2>4. /\ CallOK(s(c))
        /\ q(c).tab = NoTab => s(c) = Idle
        /\ q(c).tab # NoTab => /\ SameRequest(q(c), s(c)) /\ s(c).todo = <<>>
                               /\ s(c).at = "answered"
    BY <2>1, <2>3, ProceedOK
  <2> HIDE DEF s
  <2>5. Over(Idle)
    BY DEF Over, Idle
  <2>6. CASE call[c].tab = NoTab
    BY <2>3, <2>4, <2>5, <2>6, TodoNone DEF Over
  <2>7. CASE call[c].tab # NoTab
    BY <2>3, <2>4, <2>7, TodoNone DEF SameRequest
  <2> QED BY <2>6, <2>7
<1> HIDE DEF s
<1>3. CallsOK'
  BY <1>1, <1>2 DEF CallsOK
<1>4. TodosOK'
  BY <1>1, <1>2 DEF TodosOK
<1>5. SameRequests
  BY <1>1, <1>2 DEF SameRequests, SameRequest
<1>6. mishaps' \subseteq mishaps \cup {"torn"} /\ UNCHANGED <<env, saver, accounts>>
  BY DEF Crash
<1>7. certs' \in [Slots -> [Parts -> Pairs \cup {NoFile, EmptyFile}]]
  <2>1. PICK cut \in SUBSET {c \in Conns : \E p \in Parts : At(c, p)} :
           certs' = [z \in Slots |-> [p \in Parts |->
              IF \E c \in cut : At(c, p) /\ call[c].body.slot = z
              THEN EmptyFile ELSE certs[z][p]]]
    BY DEF Crash
  <2> QED BY <2>1 DEF DataOK
<1> QED BY <1>3, <1>4, <1>5, <1>6, <1>7 DEF DataOK

-----------------------------------------------------------------------------
(* A request that a tab waits for says where the tab is in the wizard: this  *)
(* is why the buttons tell what it waits for.                                *)
Fits(r) ==
    /\ r.at = "idle" <=> r.op = "none"
    /\ r.at = "idle" => r.tab = NoTab
    /\ r.tab \in Tabs =>
          /\ r.op = "status" => ui[r.tab].view = "loading"
          /\ r.op \in Writing =>
                /\ ui[r.tab].view = "wizard" /\ ui[r.tab].busy
                /\ ui[r.tab].step \in IF r.op = "complete" THEN {3} ELSE 0..2
          /\ r.op = "getConfig" => ui[r.tab].view = "login"
          /\ r.op = "download" => ui[r.tab].view = "wizard" /\ ui[r.tab].step = 4

(* Only a login may be asked for again before it is answered.                *)
Exclusive ==
    \A c, d \in Conns :
        call[c].tab \in Tabs /\ call[c].op \in Writing \cup {"status"}
          /\ call[d].tab = call[c].tab => c = d

BusyHasCall ==
    \A t \in Tabs : ui[t].busy =>
        \E c \in Conns : call[c].tab = t /\ call[c].op \in Writing

Fitting == (\A c \in Conns : Fits(call[c])) /\ Exclusive /\ BusyHasCall

(* The state of a tab that Fits looks at.                                    *)
SameShape(t) ==
    ui'[t].view = ui[t].view /\ ui'[t].step = ui[t].step /\ ui'[t].busy = ui[t].busy

LEMMA FitsAgain ==
  ASSUME NEW r, NEW s, Fits(r), SameRequest(r, s), r.at = "idle" <=> s.at = "idle",
         r.tab \in Tabs => SameShape(r.tab)
  PROVE  Fits(s)'
<1>1. s.op = r.op /\ s.tab = r.tab
  BY DEF SameRequest
<1> QED BY <1>1 DEF Fits, SameShape

(* A request that nobody waits for fits any tab.                             *)
Unwaited(r) == r.tab = NoTab /\ (r.at = "idle" <=> r.op = "none")

LEMMA UnwaitedFits ==
  ASSUME NEW r, Unwaited(r), NoTab \notin Tabs
  PROVE  Fits(r)'
  BY DEF Unwaited, Fits

LEMMA FittingServer ==
  ASSUME Fitting, SameRequests, \A t \in Tabs : SameShape(t), NoTab \notin Tabs
  PROVE  Fitting'
<1>0. ASSUME NEW c \in Conns
      PROVE  \/ call[c].tab = NoTab /\ Unwaited(call'[c])
             \/ /\ SameRequest(call[c], call'[c])
                /\ call[c].at = "idle" <=> call'[c].at = "idle"
  BY DEF SameRequests, Over, Unwaited
<1>1. ASSUME NEW c \in Conns PROVE Fits(call[c])'
  BY <1>0, FitsAgain, UnwaitedFits DEF Fitting
<1>2. \A c \in Conns : call'[c].tab = call[c].tab
                         /\ (call[c].tab \in Tabs => call'[c].op = call[c].op)
  BY <1>0 DEF Unwaited, SameRequest
<1>3. Exclusive'
  BY <1>2 DEF Fitting, Exclusive
<1>4. BusyHasCall'
  BY <1>2 DEF Fitting, BusyHasCall, SameShape
<1> QED BY <1>1, <1>3, <1>4 DEF Fitting

(* A tab with no request under way sends one.                                *)
LEMMA FittingSend ==
  ASSUME Fitting, NEW t \in Tabs, NEW c \in Conns,
         \A d \in Conns : call[d].tab # t,
         \A d \in Conns \ {c} : call'[d] = call[d],
         Fits(call[c])', call'[c].tab = t, call[c].at = "idle",
         \A u \in Tabs \ {t} : SameShape(u),
         ui'[t].busy => call'[c].op \in Writing
  PROVE  Fitting'
<1>1. ASSUME NEW d \in Conns \ {c}
      PROVE  Fits(call[d])'
  <2>1. Fits(call[d]) /\ (call[d].tab \in Tabs => SameShape(call[d].tab))
    BY DEF Fitting
  <2> QED BY <2>1, FitsAgain DEF SameRequest
<1>2. Exclusive'
  <2>1. \A d \in Conns \ {c} : call'[d].tab # t
    OBVIOUS
  <2> QED BY <2>1 DEF Fitting, Exclusive
<1>3. BusyHasCall'
  <2> SUFFICES ASSUME NEW u \in Tabs, ui'[u].busy
               PROVE  \E d \in Conns : call'[d].tab = u /\ call'[d].op \in Writing
    BY DEF BusyHasCall
  <2>1. CASE u = t
    BY <2>1
  <2>2. CASE u # t
    <3>1. PICK d \in Conns : call[d].tab = u /\ call[d].op \in Writing
      BY <2>2 DEF Fitting, BusyHasCall, SameShape
    <3>2. d # c
      BY <3>1 DEF Fitting, Fits, Writing
    <3> QED BY <3>1, <3>2
  <2> QED BY <2>1, <2>2
<1> QED BY <1>1, <1>2, <1>3 DEF Fitting

LEMMA ExclusiveForget ==
  ASSUME Exclusive, NEW c \in Conns, NoTab \notin Tabs,
         call'[c].tab = NoTab, \A d \in Conns \ {c} : call'[d] = call[d]
  PROVE  Exclusive'
<1> SUFFICES ASSUME NEW d \in Conns, NEW e \in Conns, e # d, call'[d].tab \in Tabs,
                    call'[d].op \in Writing \cup {"status"}, call'[e].tab = call'[d].tab
             PROVE  FALSE
  BY DEF Exclusive
<1>1. d # c /\ call'[d] = call[d] /\ e # c /\ call'[e] = call[e]
  OBVIOUS
<1> QED BY <1>1 DEF Exclusive

(* A tab takes the answer to its only request.                               *)
LEMMA FittingReceive ==
  ASSUME Fitting, NEW t \in Tabs, NEW c \in Conns, call[c].tab = t,
         call[c].op \in Writing \cup {"status"},
         Unwaited(call'[c]), \A d \in Conns \ {c} : call'[d] = call[d],
         \A u \in Tabs \ {t} : SameShape(u), ~ui'[t].busy, NoTab \notin Tabs
  PROVE  Fitting'
<1>0. \A d \in Conns \ {c} : call[d].tab # t
  BY DEF Fitting, Exclusive
<1>1. ASSUME NEW d \in Conns
      PROVE  Fits(call[d])'
  <2>1. CASE d = c
    BY <2>1, UnwaitedFits
  <2>2. CASE d # c
    <3>1. Fits(call[d]) /\ (call[d].tab \in Tabs => SameShape(call[d].tab))
      BY <1>0, <2>2 DEF Fitting
    <3> QED BY <2>2, <3>1, FitsAgain DEF SameRequest
  <2> QED BY <2>1, <2>2
<1>2. Exclusive'
  BY ExclusiveForget DEF Fitting, Unwaited
<1>3. BusyHasCall'
  <2> SUFFICES ASSUME NEW u \in Tabs, ui'[u].busy
               PROVE  \E d \in Conns : call'[d].tab = u /\ call'[d].op \in Writing
    BY DEF BusyHasCall
  <2>1. u # t
    OBVIOUS
  <2>2. PICK d \in Conns : call[d].tab = u /\ call[d].op \in Writing
    BY <2>1 DEF Fitting, BusyHasCall, SameShape
  <2> QED BY <2>1, <2>2
<1> QED BY <1>1, <1>2, <1>3 DEF Fitting

(* The answer to a login or a download changes nothing that Fits looks at.   *)
LEMMA FittingForget ==
  ASSUME Fitting, NEW c \in Conns, call[c].op \notin Writing,
         Unwaited(call'[c]), \A d \in Conns \ {c} : call'[d] = call[d],
         \A u \in Tabs : SameShape(u), NoTab \notin Tabs
  PROVE  Fitting'
<1>1. ASSUME NEW d \in Conns
      PROVE  Fits(call[d])'
  <2>1. CASE d = c
    BY <2>1, UnwaitedFits
  <2>2. CASE d # c
    BY <2>2, FitsAgain DEF Fitting, SameRequest
  <2> QED BY <2>1, <2>2
<1>2. Exclusive'
  BY ExclusiveForget DEF Fitting, Unwaited
<1>3. BusyHasCall'
  BY DEF Fitting, BusyHasCall, SameShape
<1> QED BY <1>1, <1>2, <1>3 DEF Fitting

(* An idle button means that nothing is under way.                           *)
LEMMA NoCalls ==
  ASSUME Fitting, CallsOK, WizardTypeOK, NoTab \notin Tabs, NEW t \in Tabs,
         \/ ui[t].view = "blank"
         \/ ui[t].view = "wizard" /\ ui[t].step \in 0..3 /\ ~ui[t].busy
  PROVE  \A d \in Conns : call[d].tab # t
<1> SUFFICES ASSUME NEW d \in Conns, call[d].tab = t PROVE FALSE
  OBVIOUS
<1>1. Fits(call[d]) /\ call[d].op \in Ops /\ call[d].at # "idle"
  BY DEF Fitting, Fits, CallsOK, CallOK
<1>2. ui[t].step # 4 \/ ui[t].view = "blank"
  OBVIOUS
<1> QED BY <1>1, <1>2 DEF Fits, Ops, Writing

LEMMA SendOK ==
  ASSUME CallsOK, TodosOK, WizardTypeOK, Fitting, NEW t \in Tabs,
         NEW op \in Ops, NEW b \in Bodies(op), Fetch(t, op, ui[t].auth, b),
         \A d \in Conns : call[d].tab # t,
         \A u \in Tabs \ {t} : SameShape(u),
         ui'[t].busy => op \in Writing,
         \A r : r.op = op /\ r.tab = t /\ r.at = "sent" => Fits(r)'
  PROVE  CallsOK' /\ TodosOK' /\ Fitting'
<1>1. ui[t].auth \in Sendable \cup {NoCreds}
  BY DEF WizardTypeOK
<1>2. CallsOK'
  BY <1>1, FetchOK
<1>3. PICK c \in Conns : SentOn(c, t, op)
  BY <1>1, FetchOK
<1>4. TodosOK'
  BY <1>3, TodoNone DEF TodosOK, SentOn
<1>5. Fits(call[c])'
  BY <1>3 DEF SentOn
<1>6. Fitting'
  BY <1>3, <1>5, FittingSend DEF SentOn
<1> QED BY <1>2, <1>4, <1>6

LEMMA ReceiveTodos ==
  ASSUME CallsOK, TodosOK, Fitting, NoTab \notin Tabs,
         NEW t \in Tabs, NEW c \in Conns, NEW op, NEW got, Receive(t, c, op, got)
  PROVE  CallsOK' /\ TodosOK' /\ call[c].tab = t /\ call[c].op = op
         /\ Unwaited(call'[c]) /\ \A d \in Conns \ {c} : call'[d] = call[d]
<1>1. CallsOK' /\ (call'[c] = Idle \/ GaveUp(c)) /\ \A d \in Conns \ {c} : call'[d] = call[d]
  BY ReceiveOK
<1>2. call[c] \in Calls(call[c].op) /\ TodoOK(call[c]) /\ Fits(call[c])
  BY DEF CallsOK, CallOK, TodosOK, Fitting
<1>3. CASE call'[c] = Idle
  <2>1. Idle.todo = <<>> /\ Unwaited(Idle)
    BY DEF Idle, Unwaited
  <2>2. TodosOK'
    BY <1>1, <1>3, <2>1, TodoNone DEF TodosOK
  <2> QED BY <1>1, <1>3, <2>1, <2>2 DEF Receive
<1>4. CASE GaveUp(c)
  <2> DEFINE s == [call[c] EXCEPT !.tab = NoTab]
  <2>1. /\ s.op = call[c].op /\ s.at = call[c].at /\ s.todo = call[c].todo
        /\ s.body = call[c].body /\ s.tab = NoTab
    BY <1>2 DEF Calls
  <2>2. call'[c] = s
    BY <1>4 DEF GaveUp
  <2> HIDE DEF s
  <2>3. TodoOK(s) /\ Unwaited(s)
    BY <1>2, <2>1 DEF TodoOK, Unwaited, Fits
  <2>4. TodosOK'
    BY <1>1, <2>2, <2>3 DEF TodosOK
  <2> QED BY <1>1, <2>2, <2>3, <2>4 DEF Receive
<1> QED BY <1>1, <1>3, <1>4

SetupInv == DataOK /\ CallsOK /\ TodosOK /\ WizardTypeOK /\ Fitting

LEMMA InitInv == SetupInit => SetupInv
<1> SUFFICES ASSUME SetupInit PROVE SetupInv
  OBVIOUS
<1> USE DEF SetupInit
<1>1. DataOK
  BY SetupAssumption DEF ServerInit, DataOK
<1>2. CallsOK
  BY IdleOK DEF ServerInit, CallsOK
<1>i. Idle.at = "idle" /\ Idle.op = "none" /\ Idle.tab = NoTab /\ Idle.todo = <<>>
  BY DEF Idle
<1>3. TodosOK
  BY <1>i, TodoNone DEF ServerInit, TodosOK
<1>4. WizardTypeOK /\ \A t \in Tabs : ~ui[t].busy
  BY WizardAssumption DEF WizardInit, Mounted, WizardTypeOK
<1>5. Fitting
  BY <1>i, <1>4 DEF ServerInit, Fitting, Fits, Exclusive, BusyHasCall, Writing
<1> QED BY <1>1, <1>2, <1>3, <1>4, <1>5 DEF SetupInv

(* The state of a tab and the requests it has under way, one lemma for what  *)
(* the user may do and one for what an answer does.                          *)
LEMMA AppInv ==
  ASSUME SetupInv, NEW t \in Tabs, App(t)
  PROVE  SetupInv'
<1> USE DEF SetupInv
<1>1. /\ ui[t].view = "blank" /\ Fetch(t, "status", ui[t].auth, NoBody)
      /\ ui' = [ui EXCEPT ![t].view = "loading"]
      /\ UNCHANGED <<env, certs, saver, accounts, mishaps>>
  BY DEF App, Send, history
<1>2. WizardTypeOK' /\ (\A u \in Tabs \ {t} : SameShape(u)) /\ ui'[t].view = "loading"
      /\ ui'[t].busy = ui[t].busy
  BY <1>1 DEF WizardTypeOK, SameShape
<1>3. \A d \in Conns : call[d].tab # t
  BY <1>1, NoCalls, SetupAssumption
<1>4. ~ui'[t].busy
  BY <1>2, <1>3 DEF Fitting, BusyHasCall
<1>5. \A r : r.op = "status" /\ r.tab = t /\ r.at = "sent" => Fits(r)'
  BY <1>2 DEF Fits, Writing
<1>6. CallsOK' /\ TodosOK' /\ Fitting'
  BY <1>1, <1>2, <1>3, <1>4, <1>5, SendOK DEF Ops, Bodies
<1> QED BY <1>1, <1>2, <1>6 DEF DataOK

LEMMA PostInv ==
  ASSUME SetupInv, NEW t \in Tabs, NEW op \in Writing, NEW b \in Bodies(op),
         ui[t].view = "wizard", ~ui[t].busy,
         ui[t].step \in IF op = "complete" THEN {3} ELSE 0..2,
         Send(t, op, b), ui' = [ui EXCEPT ![t].busy = TRUE]
  PROVE  SetupInv'
<1> USE DEF SetupInv
<1>1. Fetch(t, op, ui[t].auth, b) /\ UNCHANGED <<env, certs, saver, accounts, mishaps>>
  BY DEF Send, history
<1>2. WizardTypeOK' /\ (\A u \in Tabs \ {t} : SameShape(u))
      /\ ui'[t].view = "wizard" /\ ui'[t].busy /\ ui'[t].step = ui[t].step
  BY DEF WizardTypeOK, SameShape
<1>3. \A d \in Conns : call[d].tab # t
  BY NoCalls, SetupAssumption
<1>4. \A r : r.op = op /\ r.tab = t /\ r.at = "sent" => Fits(r)'
  BY <1>2 DEF Fits, Writing
<1>5. CallsOK' /\ TodosOK' /\ Fitting'
  BY <1>1, <1>2, <1>3, <1>4, SendOK DEF Ops, Writing
<1> QED BY <1>1, <1>2, <1>5 DEF DataOK

LEMMA DownloadInv ==
  ASSUME SetupInv, NEW t \in Tabs, StepDownload(t)
  PROVE  SetupInv'
<1> USE DEF SetupInv
<1>1. /\ ui[t].view = "wizard" /\ ui[t].step = 4
      /\ \A d \in Conns : call[d].tab # t
      /\ Fetch(t, "download", ui[t].auth, NoBody) /\ ui' = ui
      /\ UNCHANGED <<env, certs, saver, accounts, mishaps>>
  BY DEF StepDownload, OnStep, Send, history
<1>2. WizardTypeOK' /\ \A u \in Tabs : SameShape(u)
  BY <1>1 DEF WizardTypeOK, SameShape
<1>3. ~ui'[t].busy
  BY <1>1 DEF Fitting, BusyHasCall
<1>4. \A r : r.op = "download" /\ r.tab = t /\ r.at = "sent" => Fits(r)'
  BY <1>1 DEF Fits, Writing
<1>5. CallsOK' /\ TodosOK' /\ Fitting'
  BY <1>1, <1>2, <1>3, <1>4, SendOK DEF Ops, Bodies
<1> QED BY <1>1, <1>2, <1>5 DEF DataOK

LEMMA EditInv ==
  ASSUME SetupInv, NEW t \in Tabs, NEW n, NEW keys \in SUBSET ConfigKeys, Edit(t, n, keys)
  PROVE  SetupInv'
<1> USE DEF SetupInv
<1>1. PICK k \in keys, v \in Typed : ui' = [ui EXCEPT ![t].config[k] = v]
  BY DEF Edit
<1>2. UNCHANGED <<env, certs, call, saver, accounts, mishaps>>
  BY DEF Edit, serverVars
<1>3. v \in Values /\ k \in ConfigKeys
  BY WizardAssumption
<1>4. WizardTypeOK' /\ \A u \in Tabs : SameShape(u)
  BY <1>1, <1>3, ZenonT(60) DEF WizardTypeOK, SameShape
<1>5. CallsOK' /\ TodosOK' /\ SameRequests
  BY <1>2 DEF CallsOK, TodosOK, SameRequests, SameRequest
<1> QED BY <1>2, <1>4, <1>5, FittingServer, SetupAssumption DEF DataOK

LEMMA BackInv ==
  ASSUME SetupInv, NEW t \in Tabs, Back(t)
  PROVE  SetupInv'
<1> USE DEF SetupInv
<1>1. /\ ui[t].view = "wizard" /\ ui[t].step \in 1..2 /\ ~ui[t].busy
      /\ ui' = [ui EXCEPT ![t].step = @ - 1]
      /\ UNCHANGED <<env, certs, call, saver, accounts, mishaps>>
  BY DEF Back, OnStep, serverVars, history
<1>2. \A d \in Conns : call[d].tab # t
  BY <1>1, NoCalls, SetupAssumption
<1>3. ui[t].step - 1 \in 0..4
  BY <1>1
<1>4. WizardTypeOK' /\ (\A u \in Tabs \ {t} : SameShape(u)) /\ ui'[t].busy = ui[t].busy
  BY <1>1, <1>3, SMTT(60) DEF WizardTypeOK, SameShape
<1>5. CallsOK' /\ TodosOK'
  BY <1>1 DEF CallsOK, TodosOK
<1>6. ASSUME NEW d \in Conns
      PROVE  Fits(call[d])'
  <2>1. Fits(call[d]) /\ (call[d].tab \in Tabs => SameShape(call[d].tab))
    BY <1>2, <1>4 DEF Fitting
  <2> QED BY <1>1, <2>1, FitsAgain DEF SameRequest
<1>7. Exclusive' /\ BusyHasCall'
  BY <1>1, <1>4 DEF Fitting, Exclusive, BusyHasCall, SameShape
<1> QED BY <1>1, <1>4, <1>5, <1>6, <1>7 DEF DataOK, Fitting

TabState ==
    [view : {"blank", "loading", "wizard", "login", "error"}, step : 0..4,
     config : [ConfigKeys -> Values], busy : BOOLEAN,
     auth : Sendable \cup {NoCreds}, signedIn : BOOLEAN]

LEMMA TabDone ==
  ASSUME NEW r \in TabState, NEW a \in Sendable
  PROVE  LET s == [r EXCEPT !.busy = FALSE, !.auth = a, !.step = 4]
         IN s \in TabState /\ ~s.busy
<1> DEFINE v == [r EXCEPT !.busy = FALSE]
           w == [v EXCEPT !.auth = a]
           s == [w EXCEPT !.step = 4]
<1>1. v \in TabState /\ ~v.busy
  BY DEF TabState
<1>2. [r EXCEPT !.busy = FALSE, !.auth = a, !.step = 4] = s
  OBVIOUS
<1> HIDE DEF v
<1>3. w \in TabState /\ ~w.busy
  BY <1>1 DEF TabState
<1> HIDE DEF w
<1>4. s \in TabState /\ ~s.busy
  BY <1>3 DEF TabState
<1> QED BY <1>2, <1>4 DEF v, w

LEMMA TabUpdate ==
  ASSUME WizardTypeOK, NEW t \in Tabs, NEW s \in TabState, ~s.busy,
         ui' = [ui EXCEPT ![t] = s]
  PROVE  WizardTypeOK' /\ ~ui'[t].busy /\ \A u \in Tabs \ {t} : ui'[u] = ui[u]
  BY DEF WizardTypeOK, TabState

(* The answers that re-enable the buttons, or show what App was to show.     *)
LEMMA AnswerInv ==
  ASSUME SetupInv, NEW t \in Tabs, NEW c \in Conns, NEW op \in Writing \cup {"status"},
         NEW got, Receive(t, c, op, got), WizardTypeOK', ~ui'[t].busy,
         \A u \in Tabs \ {t} : ui'[u] = ui[u]
  PROVE  SetupInv'
<1> USE DEF SetupInv
<1>1. /\ CallsOK' /\ TodosOK' /\ call[c].tab = t /\ call[c].op = op
      /\ Unwaited(call'[c]) /\ \A d \in Conns \ {c} : call'[d] = call[d]
  BY ReceiveTodos, SetupAssumption
<1>2. \A u \in Tabs \ {t} : SameShape(u)
  BY DEF SameShape
<1>3. Fitting'
  BY <1>1, <1>2, FittingReceive, SetupAssumption
<1>4. UNCHANGED <<env, certs, saver, accounts, mishaps>>
  BY DEF Receive, history
<1> QED BY <1>1, <1>3, <1>4 DEF DataOK

LEMMA AppShownInv ==
  ASSUME SetupInv, NEW t \in Tabs, NEW c \in Conns, NEW got, AppShown(t, c, got)
  PROVE  SetupInv'
<1> DEFINE v == CASE got = "open" -> "wizard"
                  [] got = "sealed" -> "login"
                  [] OTHER -> "error"
<1>1. Receive(t, c, "status", got) /\ ui' = [ui EXCEPT ![t].view = v]
  BY DEF AppShown
<1>2. v \in {"wizard", "login", "error"}
  OBVIOUS
<1> HIDE DEF v
<1>3. WizardTypeOK' /\ ui'[t].busy = ui[t].busy /\ \A u \in Tabs \ {t} : ui'[u] = ui[u]
  BY <1>1, <1>2, ZenonT(60) DEF SetupInv, WizardTypeOK
<1>4. ~ui[t].busy
  <2>1. call[c].op = "status" /\ call[c].tab = t
    BY <1>1 DEF Receive
  <2>2. \A d \in Conns : call[d].tab = t => d = c
    BY <2>1 DEF SetupInv, Fitting, Exclusive
  <2> QED BY <2>1, <2>2 DEF SetupInv, Fitting, BusyHasCall, Writing
<1> QED BY <1>1, <1>3, <1>4, AnswerInv

LEMMA PersistedInv ==
  ASSUME SetupInv, NEW t \in Tabs, NEW c \in Conns, NEW got, Persisted(t, c, got)
  PROVE  SetupInv'
<1> DEFINE n == IF Success(got) THEN ui[t].step + 1 ELSE ui[t].step
<1>1. Receive(t, c, "saveConfig", got)
      /\ ui' = [ui EXCEPT ![t].busy = FALSE, ![t].step = n]
  BY DEF Persisted
<1>2. ui[t].step \in 0..2
  <2>1. call[c].op = "saveConfig" /\ call[c].tab = t
    BY <1>1 DEF Receive
  <2> QED BY <2>1 DEF SetupInv, Fitting, Fits, Writing
<1>3. n \in 0..4
  BY <1>2
<1> HIDE DEF n
<1> DEFINE s == [ui[t] EXCEPT !.busy = FALSE, !.step = n]
<1>4. ui[t] \in TabState
  BY DEF SetupInv, WizardTypeOK, TabState
<1>5. s \in TabState /\ ~s.busy
  BY <1>3, <1>4 DEF TabState
<1>6. ui' = [ui EXCEPT ![t] = s]
  BY <1>1
<1> HIDE DEF s
<1>7. WizardTypeOK' /\ ~ui'[t].busy /\ \A u \in Tabs \ {t} : ui'[u] = ui[u]
  BY <1>5, <1>6, TabUpdate DEF SetupInv
<1> QED BY <1>1, <1>7, AnswerInv DEF Writing

LEMMA CertAnsweredInv ==
  ASSUME SetupInv, NEW t \in Tabs, NEW c \in Conns, NEW got, CertAnswered(t, c, got)
  PROVE  SetupInv'
<1>1. Receive(t, c, "saveCert", got) /\ ui' = [ui EXCEPT ![t].busy = FALSE]
  BY DEF CertAnswered
<1>2. WizardTypeOK' /\ ~ui'[t].busy /\ \A u \in Tabs \ {t} : ui'[u] = ui[u]
  BY <1>1, ZenonT(60) DEF SetupInv, WizardTypeOK
<1> QED BY <1>1, <1>2, AnswerInv DEF Writing

LEMMA CompletedInv ==
  ASSUME SetupInv, NEW t \in Tabs, NEW c \in Conns, NEW got, Completed(t, c, got)
  PROVE  SetupInv'
<1>1. Receive(t, c, "complete", got)
  BY DEF Completed
<1>2. CASE Success(got) /\ Encoding[call[c].body] # "wide"
  <2>1. ui' = [ui EXCEPT ![t].busy = FALSE, ![t].auth = call[c].body, ![t].step = 4]
    BY <1>2 DEF Completed
  <2>2. call[c].body \in Sendable
    <3>1. call[c].op = "complete" /\ CallOK(call[c])
      BY <1>1 DEF Receive, SetupInv, CallsOK
    <3> QED BY <1>2, <3>1 DEF CallOK, Calls, Bodies, Sendable
  <2> DEFINE s == [ui[t] EXCEPT !.busy = FALSE, !.auth = call[c].body, !.step = 4]
  <2>3. ui[t] \in TabState
    BY DEF SetupInv, WizardTypeOK, TabState
  <2>4. s \in TabState /\ ~s.busy
    BY <2>2, <2>3, TabDone
  <2>5. ui' = [ui EXCEPT ![t] = s]
    BY <2>1
  <2> HIDE DEF s
  <2>6. WizardTypeOK' /\ ~ui'[t].busy /\ \A u \in Tabs \ {t} : ui'[u] = ui[u]
    BY <2>4, <2>5, TabUpdate DEF SetupInv
  <2> QED BY <1>1, <2>6, AnswerInv DEF Writing
<1>3. CASE ~(Success(got) /\ Encoding[call[c].body] # "wide")
  <2>1. ui' = [ui EXCEPT ![t].busy = FALSE]
    BY <1>3 DEF Completed
  <2>2. WizardTypeOK' /\ ~ui'[t].busy /\ \A u \in Tabs \ {t} : ui'[u] = ui[u]
    BY <2>1, ZenonT(60) DEF SetupInv, WizardTypeOK
  <2> QED BY <1>1, <2>2, AnswerInv DEF Writing
<1> QED BY <1>2, <1>3

(* The two answers that leave the wizard's shape alone.                      *)
LEMMA ForgetInv ==
  ASSUME SetupInv, NEW t \in Tabs, NEW c \in Conns, NEW op, op \notin Writing,
         NEW got, Receive(t, c, op, got), WizardTypeOK', \A u \in Tabs : SameShape(u)
  PROVE  SetupInv'
<1> USE DEF SetupInv
<1>1. /\ CallsOK' /\ TodosOK' /\ call[c].tab = t /\ call[c].op = op
      /\ Unwaited(call'[c]) /\ \A d \in Conns \ {c} : call'[d] = call[d]
  BY ReceiveTodos, SetupAssumption
<1>2. Fitting'
  BY <1>1, FittingForget, SetupAssumption
<1>3. UNCHANGED <<env, certs, saver, accounts, mishaps>>
  BY DEF Receive, history
<1> QED BY <1>1, <1>2, <1>3 DEF DataOK

LEMMA DownloadAnsweredInv ==
  ASSUME SetupInv, NEW t \in Tabs, NEW c \in Conns, NEW got, DownloadAnswered(t, c, got)
  PROVE  SetupInv'
<1>1. Receive(t, c, "download", got) /\ ui' = ui
  BY DEF DownloadAnswered
<1>2. WizardTypeOK' /\ \A u \in Tabs : SameShape(u)
  BY <1>1 DEF SetupInv, WizardTypeOK, SameShape
<1> QED BY <1>1, <1>2, ForgetInv DEF Writing

LEMMA LoggedInInv ==
  ASSUME SetupInv, NEW t \in Tabs, NEW c \in Conns, NEW got, LoggedIn(t, c, got)
  PROVE  SetupInv'
<1> DEFINE a == IF Success(got) THEN ui[t].auth ELSE NoCreds
<1>1. Receive(t, c, "getConfig", got)
      /\ ui' = [ui EXCEPT ![t].signedIn = Success(got), ![t].auth = a]
  BY DEF LoggedIn
<1>2. a \in Sendable \cup {NoCreds}
  BY DEF SetupInv, WizardTypeOK
<1>3. Success(got) \in BOOLEAN
  BY DEF Success
<1> HIDE DEF a
<1>4. WizardTypeOK' /\ \A u \in Tabs : SameShape(u)
  BY <1>1, <1>2, <1>3, ZenonT(60) DEF SetupInv, WizardTypeOK, SameShape
<1> QED BY <1>1, <1>4, ForgetInv DEF Writing

(* A login is the only request that may be sent while another one is under   *)
(* way; only logins are, on a tab that shows the form.                       *)
LEMMA LoginInv ==
  ASSUME SetupInv, NEW t \in Tabs, Login(t)
  PROVE  SetupInv'
<1> USE DEF SetupInv
<1>1. PICK a \in Creds : Encoding[a] # "wide" /\ Fetch(t, "getConfig", a, NoBody)
                         /\ ui' = [ui EXCEPT ![t].auth = a]
  BY DEF Login
<1>2. ui[t].view = "login" /\ UNCHANGED <<env, certs, saver, accounts, mishaps>>
  BY DEF Login, history
<1>3. WizardTypeOK' /\ \A u \in Tabs : SameShape(u)
  BY <1>1 DEF WizardTypeOK, SameShape, Sendable
<1>4. CallsOK' /\ \E c \in Conns : SentOn(c, t, "getConfig")
  BY <1>1, FetchOK DEF Ops, Bodies, Sendable
<1>5. PICK c \in Conns : SentOn(c, t, "getConfig")
  BY <1>4
<1>6. TodosOK'
  BY <1>5, TodoNone DEF TodosOK, SentOn
<1>7. ASSUME NEW d \in Conns
      PROVE  Fits(call[d])'
  <2>1. CASE d = c
    BY <1>2, <1>3, <1>5, <2>1 DEF SentOn, Fits, Writing, SameShape
  <2>2. CASE d # c
    <3>1. call'[d] = call[d] /\ Fits(call[d])
      BY <1>5, <2>2 DEF SentOn, Fitting
    <3> QED BY <1>3, <3>1, FitsAgain DEF SameRequest
  <2> QED BY <2>1, <2>2
<1>8. Exclusive'
  <2> SUFFICES ASSUME NEW d \in Conns, NEW e \in Conns, d # e, call'[d].tab \in Tabs,
                      call'[d].op \in Writing \cup {"status"}, call'[e].tab = call'[d].tab
               PROVE  FALSE
    BY DEF Exclusive
  <2>1. d # c /\ call'[d] = call[d]
    BY <1>5 DEF SentOn, Writing
  <2>2. call[d].tab # t
    BY <1>2, <2>1 DEF Fitting, Fits, Writing
  <2>3. e # c /\ call'[e] = call[e]
    BY <1>5, <2>1, <2>2 DEF SentOn
  <2> QED BY <2>1, <2>3 DEF Fitting, Exclusive
<1>9. BusyHasCall'
  <2> SUFFICES ASSUME NEW u \in Tabs, ui'[u].busy
               PROVE  \E d \in Conns : call'[d].tab = u /\ call'[d].op \in Writing
    BY DEF BusyHasCall
  <2>1. PICK d \in Conns : call[d].tab = u /\ call[d].op \in Writing
    BY <1>3 DEF Fitting, BusyHasCall, SameShape
  <2>2. d # c
    BY <1>5, <2>1 DEF SentOn, Fitting, Fits, Writing
  <2> QED BY <1>5, <2>1, <2>2 DEF SentOn
<1> QED BY <1>2, <1>3, <1>4, <1>6, <1>7, <1>8, <1>9 DEF DataOK, Fitting

-----------------------------------------------------------------------------
LEMMA ClickInv ==
  ASSUME SetupInv, NEW t \in Tabs, Click(t)
  PROVE  SetupInv'
<1>1. CASE StepModel(t)
  BY <1>1, EditInv, WizardAssumption DEF StepModel
<1>2. CASE StepNginx(t)
  BY <1>2, EditInv, WizardAssumption DEF StepNginx
<1>3. CASE Back(t)
  BY <1>3, BackInv
<1>4. CASE PersistAndNext(t)
  <2>1. /\ ui[t].view = "wizard" /\ ui[t].step \in 0..2 /\ ~ui[t].busy
        /\ Send(t, "saveConfig", ui[t].config) /\ ui' = [ui EXCEPT ![t].busy = TRUE]
    BY <1>4 DEF PersistAndNext, OnStep
  <2>2. ui[t].config \in Bodies("saveConfig")
    BY DEF Bodies, SetupInv, WizardTypeOK
  <2> QED BY <2>1, <2>2, PostInv DEF Writing
<1>5. CASE StepCerts(t)
  <2>1. PICK s \in Slots, p \in Pairs \cup {NotPem} :
           Send(t, "saveCert", [slot |-> s, pair |-> p])
    BY <1>5 DEF StepCerts
  <2>2. [slot |-> s, pair |-> p] \in Bodies("saveCert")
    BY DEF Bodies, Posted
  <2>3. /\ ui[t].view = "wizard" /\ ui[t].step \in 0..2 /\ ~ui[t].busy
        /\ ui' = [ui EXCEPT ![t].busy = TRUE]
    BY <1>5 DEF StepCerts, OnStep
  <2> QED BY <2>1, <2>2, <2>3, PostInv DEF Writing
<1>6. CASE StepAdmin(t)
  <2>1. PICK a \in Creds : Send(t, "complete", a)
    BY <1>6 DEF StepAdmin
  <2>2. a \in Bodies("complete")
    BY DEF Bodies
  <2>3. /\ ui[t].view = "wizard" /\ ui[t].step \in {3} /\ ~ui[t].busy
        /\ ui' = [ui EXCEPT ![t].busy = TRUE]
    BY <1>6 DEF StepAdmin, OnStep
  <2> QED BY <2>1, <2>2, <2>3, PostInv DEF Writing
<1>7. CASE StepDownload(t)
  BY <1>7, DownloadInv
<1>8. CASE Login(t)
  BY <1>8, LoginInv
<1> QED BY <1>1, <1>2, <1>3, <1>4, <1>5, <1>6, <1>7, <1>8 DEF Click

LEMMA ReactInv ==
  ASSUME SetupInv, NEW t \in Tabs, React(t)
  PROVE  SetupInv'
<1>1. CASE App(t)
  BY <1>1, AppInv
<1>2. ASSUME NEW c \in Conns, NEW got,
             \/ AppShown(t, c, got) \/ Persisted(t, c, got) \/ CertAnswered(t, c, got)
             \/ Completed(t, c, got) \/ DownloadAnswered(t, c, got) \/ LoggedIn(t, c, got)
      PROVE  SetupInv'
  BY <1>2, AppShownInv, PersistedInv, CertAnsweredInv, CompletedInv,
     DownloadAnsweredInv, LoggedInInv
<1> QED BY <1>1, <1>2 DEF React

(* A step of the backend leaves the tabs and what their requests ask for.    *)
LEMMA BackendInv ==
  ASSUME SetupInv, UNCHANGED ui, DataOK' /\ CallsOK' /\ TodosOK' /\ SameRequests
  PROVE  SetupInv'
<1>1. WizardTypeOK' /\ \A t \in Tabs : SameShape(t)
  BY DEF SetupInv, WizardTypeOK, SameShape
<1>2. Fitting'
  BY <1>1, FittingServer, SetupAssumption DEF SetupInv
<1> QED BY <1>1, <1>2 DEF SetupInv

LEMMA NextInv ==
  ASSUME SetupInv, [SetupNext]_setupVars
  PROVE  SetupInv'
<1> USE DEF SetupInv
<1>1. ASSUME NEW t \in Tabs, Click(t) PROVE SetupInv'
  BY <1>1, ClickInv
<1>2. ASSUME NEW t \in Tabs, React(t) PROVE SetupInv'
  BY <1>2, ReactInv
<1>3. ASSUME NEW c \in Conns, Serve(c), UNCHANGED ui PROVE SetupInv'
  BY <1>3, ServeType, BackendInv
<1>4. CASE Crash /\ UNCHANGED ui
  BY <1>4, CrashType, BackendInv
<1>5. CASE UNCHANGED setupVars
  <2>1. UNCHANGED <<env, certs, call, saver, accounts, mishaps, ui>>
    BY <1>5 DEF setupVars, serverVars
  <2>2. DataOK' /\ CallsOK' /\ TodosOK' /\ SameRequests
    BY <2>1 DEF DataOK, CallsOK, TodosOK, SameRequests, SameRequest
  <2> QED BY <2>1, <2>2, BackendInv
<1> QED BY <1>1, <1>2, <1>3, <1>4, <1>5 DEF SetupNext

LEMMA SetupInvariant == SetupSpec => []SetupInv
<1>1. SetupInv /\ [SetupNext]_setupVars => SetupInv'
  BY NextInv
<1> QED BY <1>1, InitInv, PTL DEF SetupSpec

(* Type correctness of the setup application and its backend, for any number *)
(* of tabs, connections, credentials and files.                              *)
THEOREM SetupTypes == SetupSpec => []SetupTypeOK
<1>1. SetupInv => SetupTypeOK
  BY ServerTypeSplit DEF SetupInv, SetupTypeOK
<1> QED BY <1>1, SetupInvariant, PTL

(* The buttons of the wizard are disabled exactly while the tab waits to hear *)
(* of one request, whatever dies or breaks, for any number of tabs and        *)
(* connections (busy, Wizard.jsx:27-38). One that it gave up on may still be  *)
(* in service (fetch, api.js:38-43).                                          *)
THEOREM ButtonsTell == SetupSpec => []BusyMeansWaiting
<1>1. ASSUME SetupInv, NEW t \in Tabs, ui[t].view = "wizard", ui[t].step < 4
      PROVE  Cardinality({c \in Conns : call[c].tab = t}) = IF ui[t].busy THEN 1 ELSE 0
  <2> DEFINE S == {c \in Conns : call[c].tab = t}
  <2>1. CASE ui[t].busy
    <3>1. PICK c \in Conns : call[c].tab = t /\ call[c].op \in Writing
      BY <1>1, <2>1 DEF SetupInv, Fitting, BusyHasCall
    <3>2. S = {c}
      BY <1>1, <3>1 DEF SetupInv, Fitting, Exclusive
    <3> QED BY <2>1, <3>2, FS_Singleton
  <2>2. CASE ~ui[t].busy
    <3>1. ui[t].step \in 0..3
      BY <1>1 DEF SetupInv, WizardTypeOK
    <3>2. S = {}
      BY <1>1, <2>2, <3>1, NoCalls, SetupAssumption DEF SetupInv
    <3> QED BY <2>2, <3>2, FS_EmptySet
  <2> QED BY <2>1, <2>2
<1>2. SetupInv => BusyMeansWaiting
  BY <1>1 DEF BusyMeansWaiting
<1> QED BY <1>2, SetupInvariant, PTL

-----------------------------------------------------------------------------
(* The .env file: what a step may do to it, and to what the handlers have    *)
(* read of it.                                                               *)
Reading == \A c \in Conns : call'[c].seen \in {call[c].seen, env, <<>>}

FileStep ==
    /\ Reading
    /\ env' \in {env, <<>>} \/ \E c \in Conns : WriteEnv(c)

LEMMA ServeFile ==
  ASSUME DataOK, CallsOK, TodosOK, NEW c \in Conns, Serve(c)
  PROVE  FileStep
<1>1. CASE Admit(c)
  <2>0. Idle.seen = <<>>
    BY DEF Idle
  <2>1. \A d \in Conns : call'[d].seen \in {call[d].seen, <<>>}
    BY <1>1, <2>0, AdmitOK
  <2> QED BY <1>1, <2>1 DEF FileStep, Reading, Admit
<1>2. ASSUME NEW p \in Parts, WriteFile(c, p)
      PROVE  FileStep
  <2>1. call' = Advance(c) /\ Working(c)
    BY <1>2 DEF WriteFile, At
  <2>2. \A d \in Conns : call'[d].seen \in {call[d].seen, <<>>}
    BY <2>1, AdvanceOK, EmptySeq
  <2> QED BY <1>2, <2>2 DEF FileStep, Reading, WriteFile
<1>3. CASE ReadEnv(c)
  <2>1. call' = [Advance(c) EXCEPT ![c].seen = env] /\ Working(c) /\ env \in Seq(Line)
    BY <1>3 DEF ReadEnv, At, DataOK
  <2>2. \A d \in Conns : call'[d].seen \in {call[d].seen, env}
    BY <2>1, AdvanceOK
  <2> QED BY <1>3, <2>2 DEF FileStep, Reading, ReadEnv
<1>4. CASE TruncateEnv(c)
  <2>1. call' = Advance(c) /\ Working(c)
    BY <1>4 DEF TruncateEnv, At
  <2>2. \A d \in Conns : call'[d].seen \in {call[d].seen, <<>>}
    BY <2>1, AdvanceOK, EmptySeq
  <2> QED BY <1>4, <2>2 DEF FileStep, Reading, TruncateEnv
<1>5. CASE WriteEnv(c)
  <2>1. call' = [Advance(c) EXCEPT ![c].seen = <<>>] /\ Working(c) /\ <<>> \in Seq(Line)
    BY <1>5, EmptySeq DEF WriteEnv, At
  <2>2. \A d \in Conns : call'[d].seen \in {call[d].seen, <<>>}
    BY <2>1, AdvanceOK
  <2> QED BY <1>5, <2>2 DEF FileStep, Reading
<1> QED BY <1>1, <1>2, <1>3, <1>4, <1>5 DEF Serve

LEMMA FetchFile ==
  ASSUME CallsOK, NEW t, NEW op, NEW a, NEW b, Fetch(t, op, a, b)
  PROVE  \A c \in Conns :
            \/ call'[c] = call[c]
            \/ call[c].at = "idle" /\ call'[c].at = "sent" /\ call'[c].seen = <<>>
<1>1. PICK c \in Conns : call[c].at = "idle" /\
         call' = [call EXCEPT ![c] = [Idle EXCEPT !.op = op, !.tab = t, !.auth = a,
                                                  !.body = b, !.at = "sent"]]
  BY DEF Fetch
<1>2. [Idle EXCEPT !.op = op, !.tab = t, !.auth = a, !.body = b, !.at = "sent"].seen = <<>>
      /\ [Idle EXCEPT !.op = op, !.tab = t, !.auth = a, !.body = b, !.at = "sent"].at = "sent"
  BY DEF Idle
<1> QED BY <1>1, <1>2 DEF CallsOK

(* A tab only sends requests and hears of them.                              *)
TabStep ==
    /\ UNCHANGED <<env, certs, saver, accounts, mishaps>>
    /\ \A c \in Conns :
          \/ call'[c] = call[c] \/ GaveUp(c)
          \/ /\ call[c].at # "working" /\ call'[c].at \in {"idle", "sent"}
             /\ call'[c].seen = <<>>

LEMMA GaveUpSame ==
  ASSUME NEW c, call[c] \in Calls(call[c].op), GaveUp(c)
  PROVE  /\ call'[c].op = call[c].op /\ call'[c].body = call[c].body
         /\ call'[c].at = call[c].at /\ call'[c].todo = call[c].todo
         /\ call'[c].seen = call[c].seen /\ call'[c].auth = call[c].auth
         /\ call'[c].reply = call[c].reply /\ call'[c].tab = NoTab
  BY DEF GaveUp, Calls

LEMMA TabOnly ==
  ASSUME SetupInv, NEW t \in Tabs, Click(t) \/ React(t)
  PROVE  TabStep
<1>1. ASSUME NEW op, NEW b, Send(t, op, b) PROVE TabStep
  BY <1>1, FetchFile DEF Send, history, TabStep, SetupInv
<1>2. ASSUME NEW op, NEW c \in Conns, NEW got, Receive(t, c, op, got) PROVE TabStep
  <2>1. /\ (call'[c] = Idle /\ call[c].at # "working") \/ GaveUp(c)
        /\ \A d \in Conns \ {c} : call'[d] = call[d]
    BY <1>2, ReceiveOK DEF SetupInv
  <2>2. Idle.seen = <<>> /\ Idle.at = "idle"
    BY DEF Idle
  <2> QED BY <1>2, <2>1, <2>2 DEF TabStep, Receive, history
<1>3. ASSUME UNCHANGED serverVars PROVE TabStep
  BY <1>3 DEF serverVars, history, TabStep
<1>4. ASSUME Click(t) PROVE TabStep
  <2>1. CASE StepModel(t) \/ StepNginx(t) \/ Back(t)
    BY <1>3, <2>1 DEF StepModel, StepNginx, Edit, Back
  <2>2. CASE PersistAndNext(t) \/ StepDownload(t)
    BY <1>1, <2>2 DEF PersistAndNext, StepDownload
  <2>3. CASE StepCerts(t) \/ StepAdmin(t)
    BY <1>1, <2>3 DEF StepCerts, StepAdmin
  <2>4. CASE Login(t)
    BY <2>4, FetchFile DEF Login, history, TabStep, SetupInv
  <2> QED BY <1>4, <2>1, <2>2, <2>3, <2>4 DEF Click
<1>5. ASSUME React(t) PROVE TabStep
  <2>1. CASE App(t)
    BY <1>1, <2>1 DEF App
  <2>2. ASSUME NEW c \in Conns, NEW got,
               \/ AppShown(t, c, got) \/ Persisted(t, c, got) \/ CertAnswered(t, c, got)
               \/ Completed(t, c, got) \/ DownloadAnswered(t, c, got) \/ LoggedIn(t, c, got)
        PROVE  TabStep
    <3>1. \E op \in Ops : Receive(t, c, op, got)
      BY <2>2 DEF AppShown, Persisted, CertAnswered, Completed, DownloadAnswered, LoggedIn,
                   Ops, Writing
    <3> QED BY <1>2, <3>1
  <2> QED BY <1>5, <2>1, <2>2 DEF React
<1> QED BY <1>4, <1>5

LEMMA CrashedOK ==
  ASSUME CallsOK, NEW c \in Conns
  PROVE  LET s == Proceed([call[c] EXCEPT !.todo = <<>>, !.seen = <<>>, !.reply = "lost"])
         IN /\ s.seen = <<>> /\ s.at # "working" /\ s.todo = <<>>
            /\ s.at = "answered" => s.reply = "lost"
<1> DEFINE q == [call[c] EXCEPT !.todo = <<>>, !.seen = <<>>, !.reply = "lost"]
<1>1. call[c] \in Calls(call[c].op) /\ call[c].op \in Ops
  BY DEF CallsOK, CallOK
<1>2. <<>> \in Seq({"crt", "key", "read", "truncate", "write"}) /\ <<>> \in Seq(Line)
  BY EmptySeq
<1>3. q \in Calls(call[c].op) /\ q.op = call[c].op /\ q.todo = <<>> /\ q.seen = <<>>
      /\ q.reply = "lost"
  BY <1>1, <1>2 DEF Calls, Replies
<1> HIDE DEF q
<1>4. Idle.seen = <<>> /\ Idle.at = "idle" /\ Idle.todo = <<>>
  BY DEF Idle
<1>5. /\ q.tab = NoTab => Proceed(q) = Idle
      /\ q.tab # NoTab => Proceed(q).seen = q.seen /\ Proceed(q).at = "answered"
                          /\ Proceed(q).todo = <<>> /\ Proceed(q).reply = q.reply
  BY <1>1, <1>3, ProceedOK
<1> QED BY <1>3, <1>4, <1>5 DEF q

LEMMA NextFile ==
  ASSUME SetupInv, [SetupNext]_setupVars
  PROVE  FileStep
<1>1. ASSUME NEW t \in Tabs, Click(t) \/ React(t) PROVE FileStep
  <2>1. TabStep /\ \A c \in Conns : call[c] \in Calls(call[c].op)
    BY <1>1, TabOnly DEF SetupInv, CallsOK, CallOK
  <2> QED BY <2>1, GaveUpSame DEF TabStep, FileStep, Reading
<1>2. ASSUME NEW c \in Conns, Serve(c) PROVE FileStep
  BY <1>2, ServeFile DEF SetupInv
<1>3. CASE Crash
  <2>1. ASSUME NEW c \in Conns
        PROVE  Proceed([call[c] EXCEPT !.todo = <<>>, !.seen = <<>>, !.reply = "lost"]).seen = <<>>
    BY CrashedOK DEF SetupInv
  <2> QED BY <1>3, <2>1 DEF Crash, FileStep, Reading
<1>4. CASE UNCHANGED setupVars
  BY <1>4 DEF setupVars, serverVars, FileStep, Reading
<1> QED BY <1>1, <1>2, <1>3, <1>4 DEF SetupNext

(* No merge leaves a key assigned below a line that was rewritten for it, so *)
(* the next one finds the file as it has to be.                              *)
FilesKept == Unshadowed(env) /\ \A c \in Conns : Unshadowed(call[c].seen)

LEMMA WriteFacts ==
  ASSUME SetupInv, NEW c \in Conns, WriteEnv(c)
  PROVE  /\ env' = Merge(call[c].seen, Updates(call[c]))
         /\ call[c].seen \in Seq(Line)
         /\ \E K \in SUBSET Keys : Updates(call[c]) \in [K -> Values]
<1>1. At(c, "write") /\ env' = Merge(call[c].seen, Updates(call[c]))
  BY DEF WriteEnv
<1>2. CallOK(call[c]) /\ call[c].seen \in Seq(Line)
  BY <1>1, WorkingCall DEF SetupInv, CallsOK
<1> QED BY <1>1, <1>2, UpdatesType

LEMMA KeptNext ==
  ASSUME SetupInv, FilesKept, [SetupNext]_setupVars
  PROVE  FilesKept'
<1>1. Unshadowed(<<>>)
  BY DEF Unshadowed
<1>2. FileStep
  BY NextFile
<1>3. \A c \in Conns : Unshadowed(call'[c].seen)
  BY <1>1, <1>2 DEF FileStep, Reading, FilesKept
<1>4. ASSUME NEW c \in Conns, WriteEnv(c) PROVE Unshadowed(env')
  BY <1>4, WriteFacts, MergeUnshadowed DEF FilesKept
<1>5. Unshadowed(env')
  BY <1>1, <1>2, <1>4 DEF FileStep, FilesKept
<1> QED BY <1>3, <1>5 DEF FilesKept, Unshadowed

(* A save is what the next read_env returns, if the files setup may find     *)
(* assign no key below another line that names it; merge_env keeps it so     *)
(* (env_file.py:39-74). Without the hypothesis it is false: see the run      *)
(* overridden_value.                                                         *)
THEOREM SavesReadBack ==
  ASSUME \A f \in InitialFiles : Unshadowed(f)
  PROVE  SetupSpec => MergeReadsBack
<1>1. SetupInit => FilesKept
  <2>1. Idle.seen = <<>> /\ Unshadowed(<<>>)
    BY DEF Idle, Unshadowed
  <2> QED BY <2>1 DEF SetupInit, ServerInit, FilesKept
<1>2. SetupInv /\ FilesKept /\ [SetupNext]_setupVars => FilesKept'
  BY KeptNext
<1>3. ASSUME SetupInv, FilesKept, NEW c \in Conns, WriteEnv(c)
      PROVE  LET old == call[c].seen
                 new == Updates(call[c])
             IN /\ \A k \in Keys : ReadKey(env', k) =
                      IF k \in DOMAIN new THEN new[k] ELSE ReadKey(old, k)
                /\ \A i \in DOMAIN old :
                      (\A k \in DOMAIN new : ~Names(old[i], k)) => env'[i] = old[i]
  <2> DEFINE old == call[c].seen
             new == Updates(call[c])
  <2>1. PICK K \in SUBSET Keys : new \in [K -> Values]
    BY <1>3, WriteFacts
  <2>2. old \in Seq(Line) /\ Unshadowed(old) /\ env' = Merge(old, new) /\ DOMAIN new = K
    BY <1>3, <2>1, WriteFacts DEF FilesKept
  <2> HIDE DEF old, new
  <2>3. \A k \in Keys : ReadKey(env', k) = IF k \in DOMAIN new THEN new[k] ELSE ReadKey(old, k)
    BY <2>1, <2>2, MergeReads
  <2>4. ASSUME NEW i \in DOMAIN old, \A k \in DOMAIN new : ~Names(old[i], k)
        PROVE  env'[i] = old[i]
    <3>1. env'[i] = Rewritten(old, new, i)
      BY <2>1, <2>2, MergeShape
    <3>2. \A k \in DOMAIN new : ~IsTarget(old, i, k)
      BY <2>4 DEF IsTarget
    <3> QED BY <3>1, <3>2 DEF Rewritten
  <2> QED BY <2>3, <2>4 DEF old, new
<1>4. SetupInv /\ FilesKept /\ [SetupNext]_setupVars =>
         [\A c \in Conns : WriteEnv(c) =>
            LET old == call[c].seen
                new == Updates(call[c])
            IN /\ \A k \in Keys : ReadKey(env', k) =
                     IF k \in DOMAIN new THEN new[k] ELSE ReadKey(old, k)
               /\ \A i \in DOMAIN old :
                     (\A k \in DOMAIN new : ~Names(old[i], k)) => env'[i] = old[i]
         ]_setupVars
  BY <1>3
<1> QED BY <1>1, <1>2, <1>4, SetupInvariant, PTL DEF SetupSpec, MergeReadsBack

-----------------------------------------------------------------------------
(* Certificates: .env names a file only after that file was written, in the  *)
(* file as it is, in what a handler has read of it, and in what it is about  *)
(* to write.                                                                 *)
Assigned(f, k) == \E i \in DOMAIN f : Assigns(f[i], k)

Written(s, p) == certs[s][p] # NoFile

Pointed(f) ==
    \A s \in VhostSlots, p \in Parts : Assigned(f, SlotEnvKeys[s][p]) => Written(s, p)

(* A handler has written the files that are not left to do.                  *)
DoneFirst(r) ==
    r.at = "working" /\ r.op = "saveCert" =>
        \A p \in Parts : (\A i \in DOMAIN r.todo : r.todo[i] # p) => Written(r.body.slot, p)

CertInv ==
    /\ Pointed(env)
    /\ \A c \in Conns : Pointed(call[c].seen) /\ DoneFirst(call[c])

(* A file that was written stays.                                            *)
CertsStay == \A s \in Slots, p \in Parts : Written(s, p) => Written(s, p)'

LEMMA DoneStays ==
  ASSUME NEW r, CallOK(r), DoneFirst(r), CertsStay
  PROVE  DoneFirst(r)'
<1>1. r.at = "working" /\ r.op = "saveCert" => r.body.slot \in Slots
  BY DEF CallOK, Calls, Bodies, Posted
<1> QED BY <1>1 DEF DoneFirst, CertsStay

LEMMA PointedStays ==
  ASSUME NEW f, Pointed(f), CertsStay
  PROVE  Pointed(f)'
  BY DEF Pointed, CertsStay, Slots

(* Advancing over a step leaves every other part to do, or done, as it was.  *)
LEMMA DoneTail ==
  ASSUME NEW r, NEW s, CallOK(r), DoneFirst(r), CertsStay, SameRequest(r, s),
         r.at = "working", s.todo = Tail(r.todo),
         r.op = "saveCert" /\ r.todo[1] \in Parts =>
            certs'[r.body.slot][r.todo[1]] # NoFile
  PROVE  DoneFirst(s)'
<1>1. r.todo \in Seq({"crt", "key", "read", "truncate", "write"}) /\ r.todo # <<>>
  BY DEF CallOK, Calls
<1>2. /\ DOMAIN r.todo = 1..Len(r.todo) /\ Len(r.todo) \in Nat
      /\ DOMAIN Tail(r.todo) = 1..(Len(r.todo) - 1)
      /\ \A i \in 1..(Len(r.todo) - 1) : Tail(r.todo)[i] = r.todo[i + 1]
  BY <1>1, HeadTailProperties, LenProperties
<1>3. ASSUME NEW i \in DOMAIN r.todo, i # 1
      PROVE  i - 1 \in DOMAIN s.todo /\ s.todo[i - 1] = r.todo[i]
  BY <1>2, <1>3
<1> SUFFICES ASSUME s.op = "saveCert", NEW p \in Parts,
                    \A i \in DOMAIN s.todo : s.todo[i] # p
             PROVE  Written(s.body.slot, p)'
  BY DEF DoneFirst
<1>4. r.op = "saveCert" /\ r.body = s.body /\ r.body.slot \in Slots
  BY DEF SameRequest, CallOK, Calls, Bodies, Posted
<1>5. CASE r.todo[1] = p
  BY <1>4, <1>5 DEF Written
<1>6. CASE r.todo[1] # p
  <2>1. \A i \in DOMAIN r.todo : r.todo[i] # p
    BY <1>3, <1>6
  <2>2. Written(r.body.slot, p)
    BY <1>4, <2>1 DEF DoneFirst
  <2> QED BY <1>4, <2>2 DEF CertsStay
<1> QED BY <1>5, <1>6

(* At the merge nothing of the certificate is left to do.                    *)
LEMMA MergeAfterFiles ==
  ASSUME SetupInv, CertInv, NEW c \in Conns, At(c, "write"), call[c].op = "saveCert",
         NEW p \in Parts
  PROVE  Written(call[c].body.slot, p)
<1> DEFINE todo == call[c].todo
<1>1. call[c].at = "working" /\ 1 \in DOMAIN todo /\ todo[1] = "write"
      /\ call[c] \in Calls(call[c].op)
  BY WorkingCall DEF SetupInv
<1>2. \A i \in DOMAIN todo : i = 1 \/ 1 < i
  <2>1. todo \in Seq({"crt", "key", "read", "truncate", "write"})
    BY <1>1 DEF Calls
  <2> QED BY <2>1, LenProperties
<1>3. \A i \in DOMAIN todo : todo[i] \notin Parts
  BY <1>1, <1>2 DEF SetupInv, TodosOK, TodoOK, Parts
<1> QED BY <1>1, <1>3 DEF CertInv, DoneFirst

(* A merge assigns nothing but what it was given and what was assigned.      *)
LEMMA MergeAssigns ==
  ASSUME NEW K \in SUBSET Keys, NEW u \in [K -> Values], NEW f \in Seq(Line),
         NEW k \in Keys \ K, Assigned(Merge(f, u), k)
  PROVE  Assigned(f, k)
<1>1. PICK i \in DOMAIN Merge(f, u) : Assigns(Merge(f, u)[i], k)
  BY DEF Assigned
<1>2. CASE i \in DOMAIN f
  BY <1>1, <1>2, MergedOld DEF Assigned
<1>3. CASE i \notin DOMAIN f
  <2>1. i > Len(f)
    BY <1>1, <1>3, MergeShape, LenProperties
  <2>2. Names(Merge(f, u)[i], k) /\ k \in Keys
    BY <1>1 DEF Assigns, Names
  <2>3. k \in Missing(f, u)
    BY <2>1, <2>2, MergeShape
  <2> QED BY <2>3 DEF Missing
<1> QED BY <1>2, <1>3

LEMMA WritePointed ==
  ASSUME SetupInv, CertInv, NEW c \in Conns, WriteEnv(c), CertsStay
  PROVE  Pointed(env)'
<1> DEFINE r == call[c]
<1> SUFFICES ASSUME NEW s \in VhostSlots, NEW p \in Parts, Assigned(env', SlotEnvKeys[s][p])
             PROVE  Written(s, p)
  BY DEF Pointed, CertsStay, Slots
<1> DEFINE k == SlotEnvKeys[s][p]
<1>1. /\ env' = Merge(r.seen, Updates(r)) /\ r.seen \in Seq(Line)
      /\ \E K \in SUBSET Keys : Updates(r) \in [K -> Values]
  BY WriteFacts
<1>2. PICK K \in SUBSET Keys : Updates(r) \in [K -> Values]
  BY <1>1
<1>3. k \in Keys \ EditableKeys /\ k \notin {AdminUser, AdminHash}
  <2>1. k \in TlsKeys(s)
    BY DEF TlsKeys
  <2>2. s \in {"sm", "openai"}
    BY SetupAssumption DEF SlotEnvKeys
  <2>3. k \notin {AdminUser, AdminHash}
    BY <2>2 DEF SlotEnvKeys, AdminUser, AdminHash, Parts
  <2> QED BY <2>1, <2>3, SetupAssumption
<1>4. At(c, "write") /\ r.op \in Ops /\ r \in Calls(r.op)
  BY WorkingCall DEF WriteEnv, SetupInv
<1>5. CASE k \notin K
  <2>1. Assigned(r.seen, k)
    BY <1>1, <1>2, <1>3, <1>5, MergeAssigns
  <2> QED BY <2>1 DEF CertInv, Pointed
<1>6. CASE k \in K
  <2>1. k \in DOMAIN Updates(r)
    BY <1>2, <1>6
  <2>2. r.op # "saveConfig"
    BY <1>3, <2>1 DEF Updates
  <2>3. r.op # "complete"
    BY <1>3, <2>1 DEF Updates
  <2>4. r.op = "saveCert" /\ r.body.slot \in VhostSlots
    BY <2>1, <2>2, <2>3 DEF Updates
  <2>5. k \in TlsKeys(r.body.slot)
    BY <2>1, <2>4 DEF Updates
  <2>6. r.body.slot = s
    <3>1. s \in {"sm", "openai"} /\ r.body.slot \in {"sm", "openai"}
      BY <2>4, SetupAssumption DEF SlotEnvKeys
    <3> QED BY <2>5, <3>1 DEF TlsKeys, SlotEnvKeys, Parts
  <2> QED BY <1>4, <2>4, <2>6, MergeAfterFiles
<1> QED BY <1>5, <1>6

LEMMA TwoFirst ==
  ASSUME NEW S, NEW a, NEW b, <<a, b>> \in Seq(S), NEW q \in Seq(S)
  PROVE  LET s == <<a, b>> \o q
         IN 1 \in DOMAIN s /\ 2 \in DOMAIN s /\ s[1] = a /\ s[2] = b
<1> DEFINE h == <<a, b>>
<1>1. Len(h) = 2 /\ h[1] = a /\ h[2] = b /\ h \in Seq(S)
  OBVIOUS
<1> HIDE DEF h
<1>2. Len(q) \in Nat
  BY LenProperties
<1>a. h \o q \in Seq(S) /\ Len(h \o q) = Len(h) + Len(q)
  BY <1>1, ConcatProperties
<1>b. \A i \in 1..(Len(h) + Len(q)) :
         (h \o q)[i] = IF i <= Len(h) THEN h[i] ELSE q[i - Len(h)]
  BY <1>1, ConcatProperties
<1>3. h \o q \in Seq(S) /\ Len(h \o q) = 2 + Len(q)
      /\ \A i \in 1..(2 + Len(q)) : (h \o q)[i] = IF i <= 2 THEN h[i] ELSE q[i - 2]
  BY <1>1, <1>a, <1>b
<1>4. DOMAIN (h \o q) = 1..(2 + Len(q))
  BY <1>3, LenProperties
<1>5. 1 \in 1..(2 + Len(q)) /\ 2 \in 1..(2 + Len(q))
  BY <1>2
<1>6. (h \o q)[1] = a /\ (h \o q)[2] = b
  BY <1>1, <1>3, <1>5
<1> QED BY <1>4, <1>5, <1>6 DEF h

LEMMA ServeCerts ==
  ASSUME SetupInv, CertInv, NEW c \in Conns, Serve(c)
  PROVE  CertsStay /\ \A d \in Conns : DoneFirst(call[d])'
<1>0. \A d \in Conns : CallOK(call[d]) /\ DoneFirst(call[d])
  BY DEF SetupInv, CallsOK, CertInv
<1>1. ASSUME NEW step, At(c, step), NEW f \in Seq(Line), CertsStay,
             \/ call' = Advance(c)
             \/ call' = [Advance(c) EXCEPT ![c].seen = f],
             call[c].op = "saveCert" /\ step \in Parts =>
                certs'[call[c].body.slot][step] # NoFile
      PROVE  \A d \in Conns : DoneFirst(call[d])'
  <2>1. /\ \/ Over(call'[c])
           \/ SameRequest(call[c], call'[c]) /\ call'[c].todo = Tail(call[c].todo)
        /\ \A d \in Conns \ {c} : call'[d] = call[d]
    BY <1>1, AdvanceOK DEF SetupInv, At
  <2>2. call[c].at = "working" /\ call[c].todo[1] = step
    BY <1>1, WorkingCall DEF SetupInv
  <2>3. DoneFirst(call[c])'
    <3>1. CASE Over(call'[c])
      BY <3>1 DEF DoneFirst, Over
    <3>2. CASE SameRequest(call[c], call'[c]) /\ call'[c].todo = Tail(call[c].todo)
      BY <1>0, <1>1, <2>2, <3>2, DoneTail
    <3> QED BY <2>1, <3>1, <3>2
  <2>4. \A d \in Conns \ {c} : DoneFirst(call[d])'
    BY <1>0, <1>1, <2>1, DoneStays
  <2> QED BY <2>3, <2>4
<1>2. CASE Admit(c)
  <2>1. CertsStay
    BY <1>2 DEF Admit, CertsStay, Written
  <2>0. Idle.at = "idle"
    BY DEF Idle
  <2>2. /\ call'[c].at = "working" =>
              /\ SameRequest(call[c], call'[c])
              /\ call'[c].todo = IF Permitted(call[c]) /\ Valid(call[c])
                                 THEN Steps(call[c]) ELSE <<>>
        /\ \A d \in Conns \ {c} : call'[d] = call[d]
        /\ CallsOK'
    BY <1>2, <2>0, AdmitOK DEF SetupInv
  <2>3. ASSUME call'[c].at = "working", call'[c].op = "saveCert", NEW p \in Parts
        PROVE  \E i \in DOMAIN call'[c].todo : call'[c].todo[i] = p
    <3>1. call'[c].todo # <<>>
      BY <2>2, <2>3 DEF CallsOK, CallOK
    <3>2. call'[c].todo = <<"crt", "key">> \o Merging(call[c])
      BY <2>2, <2>3, <3>1 DEF Steps, SameRequest
    <3>3. /\ Merging(call[c]) \in Seq({"crt", "key", "read", "truncate", "write"})
          /\ <<"crt", "key">> \in Seq({"crt", "key", "read", "truncate", "write"})
      BY MergingType
    <3>4. /\ 1 \in DOMAIN call'[c].todo /\ 2 \in DOMAIN call'[c].todo
          /\ call'[c].todo[1] = "crt" /\ call'[c].todo[2] = "key"
      BY <3>2, <3>3, TwoFirst
    <3> QED BY <3>4 DEF Parts
  <2>4. DoneFirst(call[c])'
    BY <2>3 DEF DoneFirst
  <2>5. \A d \in Conns \ {c} : DoneFirst(call[d])'
    BY <1>0, <2>1, <2>2, DoneStays
  <2> QED BY <2>1, <2>4, <2>5
<1>3. ASSUME NEW p \in Parts, WriteFile(c, p)
      PROVE  CertsStay /\ \A d \in Conns : DoneFirst(call[d])'
  <2>1. At(c, p) /\ call' = Advance(c)
        /\ certs' = [certs EXCEPT ![call[c].body.slot][p] = call[c].body.pair]
    BY <1>3 DEF WriteFile
  <2>2. call[c].body.slot \in Slots /\ call[c].body.pair \in Pairs
    BY <2>1, WorkingCall DEF SetupInv
  <2> DEFINE slot == call[c].body.slot
             pair == call[c].body.pair
  <2>a. certs \in [Slots -> [Parts -> Pairs \cup {NoFile, EmptyFile}]] /\ pair # NoFile
    BY <2>2, SetupAssumption DEF SetupInv, DataOK
  <2>b. certs' = [certs EXCEPT ![slot][p] = pair] /\ slot \in Slots
    BY <2>1, <2>2
  <2> HIDE DEF slot, pair
  <2>c. certs'[slot][p] # NoFile
    BY <2>a, <2>b
  <2>d. CertsStay
    BY <2>a, <2>b DEF CertsStay, Written
  <2>3. CertsStay /\ certs'[call[c].body.slot][p] # NoFile
    BY <2>c, <2>d DEF slot
  <2> QED BY <1>1, <2>1, <2>3, EmptySeq
<1>4. CASE ReadEnv(c)
  <2>1. CertsStay /\ At(c, "read") /\ call' = [Advance(c) EXCEPT ![c].seen = env]
        /\ env \in Seq(Line)
    BY <1>4 DEF ReadEnv, CertsStay, Written, SetupInv, DataOK
  <2>2. "read" \notin Parts
    BY DEF Parts
  <2> QED BY <1>1, <2>1, <2>2
<1>5. CASE TruncateEnv(c)
  <2>1. CertsStay /\ At(c, "truncate") /\ call' = Advance(c)
    BY <1>5 DEF TruncateEnv, CertsStay, Written
  <2>2. "truncate" \notin Parts /\ <<>> \in Seq(Line)
    BY EmptySeq DEF Parts
  <2> QED BY <1>1, <2>1, <2>2
<1>6. CASE WriteEnv(c)
  <2>1. CertsStay /\ At(c, "write") /\ call' = [Advance(c) EXCEPT ![c].seen = <<>>]
    BY <1>6 DEF WriteEnv, CertsStay, Written
  <2>2. "write" \notin Parts /\ <<>> \in Seq(Line)
    BY EmptySeq DEF Parts
  <2> QED BY <1>1, <2>1, <2>2
<1> QED BY <1>2, <1>3, <1>4, <1>5, <1>6 DEF Serve

LEMMA NextCerts ==
  ASSUME SetupInv, CertInv, [SetupNext]_setupVars
  PROVE  CertsStay /\ \A c \in Conns : DoneFirst(call[c])'
<1>0. \A c \in Conns : CallOK(call[c]) /\ DoneFirst(call[c]) /\ call[c] \in Calls(call[c].op)
  BY DEF SetupInv, CallsOK, CallOK, CertInv
<1>1. ASSUME CertsStay,
             \A c \in Conns : \/ call'[c] = call[c] \/ GaveUp(c)
                              \/ call'[c].at # "working"
      PROVE  \A c \in Conns : DoneFirst(call[c])'
  <2> SUFFICES ASSUME NEW c \in Conns PROVE DoneFirst(call[c])'
    OBVIOUS
  <2>1. CASE call'[c] = call[c]
    BY <1>0, <1>1, <2>1, DoneStays
  <2>2. CASE GaveUp(c)
    <3>2. call'[c].at = call[c].at /\ call'[c].op = call[c].op
          /\ call'[c].todo = call[c].todo /\ call'[c].body = call[c].body
      BY <1>0, <2>2, GaveUpSame
    <3>3. CallOK(call[c]) /\ DoneFirst(call[c])
      BY <1>0
    <3>4. call[c].at = "working" /\ call[c].op = "saveCert" => call[c].body.slot \in Slots
      BY <3>3 DEF CallOK, Calls, Bodies, Posted
    <3> QED BY <1>1, <3>2, <3>3, <3>4 DEF DoneFirst, CertsStay
  <2>3. CASE call'[c].at # "working"
    BY <2>3 DEF DoneFirst
  <2> QED BY <1>1, <2>1, <2>2, <2>3
<1>2. ASSUME UNCHANGED certs PROVE CertsStay
  BY <1>2 DEF CertsStay, Written
<1>3. ASSUME NEW t \in Tabs, Click(t) \/ React(t)
      PROVE  CertsStay /\ \A c \in Conns : DoneFirst(call[c])'
  <2>1. TabStep
    BY <1>3, TabOnly
  <2>2. \A c \in Conns : \/ call'[c] = call[c] \/ GaveUp(c) \/ call'[c].at # "working"
    BY <2>1 DEF TabStep
  <2> QED BY <1>1, <1>2, <2>1, <2>2 DEF TabStep
<1>4. ASSUME NEW c \in Conns, Serve(c)
      PROVE  CertsStay /\ \A d \in Conns : DoneFirst(call[d])'
  BY <1>4, ServeCerts
<1>5. CASE Crash
  <2>1. ASSUME NEW c \in Conns
        PROVE  Proceed([call[c] EXCEPT !.todo = <<>>, !.seen = <<>>, !.reply = "lost"]).at
                  # "working"
    BY CrashedOK DEF SetupInv
  <2>2. \A c \in Conns : call'[c] = call[c] \/ call'[c].at # "working"
    BY <1>5, <2>1 DEF Crash
  <2>3. PICK cut \in SUBSET {c \in Conns : \E p \in Parts : At(c, p)} :
           certs' = [s \in Slots |-> [p \in Parts |->
              IF \E c \in cut : At(c, p) /\ call[c].body.slot = s
              THEN EmptyFile ELSE certs[s][p]]]
    BY <1>5 DEF Crash
  <2>4. \A s \in Slots, p \in Parts : certs'[s][p] \in {EmptyFile, certs[s][p]}
    BY <2>3
  <2>5. CertsStay
    BY <2>4, SetupAssumption DEF CertsStay, Written
  <2> QED BY <1>1, <2>2, <2>5
<1>6. CASE UNCHANGED setupVars
  BY <1>1, <1>2, <1>6 DEF setupVars, serverVars
<1> QED BY <1>3, <1>4, <1>5, <1>6 DEF SetupNext

LEMMA CertNext ==
  ASSUME SetupInv, CertInv, [SetupNext]_setupVars
  PROVE  CertInv'
<1>1. CertsStay /\ \A c \in Conns : DoneFirst(call[c])'
  BY NextCerts
<1>2. FileStep
  BY NextFile
<1>3. Pointed(<<>>)' /\ Pointed(env) /\ \A c \in Conns : Pointed(call[c].seen)
  BY DEF Pointed, Assigned, CertInv
<1>4. ASSUME NEW f, Pointed(f) PROVE Pointed(f)'
  BY <1>1, <1>4, PointedStays
<1>5. ASSUME NEW c \in Conns PROVE Pointed(call[c].seen)'
  <2>1. call'[c].seen \in {call[c].seen, env, <<>>}
    BY <1>2 DEF FileStep, Reading
  <2> QED BY <1>3, <1>4, <2>1
<1>6. ASSUME NEW c \in Conns, WriteEnv(c) PROVE Pointed(env)'
  BY <1>1, <1>6, WritePointed
<1>7. Pointed(env)'
  BY <1>2, <1>3, <1>4, <1>6 DEF FileStep
<1> QED BY <1>1, <1>5, <1>7 DEF CertInv

(* nginx is never pointed at a file that was not written, whatever dies or   *)
(* runs in between, two merges at once included (post_certs, app.py:93-108), *)
(* if the files setup may find point nowhere yet, as .env.example does not.  *)
THEOREM CertsBeforeEnv ==
  ASSUME \A f \in InitialFiles, s \in VhostSlots, p \in Parts :
            ~Assigned(f, SlotEnvKeys[s][p])
  PROVE  SetupSpec => []PointedCertsExist
<1>1. SetupInit => CertInv
  <2>1. Idle.seen = <<>> /\ Idle.at = "idle"
    BY DEF Idle
  <2> QED BY <2>1 DEF SetupInit, ServerInit, CertInv, Pointed, Assigned, DoneFirst
<1>2. SetupInv /\ CertInv /\ [SetupNext]_setupVars => CertInv'
  BY CertNext
<1>3. CertInv => PointedCertsExist
  <2> SUFFICES ASSUME CertInv, NEW s \in VhostSlots, NEW p \in Parts,
                      ReadKey(env, SlotEnvKeys[s][p]) # Absent
               PROVE  certs[s][p] # NoFile
    BY DEF PointedCertsExist
  <2>1. Assigned(env, SlotEnvKeys[s][p])
    BY DEF ReadKey, Assigned
  <2> QED BY <2>1 DEF CertInv, Pointed, Written
<1> QED BY <1>1, <1>2, <1>3, SetupInvariant, PTL DEF SetupSpec
=============================================================================
