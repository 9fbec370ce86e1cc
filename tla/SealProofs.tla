----------------------------- MODULE SealProofs -----------------------------
(***************************************************************************)
(* Setup is sealed once, and what it saved stays: the order of a handler's  *)
(* writes, the file while one merge at a time rewrites it, the account and  *)
(* the configuration it holds, for every number of tabs and connections.    *)
(***************************************************************************)
EXTENDS SetupProofs

(* The steps that are left follow each other as merge_env's do, and an       *)
(* answer follows the last of them.                                          *)
Ordered(q) ==
    \A i \in DOMAIN q :
        /\ q[i] \in Parts /\ i + 1 \in DOMAIN q => q[i + 1] \notin {"truncate", "write"}
        /\ q[i] = "read" => i + 1 \in DOMAIN q /\ q[i + 1] = "truncate"
        /\ q[i] = "truncate" => i + 1 \in DOMAIN q /\ q[i + 1] = "write"
        /\ q[i] = "write" => i + 1 \notin DOMAIN q

Todos == Seq({"crt", "key", "read", "truncate", "write"})

LEMMA OrderedTail ==
  ASSUME NEW q \in Todos, q # <<>>, Ordered(q)
  PROVE  Ordered(Tail(q))
<1>1. /\ DOMAIN q = 1..Len(q) /\ Len(q) \in Nat
      /\ DOMAIN Tail(q) = 1..(Len(q) - 1)
      /\ \A i \in 1..(Len(q) - 1) : Tail(q)[i] = q[i + 1]
  BY HeadTailProperties, LenProperties DEF Todos
<1>2. ASSUME NEW i \in DOMAIN Tail(q)
      PROVE  /\ i + 1 \in DOMAIN q /\ Tail(q)[i] = q[i + 1]
             /\ i + 1 \in DOMAIN Tail(q) <=> (i + 1) + 1 \in DOMAIN q
             /\ i + 1 \in DOMAIN Tail(q) => Tail(q)[i + 1] = q[(i + 1) + 1]
  BY <1>1, <1>2
<1> QED BY <1>2 DEF Ordered

LEMMA OrderedMerging ==
  ASSUME NEW r
  PROVE  Ordered(Merging(r)) /\ \A i \in DOMAIN Merging(r) : Merging(r)[i] \notin Parts
<1>1. CASE Updates(r) = <<>>
  BY <1>1 DEF Merging, Ordered, Parts
<1>2. CASE Updates(r) # <<>>
  BY <1>2 DEF Merging, Ordered, Parts
<1> QED BY <1>1, <1>2

LEMMA OrderedAfterParts ==
  ASSUME NEW p \in Todos, NEW q \in Todos, Ordered(q),
         \A i \in DOMAIN p : p[i] \in Parts,
         q # <<>> => q[1] \notin {"truncate", "write"}
  PROVE  Ordered(p \o q)
<1>1. p \o q \in Todos /\ Len(p \o q) = Len(p) + Len(q)
      /\ Len(p) \in Nat /\ Len(q) \in Nat
  BY ConcatProperties, LenProperties DEF Todos
<1>2. DOMAIN (p \o q) = 1..(Len(p) + Len(q)) /\ DOMAIN p = 1..Len(p) /\ DOMAIN q = 1..Len(q)
  BY <1>1, LenProperties DEF Todos
<1>3. \A i \in 1..(Len(p) + Len(q)) :
         (p \o q)[i] = IF i <= Len(p) THEN p[i] ELSE q[i - Len(p)]
  BY ConcatProperties DEF Todos
<1>4. ASSUME NEW i \in DOMAIN (p \o q), i > Len(p)
      PROVE  /\ i - Len(p) \in DOMAIN q /\ (p \o q)[i] = q[i - Len(p)]
             /\ i + 1 \in DOMAIN (p \o q) <=> (i - Len(p)) + 1 \in DOMAIN q
             /\ i + 1 \in DOMAIN (p \o q) => (p \o q)[i + 1] = q[(i - Len(p)) + 1]
  <2>1. i - Len(p) \in DOMAIN q /\ (p \o q)[i] = q[i - Len(p)]
        /\ (i + 1 \in DOMAIN (p \o q) <=> (i - Len(p)) + 1 \in DOMAIN q)
    BY <1>1, <1>2, <1>3, <1>4
  <2>2. ASSUME i + 1 \in DOMAIN (p \o q) PROVE (p \o q)[i + 1] = q[(i - Len(p)) + 1]
    <3>1. (p \o q)[i + 1] = q[(i + 1) - Len(p)]
      BY <1>1, <1>2, <1>3, <1>4, <2>2
    <3>2. (i + 1) - Len(p) = (i - Len(p)) + 1
      BY <1>1, <1>2
    <3> QED BY <3>1, <3>2
  <2> QED BY <2>1, <2>2
<1>5. ASSUME NEW i \in DOMAIN (p \o q), i <= Len(p)
      PROVE  /\ (p \o q)[i] \in Parts
             /\ i + 1 \in DOMAIN (p \o q) => (p \o q)[i + 1] \notin {"truncate", "write"}
  <2>1. (p \o q)[i] \in Parts
    BY <1>1, <1>2, <1>3, <1>5
  <2>2. ASSUME i + 1 \in DOMAIN (p \o q) PROVE (p \o q)[i + 1] \notin {"truncate", "write"}
    <3>1. CASE i < Len(p)
      <4>1. (p \o q)[i + 1] \in Parts
        BY <1>1, <1>2, <1>3, <2>2, <3>1
      <4> QED BY <4>1 DEF Parts
    <3>2. CASE i = Len(p)
      <4>1. (p \o q)[i + 1] = q[1] /\ q # <<>>
        <5>1. (p \o q)[i + 1] = q[(i + 1) - Len(p)] /\ Len(q) # 0
          BY <1>1, <1>2, <1>3, <2>2, <3>2
        <5>2. (i + 1) - Len(p) = 1
          BY <1>1, <3>2
        <5> QED BY <5>1, <5>2
      <4> QED BY <4>1
    <3>3. i < Len(p) \/ i = Len(p)
      BY <1>1, <1>2, <1>5
    <3> QED BY <3>1, <3>2, <3>3
  <2> QED BY <2>1, <2>2
<1>6. \A i \in DOMAIN (p \o q) : i > Len(p) \/ i <= Len(p)
  BY <1>1, <1>2
<1>7. "read" \notin Parts /\ "truncate" \notin Parts /\ "write" \notin Parts
  BY DEF Parts
<1> SUFFICES ASSUME NEW i \in DOMAIN (p \o q)
             PROVE  /\ (p \o q)[i] \in Parts /\ i + 1 \in DOMAIN (p \o q) =>
                          (p \o q)[i + 1] \notin {"truncate", "write"}
                    /\ (p \o q)[i] = "read" =>
                          i + 1 \in DOMAIN (p \o q) /\ (p \o q)[i + 1] = "truncate"
                    /\ (p \o q)[i] = "truncate" =>
                          i + 1 \in DOMAIN (p \o q) /\ (p \o q)[i + 1] = "write"
                    /\ (p \o q)[i] = "write" => i + 1 \notin DOMAIN (p \o q)
  BY DEF Ordered
<1>8. CASE i <= Len(p)
  <2>1. (p \o q)[i] \in Parts
        /\ (i + 1 \in DOMAIN (p \o q) => (p \o q)[i + 1] \notin {"truncate", "write"})
    BY <1>5, <1>8
  <2> QED BY <1>7, <2>1
<1>9. CASE i > Len(p)
  <2> DEFINE k == i - Len(p)
  <2>1. /\ k \in DOMAIN q /\ (p \o q)[i] = q[k]
        /\ (i + 1 \in DOMAIN (p \o q) <=> k + 1 \in DOMAIN q)
        /\ (i + 1 \in DOMAIN (p \o q) => (p \o q)[i + 1] = q[k + 1])
    BY <1>4, <1>9
  <2> HIDE DEF k
  <2>2. /\ q[k] \in Parts /\ k + 1 \in DOMAIN q => q[k + 1] \notin {"truncate", "write"}
        /\ q[k] = "read" => k + 1 \in DOMAIN q /\ q[k + 1] = "truncate"
        /\ q[k] = "truncate" => k + 1 \in DOMAIN q /\ q[k + 1] = "write"
        /\ q[k] = "write" => k + 1 \notin DOMAIN q
    BY <2>1 DEF Ordered
  <2> QED BY <2>1, <2>2
<1> QED BY <1>6, <1>8, <1>9

(* A handler starts with a certificate file or with reading .env.            *)
LEMMA OrderedSteps ==
  ASSUME NEW r
  PROVE  Ordered(Steps(r)) /\ (Steps(r) # <<>> => Steps(r)[1] \notin {"truncate", "write"})
<1>1. Merging(r) \in Todos /\ <<"crt", "key">> \in Todos
  BY MergingType DEF Todos
<1>2. Merging(r) # <<>> => Merging(r)[1] \notin {"truncate", "write"}
  BY DEF Merging
<1>3. CASE r.op = "saveCert"
  <2>1. Steps(r) = <<"crt", "key">> \o Merging(r)
    BY <1>3 DEF Steps
  <2>2. \A i \in DOMAIN <<"crt", "key">> : <<"crt", "key">>[i] \in Parts
    BY DEF Parts
  <2>3. Ordered(Steps(r))
    BY <1>1, <1>2, <2>1, <2>2, OrderedMerging, OrderedAfterParts
  <2>4. Steps(r)[1] = "crt"
    BY <1>1, <2>1, TwoFirst DEF Todos
  <2> QED BY <2>3, <2>4
<1>4. CASE r.op # "saveCert"
  <2>1. Steps(r) = Merging(r)
    BY <1>1, <1>4, ConcatEmptySeq DEF Steps, Todos
  <2> QED BY <1>2, <2>1, OrderedMerging
<1> QED BY <1>3, <1>4

-----------------------------------------------------------------------------
(* One merge at a time: what the handlers between the reading of .env and    *)
(* its writing hold, and what a step does to them.                           *)
OrdersOK == \A c \in Conns : Ordered(call[c].todo)

Mid(c) == At(c, "truncate") \/ At(c, "write")
Creating(c) == Working(c) /\ call[c].op = "complete"

LEMMA AtFirst ==
  ASSUME CallsOK, NEW c \in Conns, NEW step
  PROVE  At(c, step) <=> Working(c) /\ call[c].todo[1] = step
  BY DEF At

(* A handler that has done a step stands at the one that follows it.         *)
LEMMA StepAfter ==
  ASSUME CallsOK, OrdersOK, NEW c \in Conns, NEW step, At(c, step), NEW f \in Seq(Line),
         \/ call' = Advance(c)
         \/ call' = [Advance(c) EXCEPT ![c].seen = f]
  PROVE  /\ Ordered(call'[c].todo) /\ (Creating(c)' => Creating(c))
         /\ step \in Parts => ~Mid(c)'
         /\ step = "read" => At(c, "truncate")'
         /\ step = "truncate" => At(c, "write")'
         /\ step = "write" => ~Working(c)'
<1> DEFINE q == call[c].todo
           s == call'[c].todo
<1>1. Working(c) /\ CallOK(call[c]) /\ q # <<>> /\ q \in Todos /\ Ordered(q) /\ q[1] = step
  BY DEF At, Working, CallsOK, CallOK, Calls, Todos, OrdersOK
<1>2. CallsOK' /\ s = Tail(q) /\ (s # <<>> => SameRequest(call[c], call'[c]))
  BY <1>1, AdvanceOK DEF Over
<1>3. Ordered(s)
  BY <1>1, <1>2, OrderedTail
<1>4. /\ DOMAIN q = 1..Len(q) /\ Len(q) \in Nat /\ Len(q) # 0
      /\ Tail(q) = <<>> <=> Len(q) = 1
      /\ \A i \in 1..(Len(q) - 1) : Tail(q)[i] = q[i + 1]
  BY <1>1, HeadTailProperties, LenProperties, EmptySeq, TailType DEF Todos
<1>5. Working(c)' <=> s # <<>>
  BY <1>2 DEF CallsOK, CallOK, Working
<1>6. Working(c)' <=> 2 \in DOMAIN q
  <2>1. Working(c)' <=> Len(q) # 1
    BY <1>2, <1>4, <1>5
  <2>2. ASSUME NEW n \in Nat, n # 0 PROVE 2 \in 1..n <=> n # 1
    BY <2>2
  <2>3. Len(q) \in Nat /\ Len(q) # 0
    BY <1>4
  <2>4. 2 \in 1..Len(q) <=> Len(q) # 1
    BY <2>2, <2>3
  <2> QED BY <1>4, <2>1, <2>4
<1>7. 2 \in DOMAIN q => s[1] = q[2] /\ 1 \in DOMAIN q
  BY <1>2, <1>4
<1>8. 1 \in DOMAIN q /\ 1 + 1 = 2
  BY <1>4
<1>9. \A x : At(c, x)' <=> Working(c)' /\ s[1] = x
  BY DEF At
<1>10. /\ q[1] \in Parts /\ 2 \in DOMAIN q => q[2] \notin {"truncate", "write"}
       /\ q[1] = "read" => 2 \in DOMAIN q /\ q[2] = "truncate"
       /\ q[1] = "truncate" => 2 \in DOMAIN q /\ q[2] = "write"
       /\ q[1] = "write" => 2 \notin DOMAIN q
  BY <1>1, <1>8 DEF Ordered
<1>11. Creating(c)' => Creating(c)
  BY <1>1, <1>2, <1>5 DEF Creating, SameRequest
<1> QED BY <1>1, <1>3, <1>6, <1>7, <1>9, <1>10, <1>11 DEF Mid

(* Elsewhere nothing changes: such a step is in the middle of no merge.      *)
SameWork(d) ==
    /\ call'[d].op = call[d].op /\ call'[d].at = call[d].at
    /\ call'[d].todo = call[d].todo /\ call'[d].seen = call[d].seen

LEMMA SameCall ==
  ASSUME NEW d \in Conns, call'[d] = call[d] \/ SameWork(d)
  PROVE  /\ \A x : At(d, x)' <=> At(d, x)
         /\ Mid(d)' <=> Mid(d)
         /\ Creating(d)' <=> Creating(d)
         /\ Ordered(call'[d].todo) <=> Ordered(call[d].todo)
  BY DEF At, Mid, Creating, Working, SameWork

LEMMA NotWorking ==
  ASSUME NEW d \in Conns, ~Working(d)
  PROVE  ~Mid(d) /\ ~Creating(d) /\ \A x : ~At(d, x)
  BY DEF At, Mid, Creating

-----------------------------------------------------------------------------
(* One merge runs at a time, and it has read the file as it is.              *)
Uncrossed == \A c, d \in Conns : Mid(c) /\ Mid(d) => c = d
Fresh == \A c \in Conns : At(c, "truncate") => call[c].seen = env
Merged == Uncrossed /\ Fresh

LEMMA ContentIs ==
  /\ \A c \in Conns : At(c, "write") /\ (\A d \in Conns : At(d, "write") => d = c)
        => Content = call[c].seen
  /\ (\A c \in Conns : ~At(c, "write")) => Content = env
<1>1. ASSUME NEW c \in Conns, At(c, "write"), \A d \in Conns : At(d, "write") => d = c
      PROVE  Content = call[c].seen
  <2>1. c = CHOOSE d \in Conns : At(d, "write")
    BY <1>1
  <2> QED BY <1>1, <2>1 DEF Content
<1> QED BY <1>1 DEF Content

LEMMA ContentBecomes ==
  /\ \A c \in Conns : At(c, "write")' /\ (\A d \in Conns : At(d, "write")' => d = c)
        => Content' = call'[c].seen
  /\ (\A c \in Conns : ~At(c, "write")') => Content' = env'
<1>1. ASSUME NEW c \in Conns, At(c, "write")', \A d \in Conns : At(d, "write")' => d = c
      PROVE  Content' = call'[c].seen
  <2>1. c = CHOOSE d \in Conns : At(d, "write")'
    BY <1>1
  <2> QED BY <1>1, <2>1 DEF Content
<1> QED BY <1>1 DEF Content

(* A step in the middle of no merge.                                         *)
Aside ==
    /\ env' = env
    /\ \A c \in Conns :
          /\ At(c, "truncate")' <=> At(c, "truncate")
          /\ At(c, "write")' <=> At(c, "write")
          /\ Mid(c) => call'[c].seen = call[c].seen

LEMMA AsideMerged ==
  ASSUME Merged, Aside
  PROVE  Merged' /\ Content' = Content
<1>1. \A c \in Conns : Mid(c)' <=> Mid(c)
  BY DEF Aside, Mid
<1>2. Uncrossed'
  BY <1>1 DEF Merged, Uncrossed
<1>3. Fresh'
  BY DEF Merged, Fresh, Aside, Mid
<1>4. CASE \E c \in Conns : At(c, "write")
  <2>1. PICK c \in Conns : At(c, "write")
    BY <1>4
  <2>2. \A d \in Conns : At(d, "write") => d = c
    BY <2>1 DEF Merged, Uncrossed, Mid
  <2>3. At(c, "write")' /\ (\A d \in Conns : At(d, "write")' => d = c)
        /\ call'[c].seen = call[c].seen
    BY <2>1, <2>2 DEF Aside, Mid
  <2>4. Content' = Content
    BY <2>1, <2>2, <2>3, ContentIs, ContentBecomes
  <2> QED BY <1>2, <1>3, <2>4 DEF Merged
<1>5. CASE \A c \in Conns : ~At(c, "write")
  <2>1. \A c \in Conns : ~At(c, "write")'
    BY <1>5 DEF Aside
  <2>2. Content' = Content
    BY <1>5, <2>1, ContentIs, ContentBecomes DEF Aside
  <2> QED BY <1>2, <1>3, <2>2 DEF Merged
<1> QED BY <1>4, <1>5

(* The steps that end no merge: the file's content, the accounts and the     *)
(* saver stay, and only Admit puts a handler to work.                        *)
Quiet ==
    /\ accounts' = accounts /\ saver' = saver
    /\ Whole' /\ Merged => Merged' /\ Content' = Content
    /\ \/ \A c \in Conns : Creating(c)' => Creating(c)
       \/ \E c \in Conns : Admit(c)

(* What the tabs do and a crash put no handler to work.                      *)
LEMMA RestQuiet ==
  ASSUME CallsOK', OrdersOK, accounts' = accounts, saver' = saver,
         \A c \in Conns : SameWork(c) \/ ~Working(c)',
         Whole' => env' = env
                   /\ \A c \in Conns : Working(c) => SameWork(c) \/ ~Mid(c)
  PROVE  OrdersOK' /\ Quiet
<1>1. ASSUME NEW c \in Conns
      PROVE  Ordered(call'[c].todo) /\ (Creating(c)' => Creating(c))
             /\ \A x : At(c, x)' => At(c, x)
  <2>1. CASE SameWork(c)
    BY <2>1, SameCall DEF OrdersOK
  <2>2. CASE ~Working(c)'
    <3>1. call'[c].todo = <<>>
      BY <2>2 DEF CallsOK, CallOK, Working
    <3>2. Ordered(call'[c].todo)
      BY <3>1 DEF Ordered
    <3> QED BY <2>2, <3>2 DEF Creating, At
  <2> QED BY <2>1, <2>2
<1>2. ASSUME Whole', Merged PROVE Merged' /\ Content' = Content
  <2>1. \A c \in Conns : Mid(c) => SameWork(c)
    BY <1>2, NotWorking
  <2>2. Aside
    BY <1>1, <1>2, <2>1, SameCall DEF Aside, Mid, SameWork
  <2> QED BY <1>2, <2>2, AsideMerged
<1> QED BY <1>1, <1>2 DEF OrdersOK, Quiet

LEMMA TabQuiet ==
  ASSUME SetupInv, CallsOK', OrdersOK, TabStep
  PROVE  OrdersOK' /\ Quiet
<1>1. ASSUME NEW c \in Conns
      PROVE  SameWork(c) \/ (~Working(c) /\ ~Working(c)')
  <2>1. call[c] \in Calls(call[c].op)
    BY DEF SetupInv, CallsOK, CallOK
  <2> QED BY <2>1, GaveUpSame DEF TabStep, Working, SameWork
<1> QED BY <1>1, RestQuiet DEF TabStep

(* A crash tears the file when it meets a merge that has truncated it.       *)
LEMMA CrashQuiet ==
  ASSUME SetupInv, CallsOK', OrdersOK, Crash
  PROVE  OrdersOK' /\ Quiet
<1>1. \A c \in Conns : ~Working(c)'
  <2>1. ASSUME NEW c \in Conns
        PROVE  Proceed([call[c] EXCEPT !.todo = <<>>, !.seen = <<>>, !.reply = "lost"]).at
                  # "working"
    BY CrashedOK DEF SetupInv
  <2> QED BY <2>1 DEF Crash, Working
<1>2. OrdersOK' /\ \A c \in Conns : ~Creating(c)'
  <2>1. \A c \in Conns : call'[c].todo = <<>>
    BY <1>1 DEF CallsOK, CallOK, Working
  <2> QED BY <1>1, <2>1 DEF OrdersOK, Ordered, Creating
<1>3. ASSUME Whole' PROVE Merged' /\ Content' = Content
  <2>1. \A c \in Conns : ~Mid(c)' /\ ~At(c, "write")' /\ ~At(c, "truncate")'
    BY <1>1 DEF Mid, At
  <2>2. Content' = env' /\ env' = env
    BY <2>1, ContentBecomes DEF Crash
  <2>3. \A c \in Conns : ~At(c, "write")
    BY <1>3 DEF Whole, Crash
  <2>4. Content = env
    BY <2>3, ContentIs
  <2> QED BY <2>1, <2>2, <2>4 DEF Merged, Uncrossed, Fresh
<1> QED BY <1>2, <1>3 DEF Quiet, Crash

LEMMA AdmitQuiet ==
  ASSUME SetupInv, CallsOK', OrdersOK, NEW c \in Conns, Admit(c)
  PROVE  OrdersOK' /\ Quiet
<1>1. /\ call'[c].todo = IF Permitted(call[c]) /\ Valid(call[c])
                         THEN Steps(call[c]) ELSE <<>>
      /\ \A d \in Conns \ {c} : call'[d] = call[d]
  BY AdmitOK DEF SetupInv, Idle
<1>2. ~Working(c) /\ env' = env
  BY DEF Admit, Working
<1>3. Ordered(call'[c].todo)
      /\ (call'[c].todo # <<>> => call'[c].todo[1] \notin {"truncate", "write"})
  BY <1>1, OrderedSteps DEF Ordered
<1>4. OrdersOK'
  BY <1>1, <1>3 DEF OrdersOK
<1>5. ~At(c, "truncate")' /\ ~At(c, "write")' /\ ~Mid(c) /\ (\A x : ~At(c, x))
  <2>1. Working(c)' => call'[c].todo # <<>>
    BY DEF CallsOK, CallOK, Working
  <2> QED BY <1>2, <1>3, <2>1, NotWorking DEF At
<1>6. Aside
  <2>1. \A d \in Conns \ {c} : \A x : At(d, x)' <=> At(d, x)
    BY <1>1, SameCall
  <2> QED BY <1>1, <1>2, <1>5, <2>1 DEF Aside
<1> QED BY <1>4, <1>6, AsideMerged DEF Quiet, Admit

LEMMA FileQuiet ==
  ASSUME SetupInv, OrdersOK, NEW c \in Conns, NEW p \in Parts, WriteFile(c, p)
  PROVE  OrdersOK' /\ Quiet
<1>1. At(c, p) /\ call' = Advance(c) /\ env' = env /\ Working(c)
  BY DEF WriteFile, At
<1>2. \A d \in Conns \ {c} : call'[d] = call[d]
  BY <1>1, AdvanceOK, EmptySeq DEF SetupInv
<1>3. Ordered(call'[c].todo) /\ (Creating(c)' => Creating(c)) /\ ~Mid(c)'
  BY <1>1, StepAfter, EmptySeq DEF SetupInv
<1>4. ~Mid(c)
  BY <1>1 DEF Mid, At, Parts
<1>5. OrdersOK'
  BY <1>2, <1>3 DEF OrdersOK
<1>6. Aside
  <2>1. \A d \in Conns \ {c} : \A x : At(d, x)' <=> At(d, x)
    BY <1>2, SameCall
  <2> QED BY <1>1, <1>2, <1>3, <1>4, <2>1 DEF Aside, Mid
<1>7. \A d \in Conns : Creating(d)' => Creating(d)
  BY <1>2, <1>3, SameCall
<1> QED BY <1>5, <1>6, <1>7, AsideMerged DEF Quiet, WriteFile, history

(* A merge that starts in the middle of another one crosses it.              *)
LEMMA ReadQuiet ==
  ASSUME SetupInv, OrdersOK, NEW c \in Conns, ReadEnv(c)
  PROVE  OrdersOK' /\ Quiet
<1>1. At(c, "read") /\ call' = [Advance(c) EXCEPT ![c].seen = env] /\ Working(c)
      /\ env' = env /\ env \in Seq(Line)
  BY DEF ReadEnv, At, SetupInv, DataOK
<1>2. call'[c].seen = env /\ \A d \in Conns \ {c} : call'[d] = call[d]
  BY <1>1, AdvanceOK DEF SetupInv
<1>3. Ordered(call'[c].todo) /\ (Creating(c)' => Creating(c)) /\ At(c, "truncate")'
  BY <1>1, StepAfter DEF SetupInv
<1>4. OrdersOK'
  BY <1>2, <1>3 DEF OrdersOK
<1>5. \A d \in Conns : Creating(d)' => Creating(d)
  BY <1>2, <1>3, SameCall
<1>6. ASSUME Whole' PROVE Merged' /\ Content' = Content
  <2>1. \A d \in Conns : ~At(d, "truncate") /\ ~At(d, "write")
    BY <1>6 DEF ReadEnv, Whole
  <2>2. \A d \in Conns \ {c} : ~At(d, "truncate")' /\ ~At(d, "write")'
    BY <1>2, <2>1, SameCall
  <2>3. ~At(c, "write")'
    BY <1>3 DEF At
  <2>4. Content = env /\ Content' = env'
    BY <2>1, <2>2, <2>3, ContentIs, ContentBecomes
  <2>5. Uncrossed'
    BY <2>2 DEF Uncrossed, Mid
  <2>6. Fresh'
    BY <1>1, <1>2, <2>2 DEF Fresh
  <2> QED BY <1>1, <2>4, <2>5, <2>6 DEF Merged
<1> QED BY <1>4, <1>5, <1>6 DEF Quiet, ReadEnv

(* The truncated file's content is what its merge has read.                  *)
LEMMA TruncateQuiet ==
  ASSUME SetupInv, OrdersOK, NEW c \in Conns, TruncateEnv(c)
  PROVE  OrdersOK' /\ Quiet
<1>1. At(c, "truncate") /\ call' = Advance(c) /\ Working(c)
  BY DEF TruncateEnv, At
<1>3. Ordered(call'[c].todo) /\ (Creating(c)' => Creating(c)) /\ At(c, "write")'
  BY <1>1, StepAfter, EmptySeq DEF SetupInv
<1>2. call'[c].seen = call[c].seen /\ \A d \in Conns \ {c} : call'[d] = call[d]
  <2>1. call'[c].at = "working"
    BY <1>3 DEF At, Working
  <2> QED BY <1>1, <2>1, AdvanceOK, EmptySeq DEF SetupInv, Over
<1>4. OrdersOK'
  BY <1>2, <1>3 DEF OrdersOK
<1>5. \A d \in Conns : Creating(d)' => Creating(d)
  BY <1>2, <1>3, SameCall
<1>6. ASSUME Merged PROVE Merged' /\ Content' = Content
  <2>1. \A d \in Conns \ {c} : ~Mid(d)
    BY <1>1, <1>6 DEF Merged, Uncrossed, Mid
  <2>2. \A d \in Conns \ {c} : ~Mid(d)'
    BY <1>2, <2>1, SameCall
  <2>3. ~At(c, "write") /\ ~At(c, "truncate")'
    BY <1>1, <1>3 DEF At
  <2>4. Content = env
    BY <2>1, <2>3, ContentIs DEF Mid
  <2>5. Content' = call'[c].seen
    BY <1>3, <2>2, ContentBecomes DEF Mid
  <2>6. Content' = Content
    BY <1>1, <1>2, <1>6, <2>4, <2>5 DEF Merged, Fresh
  <2>7. Uncrossed' /\ Fresh'
    BY <2>2, <2>3 DEF Uncrossed, Fresh, Mid
  <2> QED BY <2>6, <2>7 DEF Merged
<1> QED BY <1>4, <1>5, <1>6 DEF Quiet, TruncateEnv, history

(* The writing of .env replaces the content that its merge has read.         *)
LEMMA WriteEnds ==
  ASSUME SetupInv, OrdersOK, NEW c \in Conns, WriteEnv(c)
  PROVE  /\ OrdersOK' /\ Working(c) /\ ~Working(c)'
         /\ \/ call[c].tab = NoTab /\ Over(call'[c])
            \/ SameRequest(call[c], call'[c])
         /\ \A d \in Conns \ {c} : call'[d] = call[d]
         /\ Merged => Merged' /\ Content = call[c].seen /\ Content' = env'
<1>1. /\ At(c, "write") /\ Working(c) /\ <<>> \in Seq(Line)
      /\ call' = [Advance(c) EXCEPT ![c].seen = <<>>]
  BY EmptySeq DEF WriteEnv, At
<1>2. /\ \/ call[c].tab = NoTab /\ Over(call'[c])
         \/ SameRequest(call[c], call'[c])
      /\ \A d \in Conns \ {c} : call'[d] = call[d]
  BY <1>1, AdvanceOK DEF SetupInv
<1>3. Ordered(call'[c].todo) /\ ~Working(c)'
  BY <1>1, StepAfter DEF SetupInv
<1>4. OrdersOK'
  BY <1>2, <1>3 DEF OrdersOK
<1>5. ASSUME Merged PROVE Merged' /\ Content = call[c].seen /\ Content' = env'
  <2>1. \A d \in Conns \ {c} : ~Mid(d)
    BY <1>1, <1>5 DEF Merged, Uncrossed, Mid
  <2>2. \A d \in Conns : ~Mid(d)' /\ ~At(d, "write")' /\ ~At(d, "truncate")'
    <3>1. \A d \in Conns \ {c} : ~Mid(d)'
      BY <1>2, <2>1, SameCall
    <3> QED BY <1>3, <3>1 DEF Mid, At
  <2>3. Content = call[c].seen /\ Content' = env'
    BY <1>1, <2>1, <2>2, ContentIs, ContentBecomes DEF Mid
  <2> QED BY <2>2, <2>3 DEF Merged, Uncrossed, Fresh
<1> QED BY <1>1, <1>2, <1>3, <1>4, <1>5

LEMMA NextQuiet ==
  ASSUME SetupInv, OrdersOK, [SetupNext]_setupVars
  PROVE  OrdersOK' /\ mishaps \subseteq mishaps' /\ (Quiet \/ \E c \in Conns : WriteEnv(c))
<1>1. CallsOK'
  BY NextInv DEF SetupInv
<1>2. ASSUME NEW t \in Tabs, Click(t) \/ React(t)
      PROVE  OrdersOK' /\ mishaps \subseteq mishaps' /\ Quiet
  <2>1. TabStep
    BY <1>2, TabOnly
  <2> QED BY <1>1, <2>1, TabQuiet DEF TabStep
<1>3. ASSUME NEW c \in Conns, Serve(c)
      PROVE  OrdersOK' /\ mishaps \subseteq mishaps' /\ (Quiet \/ \E d \in Conns : WriteEnv(d))
  <2>1. CASE Admit(c)
    BY <1>1, <2>1, AdmitQuiet DEF Admit
  <2>2. ASSUME NEW p \in Parts, WriteFile(c, p)
        PROVE  OrdersOK' /\ mishaps \subseteq mishaps' /\ Quiet
    BY <2>2, FileQuiet DEF WriteFile, history
  <2>3. CASE ReadEnv(c)
    BY <2>3, ReadQuiet DEF ReadEnv
  <2>4. CASE TruncateEnv(c)
    BY <2>4, TruncateQuiet DEF TruncateEnv, history
  <2>5. CASE WriteEnv(c)
    <3>1. mishaps' = mishaps
      BY <2>5 DEF WriteEnv
    <3> QED BY <2>5, <3>1, WriteEnds
  <2> QED BY <1>3, <2>1, <2>2, <2>3, <2>4, <2>5 DEF Serve
<1>4. CASE Crash
  BY <1>1, <1>4, CrashQuiet DEF Crash
<1>5. CASE UNCHANGED setupVars
  BY <1>1, <1>5, RestQuiet DEF setupVars, serverVars, SameWork
<1> QED BY <1>2, <1>3, <1>4, <1>5 DEF SetupNext

(* As long as the file is whole, merges follow each other.                   *)
MergeInv == OrdersOK /\ FilesKept /\ (Whole => Merged)

LEMMA MergeNext ==
  ASSUME SetupInv, MergeInv, [SetupNext]_setupVars
  PROVE  /\ MergeInv' /\ (Whole' => Whole)
         /\ \/ Quiet
            \/ \E c \in Conns : WriteEnv(c)
<1>1. /\ OrdersOK' /\ mishaps \subseteq mishaps' /\ FilesKept'
      /\ (Quiet \/ \E c \in Conns : WriteEnv(c))
  BY NextQuiet, KeptNext DEF MergeInv
<1>2. Whole' => Whole
  BY <1>1 DEF Whole
<1>3. Whole' => Merged'
  BY <1>1, <1>2, WriteEnds DEF MergeInv, Quiet
<1> QED BY <1>1, <1>2, <1>3 DEF MergeInv

LEMMA MergeInit ==
  ASSUME \A f \in InitialFiles : Unshadowed(f), SetupInit
  PROVE  MergeInv
<1>1. Idle.seen = <<>> /\ Idle.todo = <<>> /\ Idle.at = "idle" /\ Unshadowed(<<>>)
  BY DEF Idle, Unshadowed
<1>2. \A c \in Conns : call[c] = Idle /\ ~Working(c)
  BY <1>1 DEF SetupInit, ServerInit, Working
<1>3. OrdersOK
  BY <1>1, <1>2 DEF OrdersOK, Ordered
<1>4. FilesKept
  BY <1>1, <1>2 DEF FilesKept, SetupInit, ServerInit
<1>5. Merged
  BY <1>2, NotWorking DEF Merged, Uncrossed, Fresh
<1> QED BY <1>3, <1>4, <1>5 DEF MergeInv

(* What a merge leaves in .env.                                              *)
LEMMA WriteReads ==
  ASSUME SetupInv, FilesKept, NEW c \in Conns, WriteEnv(c), NEW k \in Keys
  PROVE  ReadKey(env', k) =
            IF k \in DOMAIN Updates(call[c]) THEN Updates(call[c])[k]
            ELSE ReadKey(call[c].seen, k)
<1> DEFINE r == call[c]
           u == Updates(r)
<1>1. PICK K \in SUBSET Keys : u \in [K -> Values]
  BY WriteFacts
<1>2. env' = Merge(r.seen, u) /\ r.seen \in Seq(Line) /\ Unshadowed(r.seen)
  BY WriteFacts DEF FilesKept
<1>3. ReadKey(env', k) = IF k \in K THEN u[k] ELSE ReadKey(r.seen, k)
  BY <1>1, <1>2, MergeReads
<1>4. DOMAIN u = K
  BY <1>1
<1> QED BY <1>3, <1>4

LEMMA UpdatedKeys ==
  ASSUME NEW r, NEW k \in DOMAIN Updates(r)
  PROVE  /\ k \in EditableKeys => r.op = "saveConfig"
         /\ k \in {AdminUser, AdminHash} => r.op = "complete"
<1>1. CASE r.op = "saveConfig"
  <2>1. k \in EditableKeys
    BY <1>1 DEF Updates
  <2> QED BY <1>1, <2>1, SetupAssumption
<1>2. CASE r.op = "saveCert" /\ r.body.slot \in VhostSlots
  <2>1. k \in TlsKeys(r.body.slot)
    BY <1>2 DEF Updates
  <2>2. \A s \in VhostSlots, p \in Parts :
           SlotEnvKeys[s][p] # AdminUser /\ SlotEnvKeys[s][p] # AdminHash
    BY SetupAssumption DEF SlotEnvKeys, AdminUser, AdminHash, Parts
  <2>3. k \notin {AdminUser, AdminHash}
    BY <1>2, <2>1, <2>2 DEF TlsKeys
  <2> QED BY <1>2, <2>1, <2>3, SetupAssumption
<1>3. CASE r.op = "complete"
  <2>1. k \in {AdminUser, AdminHash}
    BY <1>3 DEF Updates
  <2> QED BY <1>3, <2>1, SetupAssumption
<1>4. CASE r.op \notin {"saveConfig", "complete"}
           /\ ~(r.op = "saveCert" /\ r.body.slot \in VhostSlots)
  BY <1>4 DEF Updates
<1> QED BY <1>1, <1>2, <1>3, <1>4

-----------------------------------------------------------------------------
(* The account: while nothing has gone wrong, one is only being created      *)
(* while there is none, and the one that was written can be read from .env.  *)
Holds(f, a) == ReadKey(f, AdminUser) = UserOf(a) /\ ReadKey(f, AdminHash) = HashOf(a)

Sole ==
    \A c \in Conns : Creating(c) =>
        accounts = {} /\ \A d \in Conns : Creating(d) => d = c
Owned == \A a \in accounts : accounts = {a} /\ Holds(Content, a)

SealInv == MergeInv /\ (mishaps = {} => Sole /\ Owned)

(* The file of an account that was written is sealed.                        *)
LEMMA HeldSealed ==
  ASSUME NEW f, NEW a \in Creds, Holds(f, a)
  PROVE  Sealed(f)
<1>1. HashOf(a) \in Values /\ HashOf(a) # <<>>
  BY SetupAssumption DEF HashOf
<1> QED BY <1>1, AbsentAssumption DEF Holds, Sealed

(* That an account is created only while there is none is                    *)
(* require_unconfigured's doing.                                             *)
LEMMA AdmitSole ==
  ASSUME SetupInv, SetupInv', Sole, Owned, NEW c \in Conns, Admit(c), mishaps' = {}
  PROVE  Sole'
<1>1. /\ call'[c].todo # <<>> => SameRequest(call[c], call'[c])
      /\ accounts' = accounts
      /\ call'[c].todo = IF Permitted(call[c]) /\ Valid(call[c])
                         THEN Steps(call[c]) ELSE <<>>
      /\ \A d \in Conns \ {c} : call'[d] = call[d]
  <2>1. accounts' = accounts
    BY DEF Admit
  <2>2. Idle.todo = <<>>
    BY DEF Idle
  <2> QED BY <2>1, <2>2, AdmitOK DEF SetupInv
<1>2. \A d \in Conns \ {c} : Creating(d)' <=> Creating(d)
  BY <1>1, SameCall
<1>3. CASE ~Creating(c)'
  BY <1>1, <1>2, <1>3 DEF Sole
<1>4. CASE Creating(c)'
  <2>2. call'[c].todo # <<>>
    BY <1>4 DEF Creating, Working, SetupInv, CallsOK, CallOK
  <2>1. call[c].op = "complete"
    BY <1>1, <1>4, <2>2 DEF Creating, SameRequest
  <2>3. ~Sealed(env)
    BY <1>1, <2>1, <2>2 DEF Permitted
  <2>4. \A d \in Conns : ~At(d, "write") /\ ~Creating(d)
    <3>1. ASSUME NEW d \in Conns, At(d, "write") \/ Creating(d) PROVE FALSE
      BY <2>1, <3>1 DEF Admit, Creating, At
    <3> QED BY <3>1
  <2>5. Content = env
    BY <2>4, ContentIs
  <2>6. accounts = {}
    BY <2>3, <2>5, HeldSealed DEF Owned, SetupInv, DataOK
  <2> QED BY <1>1, <1>2, <2>4, <2>6 DEF Sole
<1> QED BY <1>3, <1>4

(* A merge writes the account of the one that is being created, or leaves    *)
(* the account that is there.                                                *)
LEMMA WriteAccount ==
  ASSUME SetupInv, FilesKept, NEW c \in Conns, WriteEnv(c)
  PROVE  /\ call[c].op = "complete" => Holds(env', call[c].body)
         /\ call[c].op # "complete" => \A a : Holds(call[c].seen, a) => Holds(env', a)
<1> DEFINE u == Updates(call[c])
<1>1. AdminUser \in Keys /\ AdminHash \in Keys /\ AdminUser # AdminHash
  BY SetupAssumption DEF AdminUser, AdminHash
<1>2. CASE call[c].op = "complete"
  <2>1. u = [k \in {AdminUser, AdminHash} |->
               IF k = AdminUser THEN UserOf(call[c].body) ELSE HashOf(call[c].body)]
    BY <1>2 DEF Updates
  <2>2. AdminUser \in DOMAIN u /\ u[AdminUser] = UserOf(call[c].body)
        /\ AdminHash \in DOMAIN u /\ u[AdminHash] = HashOf(call[c].body)
    BY <1>1, <2>1
  <2> QED BY <1>1, <1>2, <2>2, WriteReads DEF Holds
<1>3. CASE call[c].op # "complete"
  <2>1. AdminUser \notin DOMAIN u /\ AdminHash \notin DOMAIN u
    BY <1>3, UpdatedKeys
  <2> QED BY <1>1, <1>3, <2>1, WriteReads DEF Holds
<1> QED BY <1>2, <1>3

LEMMA WriteSealed ==
  ASSUME SetupInv, MergeInv, Merged, Sole, Owned, NEW c \in Conns, WriteEnv(c)
  PROVE  Sole' /\ Owned'
<1> DEFINE r == call[c]
<1>1. /\ Working(c) /\ ~Working(c)' /\ (\A d \in Conns \ {c} : call'[d] = call[d])
      /\ Content = r.seen /\ Content' = env'
      /\ accounts' = IF r.op = "complete" THEN accounts \cup {r.body} ELSE accounts
  BY WriteEnds DEF WriteEnv, MergeInv
<1>2. ~Creating(c)' /\ \A d \in Conns \ {c} : Creating(d)' => Creating(d)
  BY <1>1, SameCall DEF Creating
<1>3. CASE r.op = "complete"
  <2>1. accounts = {} /\ \A d \in Conns \ {c} : ~Creating(d)
    BY <1>1, <1>3 DEF Sole, Creating
  <2>2. accounts' = {r.body} /\ Sole'
    BY <1>1, <1>2, <1>3, <2>1 DEF Sole
  <2>3. Holds(env', r.body)
    BY <1>3, WriteAccount DEF MergeInv
  <2> QED BY <1>1, <2>2, <2>3 DEF Owned, Holds
<1>4. CASE r.op # "complete"
  <2>1. accounts' = accounts /\ Sole'
    BY <1>1, <1>2, <1>4 DEF Sole
  <2>2. \A a \in accounts : accounts = {a} /\ Holds(env', a)
    BY <1>1, <1>4, WriteAccount DEF Owned, MergeInv
  <2> QED BY <1>1, <2>1, <2>2 DEF Owned, Holds
<1> QED BY <1>3, <1>4

LEMMA SealNext ==
  ASSUME SetupInv, SealInv, [SetupNext]_setupVars
  PROVE  SealInv'
<1>1. SetupInv' /\ MergeInv' /\ (Quiet \/ \E c \in Conns : WriteEnv(c))
  BY NextInv, MergeNext DEF SealInv
<1> SUFFICES ASSUME mishaps' = {} PROVE Sole' /\ Owned'
  BY <1>1 DEF SealInv
<1>2. mishaps = {} /\ Whole' /\ Merged /\ Sole /\ Owned
  <2>1. mishaps = {}
    BY NextQuiet DEF SealInv, MergeInv
  <2> QED BY <2>1 DEF SealInv, MergeInv, Whole
<1>3. CASE \E c \in Conns : WriteEnv(c)
  BY <1>2, <1>3, WriteSealed DEF SealInv
<1>4. CASE Quiet
  <2>1. Owned'
    BY <1>2, <1>4 DEF Quiet, Owned, Holds
  <2>2. CASE \A c \in Conns : Creating(c)' => Creating(c)
    BY <1>2, <1>4, <2>1, <2>2 DEF Quiet, Sole
  <2>3. CASE \E c \in Conns : Admit(c)
    BY <1>1, <1>2, <2>1, <2>3, AdmitSole
  <2> QED BY <1>4, <2>2, <2>3 DEF Quiet
<1> QED BY <1>1, <1>3, <1>4

LEMMA SealInit ==
  ASSUME \A f \in InitialFiles : Unshadowed(f), SetupInit
  PROVE  SealInv
<1>1. accounts = {} /\ \A c \in Conns : ~Working(c)
  BY DEF SetupInit, ServerInit, Idle, Working
<1> QED BY <1>1, MergeInit DEF SealInv, Sole, Owned, Creating

(* require_unconfigured (app.py:64-67) seals setup for good: without a       *)
(* mishap at most one account is ever written, whatever is lost, retried,    *)
(* reloaded or crashed, and it stays in .env. The files setup may find       *)
(* assign no key below another line that names it.                           *)
THEOREM SetupHappensOnce ==
  ASSUME \A f \in InitialFiles : Unshadowed(f)
  PROVE  SetupSpec => []OneAccount
<1>1. SetupInit => SealInv
  BY SealInit
<1>2. SetupInv /\ SealInv /\ [SetupNext]_setupVars => SealInv'
  BY SealNext
<1>3. SealInv => OneAccount
  <2> SUFFICES ASSUME SealInv, mishaps = {} PROVE OneAccount
    BY DEF OneAccount
  <2>1. \A a \in accounts : accounts = {a} /\ Holds(Content, a)
    BY DEF SealInv, Owned
  <2>2. CASE accounts = {}
    <3>1. Cardinality(accounts) = 0
      BY <2>2, FS_EmptySet
    <3> QED BY <2>2, <3>1 DEF OneAccount
  <2>3. CASE accounts # {}
    <3>1. PICK a \in accounts : accounts = {a}
      BY <2>1, <2>3
    <3>2. Cardinality(accounts) = 1
      BY <3>1, FS_Singleton
    <3> QED BY <2>1, <3>2 DEF OneAccount, Holds
  <2> QED BY <2>2, <2>3
<1> QED BY <1>1, <1>2, <1>3, SetupInvariant, PTL DEF SetupSpec

-----------------------------------------------------------------------------
(* The last step: an account whose creation was answered was written, and    *)
(* only such an answer shows that step.                                      *)
CreatedOK(c) ==
    call[c].op = "complete" /\ call[c].at = "answered" /\ Success(call[c].reply)
        => call[c].body \in accounts
Ended(t) ==
    /\ OnStep(t, 4) => ui[t].auth \in accounts
    /\ ui[t].view # "wizard" => ui[t].step = 0

EndInv == (\A c \in Conns : CreatedOK(c)) /\ \A t \in Tabs : Ended(t)

(* What leaves the last step of a tab, or its way there, as it was.          *)
SameEnd(t) ==
    /\ OnStep(t, 4)' => OnStep(t, 4) /\ ui'[t].auth = ui[t].auth
    /\ ui'[t].view # "wizard" => ui[t].view # "wizard" /\ ui'[t].step = ui[t].step

LEMMA EndStays ==
  ASSUME NEW t, Ended(t), SameEnd(t), accounts \subseteq accounts'
  PROVE  Ended(t)'
  BY DEF Ended, SameEnd

LEMMA SameTab ==
  ASSUME NEW t, ui'[t] = ui[t]
  PROVE  SameEnd(t)
  BY DEF SameEnd, OnStep

LEMMA ClickEnd ==
  ASSUME SetupInv, NEW t \in Tabs, Click(t)
  PROVE  \A u \in Tabs : SameEnd(u)
<1> USE DEF SetupInv, WizardTypeOK
<1>1. ASSUME NEW n, NEW keys, Edit(t, n, keys) PROVE \A u \in Tabs : SameEnd(u)
  BY <1>1 DEF Edit, SameEnd, OnStep
<1>2. ASSUME ui' = [ui EXCEPT ![t].busy = TRUE] PROVE \A u \in Tabs : SameEnd(u)
  BY <1>2 DEF SameEnd, OnStep
<1>3. ASSUME Back(t) PROVE \A u \in Tabs : SameEnd(u)
  BY <1>3 DEF Back, SameEnd, OnStep
<1>4. ASSUME Login(t) PROVE \A u \in Tabs : SameEnd(u)
  BY <1>4 DEF Login, SameEnd, OnStep
<1>5. ASSUME ui' = ui PROVE \A u \in Tabs : SameEnd(u)
  BY <1>5, SameTab
<1>6. CASE StepModel(t) \/ StepNginx(t)
  BY <1>1, <1>6 DEF StepModel, StepNginx
<1>7. CASE PersistAndNext(t) \/ StepCerts(t) \/ StepAdmin(t)
  BY <1>2, <1>7 DEF PersistAndNext, StepCerts, StepAdmin
<1>8. CASE StepDownload(t)
  BY <1>5, <1>8 DEF StepDownload
<1> QED BY <1>3, <1>4, <1>6, <1>7, <1>8 DEF Click

LEMMA ReactEnd ==
  ASSUME SetupInv, EndInv, NEW t \in Tabs, React(t)
  PROVE  \A u \in Tabs : Ended(u)'
<1> USE DEF SetupInv, WizardTypeOK
<1>0. accounts' = accounts /\ \A u \in Tabs : Ended(u)
  BY TabOnly DEF TabStep, EndInv
<1>1. CASE App(t)
  <2>1. ui[t].view = "blank" /\ ui' = [ui EXCEPT ![t].view = "loading"]
    BY <1>1 DEF App
  <2> QED BY <1>0, <2>1 DEF Ended, OnStep
<1>2. ASSUME NEW c \in Conns, NEW got, AppShown(t, c, got) PROVE \A u \in Tabs : Ended(u)'
  <2>1. ui[t].view = "loading"
    BY <1>2 DEF AppShown, Receive, Fitting, Fits
  <2>2. ui[t].step = 0
    BY <1>0, <2>1 DEF Ended
  <2>3. ui'[t].step = 0 /\ \A u \in Tabs \ {t} : ui'[u] = ui[u]
    BY <1>2, <2>2 DEF AppShown
  <2> QED BY <1>0, <2>3 DEF Ended, OnStep
<1>3. ASSUME NEW c \in Conns, NEW got, Persisted(t, c, got) PROVE \A u \in Tabs : Ended(u)'
  <2>1. ui[t].view = "wizard" /\ ui[t].step \in 0..2
    BY <1>3 DEF Persisted, Receive, Fitting, Fits, Writing
  <2>2. ui'[t].view = "wizard" /\ ui'[t].step # 4 /\ \A u \in Tabs \ {t} : ui'[u] = ui[u]
    BY <1>3, <2>1 DEF Persisted
  <2> QED BY <1>0, <2>2 DEF Ended, OnStep
<1>4. ASSUME NEW c \in Conns, NEW got, CertAnswered(t, c, got) PROVE \A u \in Tabs : Ended(u)'
  <2>1. ui' = [ui EXCEPT ![t].busy = FALSE]
    BY <1>4 DEF CertAnswered
  <2> QED BY <1>0, <2>1 DEF Ended, OnStep
<1>5. ASSUME NEW c \in Conns, NEW got, Completed(t, c, got) PROVE \A u \in Tabs : Ended(u)'
  <2>1. Receive(t, c, "complete", got)
    BY <1>5 DEF Completed
  <2>2. ui[t].view = "wizard" /\ ui[t].step = 3
    BY <2>1 DEF Receive, Fitting, Fits, Writing
  <2>3. CASE Success(got) /\ Encoding[call[c].body] # "wide"
    <3>1. call[c].body \in accounts
      BY <2>1, <2>3 DEF Receive, Answered, Broken, Success, EndInv, CreatedOK
    <3>2. ui' = [ui EXCEPT ![t].busy = FALSE, ![t].auth = call[c].body, ![t].step = 4]
      BY <1>5, <2>3 DEF Completed
    <3>3. ui'[t].view = "wizard" /\ ui'[t].auth = call[c].body
          /\ \A u \in Tabs \ {t} : ui'[u] = ui[u]
      BY <2>2, <3>2
    <3> QED BY <1>0, <3>1, <3>3 DEF Ended, OnStep
  <2>4. CASE ~(Success(got) /\ Encoding[call[c].body] # "wide")
    <3>1. ui' = [ui EXCEPT ![t].busy = FALSE]
      BY <1>5, <2>4 DEF Completed
    <3> QED BY <1>0, <3>1 DEF Ended, OnStep
  <2> QED BY <2>3, <2>4
<1>6. ASSUME NEW c \in Conns, NEW got, DownloadAnswered(t, c, got) PROVE \A u \in Tabs : Ended(u)'
  BY <1>0, <1>6 DEF DownloadAnswered, Ended, OnStep
<1>7. ASSUME NEW c \in Conns, NEW got, LoggedIn(t, c, got) PROVE \A u \in Tabs : Ended(u)'
  <2>1. ui[t].view = "login"
    BY <1>7 DEF LoggedIn, Receive, Fitting, Fits
  <2>2. ui'[t].view = "login" /\ ui'[t].step = ui[t].step /\ \A u \in Tabs \ {t} : ui'[u] = ui[u]
    BY <1>7, <2>1 DEF LoggedIn
  <2> QED BY <1>0, <2>1, <2>2 DEF Ended, OnStep
<1> QED BY <1>1, <1>2, <1>3, <1>4, <1>5, <1>6, <1>7 DEF React

(* A handler that has to write .env answers with success only then.          *)
LEMMA ServeAnswers ==
  ASSUME SetupInv, OrdersOK, NEW c \in Conns, Serve(c),
         call[c].op \in {"saveConfig", "complete"}, call'[c].at = "answered", Success(call'[c].reply)
  PROVE  WriteEnv(c)
<1> USE DEF SetupInv
<1>0. call[c] \in Calls(call[c].op) /\ \A p \in Parts : ~At(c, p)
  BY WorkingCall DEF CallsOK, CallOK
<1>1. CASE Admit(c)
  <2>1. ASSUME Permitted(call[c]) /\ Valid(call[c]) PROVE FALSE
    <3>1. Updates(call[c]) # <<>>
      <4>1. CASE call[c].op = "complete"
        <5>1. AdminUser \in DOMAIN Updates(call[c])
          BY <4>1 DEF Updates
        <5>2. AdminUser \notin DOMAIN <<>>
          OBVIOUS
        <5> QED BY <5>1, <5>2
      <4>2. CASE call[c].op = "saveConfig"
        <5>1. DOMAIN Updates(call[c]) # {}
          BY <2>1, <4>2 DEF Valid
        <5> QED BY <5>1
      <4> QED BY <4>1, <4>2
    <3>2. Steps(call[c]) = Merging(call[c])
      BY MergingType, ConcatEmptySeq DEF Steps
    <3>3. Steps(call[c]) # <<>>
      BY <3>1, <3>2 DEF Merging
    <3>4. CallsOK' /\ call'[c].todo = Steps(call[c])
      BY <1>1, <2>1, <3>3, AdmitOK
    <3> QED BY <3>3, <3>4 DEF CallsOK, CallOK
  <2>2. ASSUME ~(Permitted(call[c]) /\ Valid(call[c])) PROVE call'[c].reply = "refused"
    BY <1>1, <2>2, AdmitOK DEF Idle
  <2> QED BY <2>1, <2>2 DEF Success
<1>2. ASSUME NEW p \in Parts, WriteFile(c, p) PROVE FALSE
  BY <1>0, <1>2 DEF WriteFile
<1>3. CASE ReadEnv(c)
  <2>1. At(c, "truncate")'
    BY <1>3, StepAfter DEF ReadEnv, DataOK
  <2> QED BY <2>1 DEF At, Working
<1>4. CASE TruncateEnv(c)
  <2>1. At(c, "write")'
    BY <1>4, StepAfter, EmptySeq DEF TruncateEnv
  <2> QED BY <2>1 DEF At, Working
<1> QED BY <1>1, <1>2, <1>3, <1>4 DEF Serve

LEMMA ServeOthers ==
  ASSUME SetupInv, NEW c \in Conns, Serve(c)
  PROVE  /\ call'[c].at # "idle" => SameRequest(call[c], call'[c])
         /\ \A d \in Conns \ {c} : call'[d] = call[d]
<1> USE DEF SetupInv
<1>1. CASE Admit(c)
  BY <1>1, AdmitOK DEF Idle
<1>2. ASSUME Working(c), NEW f \in Seq(Line),
             \/ call' = Advance(c)
             \/ call' = [Advance(c) EXCEPT ![c].seen = f]
      PROVE  /\ call'[c].at # "idle" => SameRequest(call[c], call'[c])
             /\ \A d \in Conns \ {c} : call'[d] = call[d]
  BY <1>2, AdvanceOK DEF Over
<1>3. <<>> \in Seq(Line) /\ env \in Seq(Line)
  BY EmptySeq DEF DataOK
<1> QED BY <1>1, <1>2, <1>3 DEF Serve, WriteFile, ReadEnv, TruncateEnv, WriteEnv, At

LEMMA NextAnswers ==
  ASSUME SetupInv, OrdersOK, [SetupNext]_setupVars, NEW c \in Conns,
         call'[c].op \in {"saveConfig", "complete"}, call'[c].at = "answered", Success(call'[c].reply)
  PROVE  /\ SameRequest(call[c], call'[c])
         /\ WriteEnv(c) \/ (call[c].at = "answered" /\ Success(call[c].reply))
<1> DEFINE G == /\ SameRequest(call[c], call'[c])
                /\ WriteEnv(c) \/ (call[c].at = "answered" /\ Success(call[c].reply))
<1>0. call'[c].reply # "lost"
  BY DEF Success
<1>1. ASSUME call'[c] = call[c] PROVE G
  BY <1>1 DEF SameRequest, Success
<1>2. ASSUME NEW t \in Tabs, Click(t) \/ React(t) PROVE G
  <2>1. call[c] \in Calls(call[c].op)
    BY DEF SetupInv, CallsOK, CallOK
  <2>2. call'[c] = call[c] \/ call'[c].at \in {"idle", "sent", "working"}
    BY <1>2, <2>1, TabOnly, GaveUpSame DEF TabStep, GaveUp
  <2> QED BY <1>1, <2>2
<1>3. ASSUME NEW d \in Conns, Serve(d) PROVE G
  <2>1. CASE d = c
    BY <1>3, <2>1, ServeAnswers, ServeOthers DEF SameRequest
  <2>2. CASE d # c
    BY <1>1, <1>3, <2>2, ServeOthers
  <2> QED BY <2>1, <2>2
<1>4. CASE Crash
  <2>1. LET s == Proceed([call[c] EXCEPT !.todo = <<>>, !.seen = <<>>, !.reply = "lost"])
        IN s.at = "answered" => s.reply = "lost"
    BY CrashedOK DEF SetupInv
  <2>2. call'[c] = call[c] \/ call'[c].reply = "lost"
    BY <1>4, <2>1 DEF Crash
  <2> QED BY <1>0, <1>1, <2>2
<1>5. CASE UNCHANGED setupVars
  BY <1>1, <1>5 DEF setupVars, serverVars
<1> QED BY <1>2, <1>3, <1>4, <1>5 DEF SetupNext

LEMMA EndNext ==
  ASSUME SetupInv, OrdersOK, EndInv, [SetupNext]_setupVars
  PROVE  EndInv'
<1>1. accounts \subseteq accounts'
  BY NextQuiet DEF Quiet, WriteEnv
<1>2. ASSUME NEW c \in Conns PROVE CreatedOK(c)'
  <2> SUFFICES ASSUME call'[c].op = "complete", call'[c].at = "answered", Success(call'[c].reply)
               PROVE  call'[c].body \in accounts'
    BY DEF CreatedOK
  <2>1. SameRequest(call[c], call'[c])
        /\ (WriteEnv(c) \/ (call[c].at = "answered" /\ Success(call[c].reply)))
    BY NextAnswers
  <2> QED BY <1>1, <2>1 DEF WriteEnv, EndInv, CreatedOK, SameRequest
<1>3. ASSUME ui' = ui PROVE \A t \in Tabs : Ended(t)'
  BY <1>1, <1>3, SameTab, EndStays DEF EndInv
<1>4. ASSUME NEW t \in Tabs, Click(t) \/ React(t) PROVE \A u \in Tabs : Ended(u)'
  BY <1>1, <1>4, ClickEnd, ReactEnd, EndStays DEF EndInv
<1> QED BY <1>2, <1>3, <1>4 DEF SetupNext, setupVars, EndInv

LEMMA EndInit == SetupInit => EndInv
<1>1. Idle.op = "none"
  BY DEF Idle
<1> QED BY <1>1 DEF SetupInit, ServerInit, WizardInit, Mounted, EndInv, CreatedOK, Ended, OnStep

(* A tab shows the last step (StepAdmin, steps.jsx:133-136) only after the   *)
(* account it created was written, and without a mishap the backend lets it  *)
(* in with the credentials it kept, if they travel as typed.                 *)
THEOREM LastStepIsSealed ==
  ASSUME \A f \in InitialFiles : Unshadowed(f)
  PROVE  SetupSpec => []WizardEndsSealed
<1>1. SetupInit => SealInv /\ EndInv
  BY SealInit, EndInit
<1>2. SetupInv /\ SealInv /\ EndInv /\ [SetupNext]_setupVars => SealInv' /\ EndInv'
  BY SealNext, EndNext DEF SealInv, MergeInv
<1>3. SetupInv /\ SealInv /\ EndInv => WizardEndsSealed
  <2> SUFFICES ASSUME SetupInv, SealInv, EndInv, NEW t \in Tabs, OnStep(t, 4)
               PROVE  /\ ui[t].auth \in accounts
                      /\ mishaps = {} /\ Encoding[ui[t].auth] = "plain"
                            => Authorized(Content, ui[t].auth)
    BY DEF WizardEndsSealed
  <2>1. ui[t].auth \in accounts /\ ui[t].auth # NoCreds
    BY SetupAssumption DEF EndInv, Ended, SetupInv, DataOK
  <2>2. mishaps = {} => Holds(Content, ui[t].auth)
    BY <2>1 DEF SealInv, Owned
  <2> QED BY <2>1, <2>2 DEF Authorized, Holds
<1> QED BY <1>1, <1>2, <1>3, SetupInvariant, PTL DEF SetupSpec

-----------------------------------------------------------------------------
(* What the tab shows is what .env holds: the values a tab posted, the ones   *)
(* it has when the answer arrives, and those the file keeps until another     *)
(* tab saves, for every number of tabs and connections.                       *)
Matches(f, config) == \A k \in ConfigKeys : ReadKey(f, k) = config[k]

(* A save that was answered is in the file until another one is written.     *)
SavedOK(c) ==
    /\ call[c].op = "saveConfig" /\ call[c].at = "answered" /\ Success(call[c].reply)
    /\ call[c].tab \in Tabs /\ saver = call[c].tab /\ Whole
    => Matches(Content, call[c].body)

(* A save from the third step that the tab waits for holds what the tab      *)
(* shows: that step has no field to edit.                                    *)
PostedOK(c) ==
    call[c].op = "saveConfig" /\ call[c].tab \in Tabs /\ ui[call[c].tab].step = 2
        => call[c].body = ui[call[c].tab].config

OnLate(t) == OnStep(t, 3) \/ OnStep(t, 4)
ShownOK(t) == saver = t /\ Whole /\ OnLate(t) => Matches(Content, ui[t].config)

ConfigInv ==
    /\ \A c \in Conns : SavedOK(c) /\ PostedOK(c)
    /\ \A t \in Tabs : ShownOK(t)

(* The writing of .env by a save leaves its values, any other writing leaves *)
(* those that were there.                                                    *)
LEMMA WriteMatches ==
  ASSUME SetupInv, FilesKept, NEW c \in Conns, WriteEnv(c)
  PROVE  /\ call[c].op = "saveConfig" => Matches(env', call[c].body)
         /\ call[c].op # "saveConfig" =>
               \A config : Matches(call[c].seen, config) => Matches(env', config)
<1> DEFINE u == Updates(call[c])
<1>1. ConfigKeys \subseteq Keys /\ ConfigKeys \subseteq EditableKeys
  BY SetupAssumption
<1>2. \A k \in Keys :
         ReadKey(env', k) = IF k \in DOMAIN u THEN u[k] ELSE ReadKey(call[c].seen, k)
  BY WriteReads
<1>3. CASE call[c].op = "saveConfig"
  <2>1. call[c].body \in [ConfigKeys -> Values]
    BY <1>3 DEF SetupInv, CallsOK, CallOK, Calls, Bodies
  <2>2. \A k \in ConfigKeys : k \in DOMAIN u /\ u[k] = call[c].body[k]
    BY <1>1, <1>3, <2>1 DEF Updates
  <2> QED BY <1>1, <1>2, <1>3, <2>2 DEF Matches
<1>4. CASE call[c].op # "saveConfig"
  <2>1. \A k \in ConfigKeys : k \notin DOMAIN u
    BY <1>1, <1>4, UpdatedKeys
  <2> QED BY <1>1, <1>2, <1>4, <2>1 DEF Matches
<1> QED BY <1>3, <1>4

(* A request that waits for its answer keeps its tab where it is.            *)
LEMMA SavingTab ==
  ASSUME SetupInv, NEW c \in Conns, call[c].op = "saveConfig", call[c].tab \in Tabs
  PROVE  /\ ~OnLate(call[c].tab)
         /\ \A d \in Conns : call[d].tab = call[c].tab => d = c
<1>1. Fits(call[c]) /\ call[c].op \in Writing
  BY DEF SetupInv, Fitting, Writing
<1>2. ui[call[c].tab].step \in 0..2
  BY <1>1 DEF Fits
<1>3. \A d \in Conns : call[d].tab = call[c].tab => d = c
  BY <1>1 DEF SetupInv, Fitting, Exclusive
<1> QED BY <1>2, <1>3 DEF OnLate, OnStep

LEMMA WriteConfig ==
  ASSUME SetupInv, MergeInv, ConfigInv, NEW c \in Conns, WriteEnv(c), UNCHANGED ui
  PROVE  ConfigInv'
<1>1. /\ mishaps' = mishaps /\ Working(c) /\ ~Working(c)'
      /\ saver' = IF call[c].op = "saveConfig" THEN call[c].tab ELSE saver
      /\ call'[c].tab \in Tabs => SameRequest(call[c], call'[c])
      /\ \A d \in Conns \ {c} : call'[d] = call[d]
      /\ NoTab \notin Tabs
  BY WriteEnds, SetupAssumption DEF WriteEnv, MergeInv, Over
<1>2. (Whole' <=> Whole) /\ \A t : OnLate(t)' <=> OnLate(t)
  BY <1>1 DEF Whole, OnLate, OnStep
<1>3. Whole => Content = call[c].seen /\ Content' = env'
  BY WriteEnds DEF MergeInv
<1>4. \A d \in Conns : PostedOK(d)'
  BY <1>1 DEF ConfigInv, PostedOK, SameRequest
<1>5. CASE call[c].op = "saveConfig"
  <2>1. Whole => Matches(Content', call[c].body)
    BY <1>3, <1>5, WriteMatches DEF MergeInv
  <2>2. \A d \in Conns : SavedOK(d)'
    <3>1. ASSUME NEW d \in Conns, d # c, call'[d].tab = call[c].tab, call'[d].tab \in Tabs
          PROVE  FALSE
      BY <1>1, <1>5, <3>1, SavingTab
    <3> QED BY <1>1, <1>2, <1>5, <2>1, <3>1 DEF SavedOK, SameRequest, Matches
  <2>3. \A t \in Tabs : ShownOK(t)'
    BY <1>1, <1>2, <1>5, SavingTab DEF ShownOK
  <2> QED BY <1>4, <2>2, <2>3 DEF ConfigInv
<1>6. CASE call[c].op # "saveConfig"
  <2>1. Whole => \A config : Matches(Content, config) => Matches(Content, config)'
    <3>1. \A config : Whole /\ Matches(call[c].seen, config) => Matches(env', config)
      BY <1>6, WriteMatches DEF MergeInv
    <3> QED BY <1>3, <3>1 DEF Matches
  <2>2. \A d \in Conns : SavedOK(d)'
    BY <1>1, <1>2, <1>6, <2>1 DEF ConfigInv, SavedOK, SameRequest, Success, Matches
  <2>3. \A t \in Tabs : ShownOK(t)'
    BY <1>1, <1>2, <1>6, <2>1 DEF ConfigInv, ShownOK, Matches
  <2> QED BY <1>4, <2>2, <2>3 DEF ConfigInv
<1> QED BY <1>5, <1>6

(* Any other step leaves what was saved.                                     *)
LEMMA QuietSaved ==
  ASSUME SetupInv, MergeInv, ConfigInv, [SetupNext]_setupVars, Quiet,
         \A c \in Conns : ~WriteEnv(c)
  PROVE  /\ \A c \in Conns : SavedOK(c)'
         /\ Whole' => Whole /\ Content' = Content
         /\ saver' = saver
<1>1. saver' = saver /\ (Whole' => Whole /\ Content' = Content)
  BY MergeNext DEF Quiet, MergeInv
<1>2. ASSUME NEW c \in Conns, call'[c].op = "saveConfig", call'[c].at = "answered", Success(call'[c].reply)
      PROVE  SameRequest(call[c], call'[c]) /\ call[c].at = "answered" /\ Success(call[c].reply)
  BY <1>2, NextAnswers DEF MergeInv
<1>3. \A c \in Conns : SavedOK(c)'
  BY <1>1, <1>2 DEF ConfigInv, SavedOK, SameRequest, Matches
<1> QED BY <1>1, <1>3

(* Steps that leave the tabs leave what they show.                           *)
LEMMA QuietConfig ==
  ASSUME SetupInv, MergeInv, ConfigInv, [SetupNext]_setupVars, Quiet,
         \A c \in Conns : ~WriteEnv(c), UNCHANGED ui, SameRequests
  PROVE  ConfigInv'
<1>1. \A c \in Conns : PostedOK(c)'
  BY SetupAssumption DEF ConfigInv, PostedOK, SameRequests, SameRequest, Over
<1>2. \A t \in Tabs : ShownOK(t)'
  BY QuietSaved DEF ConfigInv, ShownOK, OnLate, OnStep, Matches
<1> QED BY <1>1, <1>2, QuietSaved DEF ConfigInv

-----------------------------------------------------------------------------
(* The tabs: what they show on the step of a save and after it.              *)
SameShown(t) ==
    /\ ui'[t].step = 2 => ui[t].step = 2 /\ ui'[t].config = ui[t].config
    /\ OnLate(t)' => OnLate(t) /\ ui'[t].config = ui[t].config

LEMMA TabWritesNothing ==
  ASSUME SetupInv, MergeInv, NEW t \in Tabs, Click(t) \/ React(t)
  PROVE  \A c \in Conns : ~WriteEnv(c)
<1>1. ASSUME NEW c \in Conns, WriteEnv(c) PROVE FALSE
  <2>1. Working(c) /\ ~Working(c)'
    BY <1>1, WriteEnds DEF MergeInv
  <2>2. call[c] \in Calls(call[c].op)
    BY DEF SetupInv, CallsOK, CallOK
  <2>3. call[c].at # "working" \/ call'[c].at = call[c].at
    BY <2>2, TabOnly, GaveUpSame DEF TabStep
  <2> QED BY <2>1, <2>3 DEF Working
<1> QED BY <1>1

LEMMA ShownStays ==
  ASSUME SetupInv, ConfigInv, NEW u \in Tabs, SameShown(u), saver' = saver,
         Whole' => Whole /\ Content' = Content
  PROVE  ShownOK(u)'
  BY DEF ConfigInv, ShownOK, SameShown, Matches

LEMMA PostedStays ==
  ASSUME SetupInv, ConfigInv, NEW c \in Conns, call'[c] = call[c],
         \A u \in Tabs : SameShown(u)
  PROVE  PostedOK(c)'
  BY DEF ConfigInv, PostedOK, SameShown

LEMMA FetchBody ==
  ASSUME CallsOK, NEW t, NEW op, NEW a, NEW b, Fetch(t, op, a, b), NEW c \in Conns
  PROVE  \/ call'[c] = call[c]
         \/ call'[c].op = op /\ call'[c].tab = t /\ call'[c].body = b
<1>1. PICK d \in Conns : call' = [call EXCEPT ![d] =
         [Idle EXCEPT !.op = op, !.tab = t, !.auth = a, !.body = b, !.at = "sent"]]
  BY DEF Fetch
<1> DEFINE r == [Idle EXCEPT !.op = op, !.tab = t, !.auth = a, !.body = b, !.at = "sent"]
<1>2. r.op = op /\ r.tab = t /\ r.body = b
  BY DEF Idle
<1> HIDE DEF r
<1>3. call' = [call EXCEPT ![d] = r]
  BY <1>1 DEF r
<1> QED BY <1>2, <1>3 DEF CallsOK

LEMMA ClickShown ==
  ASSUME SetupInv, NEW t \in Tabs, Click(t)
  PROVE  \A u \in Tabs : SameShown(u)
<1> USE DEF SetupInv, WizardTypeOK
<1>1. ASSUME NEW n \in {0, 1}, NEW keys, Edit(t, n, keys) PROVE \A u \in Tabs : SameShown(u)
  BY <1>1 DEF Edit, SameShown, OnLate, OnStep
<1>2. ASSUME ui' = [ui EXCEPT ![t].busy = TRUE] PROVE \A u \in Tabs : SameShown(u)
  BY <1>2 DEF SameShown, OnLate, OnStep
<1>3. ASSUME Back(t) PROVE \A u \in Tabs : SameShown(u)
  BY <1>3 DEF Back, SameShown, OnLate, OnStep
<1>4. ASSUME Login(t) PROVE \A u \in Tabs : SameShown(u)
  BY <1>4 DEF Login, SameShown, OnLate, OnStep
<1>5. ASSUME ui' = ui PROVE \A u \in Tabs : SameShown(u)
  BY <1>5 DEF SameShown, OnLate, OnStep
<1>6. CASE StepModel(t) \/ StepNginx(t)
  BY <1>1, <1>6 DEF StepModel, StepNginx
<1>7. CASE PersistAndNext(t) \/ StepCerts(t) \/ StepAdmin(t)
  BY <1>2, <1>7 DEF PersistAndNext, StepCerts, StepAdmin
<1>8. CASE StepDownload(t)
  BY <1>5, <1>8 DEF StepDownload
<1> QED BY <1>3, <1>4, <1>6, <1>7, <1>8 DEF Click

LEMMA ClickPosted ==
  ASSUME SetupInv, ConfigInv, NEW t \in Tabs, Click(t), NEW c \in Conns
  PROVE  PostedOK(c)'
<1> USE DEF SetupInv
<1>1. ASSUME call'[c] = call[c] PROVE PostedOK(c)'
  BY <1>1, ClickShown, PostedStays
<1>2. ASSUME NEW op, NEW a, NEW b, Fetch(t, op, a, b), op # "saveConfig" PROVE PostedOK(c)'
  <2>1. call'[c] = call[c] \/ call'[c].op = op
    BY <1>2, FetchBody
  <2> QED BY <1>1, <1>2, <2>1 DEF PostedOK
<1>3. CASE PersistAndNext(t)
  <2>1. Fetch(t, "saveConfig", ui[t].auth, ui[t].config) /\ ui' = [ui EXCEPT ![t].busy = TRUE]
    BY <1>3 DEF PersistAndNext, Send
  <2>2. call'[c] = call[c] \/ (call'[c].tab = t /\ call'[c].body = ui[t].config)
    BY <2>1, FetchBody
  <2>3. ui'[t].config = ui[t].config
    BY <2>1 DEF WizardTypeOK
  <2> QED BY <1>1, <2>2, <2>3 DEF PostedOK
<1>4. CASE StepModel(t) \/ StepNginx(t) \/ Back(t)
  BY <1>1, <1>4 DEF StepModel, StepNginx, Edit, Back, serverVars
<1>5. CASE StepCerts(t) \/ StepAdmin(t)
  BY <1>2, <1>5 DEF StepCerts, StepAdmin, Send
<1>6. CASE StepDownload(t) \/ Login(t)
  BY <1>2, <1>6 DEF StepDownload, Login, Send
<1> QED BY <1>3, <1>4, <1>5, <1>6 DEF Click

LEMMA ReactPosted ==
  ASSUME SetupInv, ConfigInv, EndInv, NEW t \in Tabs, React(t),
         saver' = saver, Whole' => Whole /\ Content' = Content
  PROVE  (\A c \in Conns : PostedOK(c)') /\ \A u \in Tabs : ShownOK(u)'
<1> DEFINE G == (\A c \in Conns : PostedOK(c)') /\ \A u \in Tabs : ShownOK(u)'
<1> USE DEF SetupInv, WizardTypeOK
<1>1. ASSUME \A u \in Tabs : SameShown(u),
             \A c \in Conns : \/ call'[c] = call[c]
                              \/ call'[c].op # "saveConfig" \/ call'[c].tab \notin Tabs
      PROVE  G
  <2>1. ASSUME NEW c \in Conns PROVE PostedOK(c)'
    BY <1>1, PostedStays DEF PostedOK
  <2> QED BY <1>1, <2>1, ShownStays
<1>2. ASSUME NEW op, NEW c \in Conns, NEW got, Receive(t, c, op, got)
      PROVE  /\ call'[c].tab \notin Tabs /\ \A d \in Conns \ {c} : call'[d] = call[d]
             /\ Fits(call[c]) /\ call[c].op = op /\ call[c].tab = t
             /\ \A d \in Conns : call'[d] = call[d] \/ call'[d].tab \notin Tabs
  <2>1. Unwaited(call'[c]) /\ \A d \in Conns \ {c} : call'[d] = call[d]
    BY <1>2, ReceiveTodos, SetupAssumption
  <2> QED BY <1>2, <2>1, SetupAssumption DEF Unwaited, Receive, Fitting
<1>3. CASE App(t)
  <2>1. Fetch(t, "status", ui[t].auth, NoBody) /\ ui' = [ui EXCEPT ![t].view = "loading"]
        /\ ui[t].view = "blank"
    BY <1>3 DEF App, Send
  <2>2. \A c \in Conns : call'[c] = call[c] \/ call'[c].op # "saveConfig"
    BY <2>1, FetchBody
  <2>3. \A u \in Tabs : SameShown(u)
    BY <2>1 DEF SameShown, OnLate, OnStep
  <2> QED BY <1>1, <2>2, <2>3
<1>4. ASSUME NEW c \in Conns, NEW got, AppShown(t, c, got) PROVE G
  <2>0. Receive(t, c, "status", got)
    BY <1>4 DEF AppShown
  <2>a. Fits(call[c]) /\ call[c].op = "status" /\ call[c].tab = t
    BY <1>2, <2>0
  <2>1. Receive(t, c, "status", got) /\ ui[t].view = "loading"
    BY <2>0, <2>a DEF Fits
  <2>2. ui[t].step = 0
    BY <2>1 DEF EndInv, Ended
  <2>3. ui'[t].step = 0 /\ \A u \in Tabs \ {t} : ui'[u] = ui[u]
    BY <1>4, <2>2 DEF AppShown
  <2>4. \A u \in Tabs : SameShown(u)
    BY <2>3 DEF SameShown, OnLate, OnStep
  <2> QED BY <1>1, <1>2, <2>1, <2>4
<1>5. ASSUME NEW c \in Conns, NEW got, Persisted(t, c, got) PROVE G
  <2>1. /\ Receive(t, c, "saveConfig", got) /\ call[c].op = "saveConfig" /\ call[c].tab = t
        /\ ui[t].view = "wizard" /\ ui[t].step \in 0..2
        /\ Success(got) => call[c].at = "answered" /\ Success(call[c].reply)
        /\ call'[c].tab \notin Tabs /\ \A d \in Conns \ {c} : call'[d] = call[d]
    <3>1. Receive(t, c, "saveConfig", got)
      BY <1>5 DEF Persisted
    <3>2. Fits(call[c]) /\ call[c].op = "saveConfig" /\ call[c].tab = t
          /\ call'[c].tab \notin Tabs /\ \A d \in Conns \ {c} : call'[d] = call[d]
      BY <1>2, <3>1
    <3>3. ui[t].view = "wizard" /\ ui[t].step \in 0..2
      BY <3>2 DEF Fits, Writing
    <3> QED BY <3>1, <3>2, <3>3 DEF Receive, Answered, Broken, Success
  <2>2. /\ ui'[t].config = ui[t].config /\ ui'[t].view = "wizard"
        /\ ui'[t].step = IF Success(got) THEN ui[t].step + 1 ELSE ui[t].step
        /\ \A u \in Tabs \ {t} : ui'[u] = ui[u]
    <3> DEFINE n == IF Success(got) THEN ui[t].step + 1 ELSE ui[t].step
               r == [ui[t] EXCEPT !.busy = FALSE, !.step = n]
    <3>1. ui' = [ui EXCEPT ![t].busy = FALSE, ![t].step = n]
      BY <1>5 DEF Persisted
    <3>2. r.config = ui[t].config /\ r.view = ui[t].view /\ r.step = n
      <4> HIDE DEF n
      <4> QED OBVIOUS
    <3>3. ui' = [ui EXCEPT ![t] = r]
      <4> HIDE DEF n
      <4> QED BY <3>1
    <3> HIDE DEF r, n
    <3>4. ui'[t] = r /\ \A u \in Tabs \ {t} : ui'[u] = ui[u]
      BY <3>3
    <3> QED BY <2>1, <3>2, <3>4 DEF n
  <2>3. ASSUME NEW d \in Conns PROVE PostedOK(d)'
    <3>1. CASE d = c
      BY <2>1, <3>1 DEF PostedOK
    <3>2. CASE d # c /\ call[d].op = "saveConfig"
      <4>1. call[d].tab # t
        BY <2>1, <3>2, SavingTab
      <4> QED BY <2>1, <2>2, <3>2, <4>1 DEF ConfigInv, PostedOK
    <3>3. CASE d # c /\ call[d].op # "saveConfig"
      BY <2>1, <3>3 DEF PostedOK
    <3> QED BY <3>1, <3>2, <3>3
  <2>4. ASSUME NEW u \in Tabs PROVE ShownOK(u)'
    <3>1. CASE u # t
      <4>1. SameShown(u)
        BY <2>2, <3>1 DEF SameShown, OnLate, OnStep
      <4> QED BY <4>1, ShownStays
    <3>2. CASE u = t
      <4>1. OnLate(t)' => Success(got) /\ ui[t].step = 2
        BY <2>1, <2>2 DEF OnLate, OnStep
      <4>2. call[c].op = "saveConfig" /\ ui[t].step = 2 => call[c].body = ui'[t].config
        BY <2>1, <2>2 DEF ConfigInv, PostedOK
      <4> QED BY <2>1, <3>2, <4>1, <4>2 DEF ConfigInv, SavedOK, ShownOK, Matches
    <3> QED BY <3>1, <3>2
  <2> QED BY <2>3, <2>4
<1>6. ASSUME NEW c \in Conns, NEW got, CertAnswered(t, c, got) PROVE G
  <2>1. Receive(t, c, "saveCert", got) /\ ui' = [ui EXCEPT ![t].busy = FALSE]
    BY <1>6 DEF CertAnswered
  <2>2. \A u \in Tabs : SameShown(u)
    BY <2>1 DEF SameShown, OnLate, OnStep
  <2> QED BY <1>1, <1>2, <2>1, <2>2
<1>7. ASSUME NEW c \in Conns, NEW got, Completed(t, c, got) PROVE G
  <2>0. Receive(t, c, "complete", got)
    BY <1>7 DEF Completed
  <2>a. Fits(call[c]) /\ call[c].op = "complete" /\ call[c].tab = t
    BY <1>2, <2>0
  <2>1. Receive(t, c, "complete", got) /\ ui[t].view = "wizard" /\ ui[t].step = 3
    BY <2>0, <2>a DEF Fits, Writing
  <2>2. ui'[t].config = ui[t].config /\ ui'[t].step \in {3, 4}
        /\ \A u \in Tabs \ {t} : ui'[u] = ui[u]
    <3>1. ui' = [ui EXCEPT ![t].busy = FALSE]
          \/ ui' = [ui EXCEPT ![t].busy = FALSE, ![t].auth = call[c].body, ![t].step = 4]
      BY <1>7 DEF Completed
    <3> QED BY <2>1, <3>1
  <2>3. \A u \in Tabs : SameShown(u)
    BY <2>1, <2>2 DEF SameShown, OnLate, OnStep
  <2> QED BY <1>1, <1>2, <2>1, <2>3
<1>8. ASSUME NEW c \in Conns, NEW got, DownloadAnswered(t, c, got) PROVE G
  <2>1. Receive(t, c, "download", got) /\ ui' = ui
    BY <1>8 DEF DownloadAnswered
  <2>2. \A u \in Tabs : SameShown(u)
    BY <2>1 DEF SameShown, OnLate, OnStep
  <2> QED BY <1>1, <1>2, <2>1, <2>2
<1>9. ASSUME NEW c \in Conns, NEW got, LoggedIn(t, c, got) PROVE G
  <2>0. Receive(t, c, "getConfig", got)
    BY <1>9 DEF LoggedIn
  <2>a. Fits(call[c]) /\ call[c].op = "getConfig" /\ call[c].tab = t
    BY <1>2, <2>0
  <2>1. Receive(t, c, "getConfig", got) /\ ui[t].view = "login"
    BY <2>0, <2>a DEF Fits
  <2>2. ui'[t].config = ui[t].config /\ ui'[t].step = ui[t].step /\ ui'[t].view = "login"
        /\ \A u \in Tabs \ {t} : ui'[u] = ui[u]
    BY <1>9, <2>1 DEF LoggedIn
  <2>3. \A u \in Tabs : SameShown(u)
    BY <2>2 DEF SameShown, OnLate, OnStep
  <2> QED BY <1>1, <1>2, <2>1, <2>3
<1> QED BY <1>3, <1>4, <1>5, <1>6, <1>7, <1>8, <1>9 DEF React

LEMMA TabConfig ==
  ASSUME SetupInv, MergeInv, ConfigInv, EndInv, NEW t \in Tabs, Click(t) \/ React(t)
  PROVE  ConfigInv'
<1>1. (\A c \in Conns : ~WriteEnv(c)) /\ [SetupNext]_setupVars
  BY TabWritesNothing DEF SetupNext
<1>2. Quiet
  BY <1>1, MergeNext
<1>3. /\ \A c \in Conns : SavedOK(c)'
      /\ Whole' => Whole /\ Content' = Content
      /\ saver' = saver
  BY <1>1, <1>2, QuietSaved
<1>4. CASE Click(t)
  BY <1>3, <1>4, ClickPosted, ClickShown, ShownStays DEF ConfigInv
<1>5. CASE React(t)
  BY <1>3, <1>5, ReactPosted DEF ConfigInv
<1> QED BY <1>4, <1>5

LEMMA ConfigNext ==
  ASSUME SetupInv, MergeInv, ConfigInv, EndInv, [SetupNext]_setupVars
  PROVE  ConfigInv'
<1>1. ASSUME UNCHANGED ui, SameRequests PROVE ConfigInv'
  <2>1. CASE \E c \in Conns : WriteEnv(c)
    BY <1>1, <2>1, WriteConfig
  <2>2. CASE \A c \in Conns : ~WriteEnv(c)
    <3>1. Quiet
      BY <2>2, MergeNext
    <3> QED BY <1>1, <2>2, <3>1, QuietConfig
  <2> QED BY <2>1, <2>2
<1>2. ASSUME NEW c \in Conns, Serve(c), UNCHANGED ui PROVE ConfigInv'
  BY <1>1, <1>2, ServeType DEF SetupInv
<1>3. CASE Crash /\ UNCHANGED ui
  BY <1>1, <1>3, CrashType DEF SetupInv
<1>4. CASE UNCHANGED setupVars
  BY <1>1, <1>4 DEF setupVars, serverVars, SameRequests, SameRequest
<1> QED BY <1>2, <1>3, <1>4, TabConfig DEF SetupNext

(* persistAndNext (Wizard.jsx:27-38): from the admin step on, .env holds     *)
(* every value the tab shows, edits made while an earlier save was under way *)
(* included, unless the file is not whole, or the save written last was      *)
(* another tab's or one that the tab had given up on when its connection     *)
(* broke (api.js:38-43): the handler goes on, and its older values may be    *)
(* written after newer ones. The files setup may find assign no key below    *)
(* another line that names it.                                               *)
THEOREM ShownIsSaved ==
  ASSUME \A f \in InitialFiles : Unshadowed(f)
  PROVE  SetupSpec => []ConfigPersisted
<1>1. SetupInit => MergeInv /\ EndInv /\ ConfigInv
  <2> SUFFICES ASSUME SetupInit PROVE MergeInv /\ EndInv /\ ConfigInv
    OBVIOUS
  <2>1. Idle.op = "none"
    BY DEF Idle
  <2>2. ConfigInv
    BY <2>1 DEF SetupInit, ServerInit, WizardInit, Mounted, ConfigInv, SavedOK, PostedOK,
                ShownOK, OnLate, OnStep
  <2> QED BY <2>2, MergeInit, EndInit
<1>2. SetupInv /\ MergeInv /\ EndInv /\ ConfigInv /\ [SetupNext]_setupVars
         => MergeInv' /\ EndInv' /\ ConfigInv'
  BY MergeNext, EndNext, ConfigNext DEF MergeInv
<1>3. ConfigInv => ConfigPersisted
  BY DEF ConfigInv, ShownOK, OnLate, ConfigPersisted, Matches
<1> QED BY <1>1, <1>2, <1>3, SetupInvariant, PTL DEF SetupSpec
=============================================================================
