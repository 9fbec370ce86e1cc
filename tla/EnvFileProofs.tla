---------------------------- MODULE EnvFileProofs ----------------------------
(***************************************************************************)
(* What _quote writes, _unquote reads as it was, for every value. And what  *)
(* merge_env writes, for every file in which no key is assigned below a     *)
(* line that names it: each posted key reads back as its new value, every   *)
(* other key as before, and the file stays of that form.                    *)
(***************************************************************************)
EXTENDS EnvFile, FiniteSetTheorems, SequenceTheorems, TLAPS

-----------------------------------------------------------------------------
(* Induction and recursion over the naturals.                                *)

(* A set of naturals that is not empty has a least member.                  *)
LEMMA Least ==
  ASSUME NEW T \in SUBSET Nat, T # {}
  PROVE  \E x \in T : \A y \in T : ~(y < x)
<1> DEFINE R == {ss \in Nat \X Nat : ss[1] < ss[2]}
<1>1. IsWellFoundedOn(R, Nat) BY NatLessThanWellFounded DEF OpToRel
<1> HIDE DEF R
<1>2. PICK x \in T : \A y \in T : <<y, x>> \notin R BY <1>1, WFMin
<1> QED BY <1>2 DEF R

(* Induction: whatever holds 0 and, with each number, the next holds all.  *)
LEMMA Induct ==
  ASSUME NEW S, 0 \in S, \A n \in Nat : n \in S => n + 1 \in S
  PROVE  Nat \subseteq S
<1> SUFFICES ASSUME Nat \ S # {} PROVE FALSE OBVIOUS
<1>1. PICK x \in Nat \ S : \A y \in Nat \ S : ~(y < x) BY Least
<1>2. x # 0 /\ x \in Nat OBVIOUS
<1>3. x - 1 \in Nat /\ x - 1 < x BY <1>2
<1>4. x - 1 \in S BY <1>1, <1>3
<1> QED BY <1>2, <1>3, <1>4

(* The functions that follow a step from a first value, n times.           *)
Orbits(V, first, n, step) ==
    {f \in [0..n -> V] : f[0] = first /\ \A i \in 1..n : f[i] = step[i][f[i - 1]]}

(* There is one, so a function that is defined by recursion on 0..n is     *)
(* what its definition says.                                               *)
LEMMA Recursion ==
  ASSUME NEW V, NEW first \in V, NEW n \in Nat, NEW step \in [1..n -> [V -> V]]
  PROVE  Orbits(V, first, n, step) # {}
<1> DEFINE Solves(k, f) == /\ f \in [0..k -> V] /\ f[0] = first
                           /\ \A i \in 1..k : f[i] = step[i][f[i - 1]]
           S == {k \in Nat : k <= n => \E f : Solves(k, f)}
<1>1. 0 \in S
  <2>1. Solves(0, [i \in 0..0 |-> first]) OBVIOUS
  <2> QED BY <2>1
<1>2. ASSUME NEW k \in Nat, k \in S PROVE k + 1 \in S
  <2> SUFFICES ASSUME k + 1 <= n PROVE \E f : Solves(k + 1, f) OBVIOUS
  <2>1. PICK f : Solves(k, f) BY <1>2
  <2> DEFINE x == step[k + 1][f[k]]
             g == [i \in 0..(k + 1) |-> IF i = k + 1 THEN x ELSE f[i]]
  <2>2. x \in V
    <3>1. k \in 0..k /\ k + 1 \in 1..n OBVIOUS
    <3> QED BY <2>1, <3>1
  <2>3. g \in [0..(k + 1) -> V] /\ g[0] = first BY <2>1, <2>2
  <2>4. ASSUME NEW i \in 1..(k + 1) PROVE g[i] = step[i][g[i - 1]]
    <3>1. g[i - 1] = f[i - 1] OBVIOUS
    <3>2. CASE i = k + 1 BY <3>1, <3>2
    <3>3. CASE i \in 1..k BY <2>1, <3>1, <3>3
    <3> QED BY <3>2, <3>3
  <2>5. Solves(k + 1, g)
    <3> HIDE DEF g
    <3> QED BY <2>3, <2>4
  <2> QED BY <2>5
<1>3. Nat \subseteq S
  <2> HIDE DEF S
  <2> QED BY <1>1, <1>2, Induct
<1> QED BY <1>3 DEF Orbits

-----------------------------------------------------------------------------
(* Quoting: what _quote writes, _unquote reads as it was.                    *)

(* What a concatenation consists of.                                         *)
LEMMA Concatenated ==
  ASSUME NEW C, NEW s \in Seq(C), NEW t \in Seq(C)
  PROVE  /\ Len(s) \in Nat /\ Len(t) \in Nat
         /\ Len(s \o t) = Len(s) + Len(t)
         /\ \A k \in 1..Len(s) : (s \o t)[k] = s[k]
         /\ \A k \in 1..Len(t) : (s \o t)[Len(s) + k] = t[k]
<1> DEFINE m == Len(s)
           n == Len(t)
           u == s \o t
<1>1. m \in Nat /\ n \in Nat BY LenProperties
<1>2. /\ Len(u) = m + n
      /\ \A i \in 1..(m + n) : u[i] = IF i <= m THEN s[i] ELSE t[i - m]
  BY ConcatProperties
<1> SUFFICES /\ \A k \in 1..m : u[k] = s[k]
             /\ \A k \in 1..n : u[m + k] = t[k]
  BY <1>1, <1>2
<1> HIDE DEF m, n, u
<1>3. \A k \in 1..m : u[k] = s[k] BY <1>1, <1>2
<1>4. ASSUME NEW k \in 1..n PROVE u[m + k] = t[k]
  <2>1. m + k \in 1..(m + n) /\ ~(m + k <= m) /\ (m + k) - m = k BY <1>1
  <2>2. u[m + k] = IF m + k <= m THEN s[m + k] ELSE t[(m + k) - m] BY <1>2, <2>1
  <2> QED BY <2>1, <2>2
<1> QED BY <1>3, <1>4

(* Joining is what its recursion says.                                       *)
LEMMA JoiningDef ==
  ASSUME NEW C, NEW pieces \in Seq(Seq(C))
  PROVE  /\ JoinedUpTo(pieces) \in [0..Len(pieces) -> Seq(C)]
         /\ JoinedUpTo(pieces)[0] = <<>>
         /\ \A i \in 1..Len(pieces) :
               JoinedUpTo(pieces)[i] = JoinedUpTo(pieces)[i - 1] \o pieces[i]
<1> DEFINE V == Seq(C)
           m == Len(pieces)
           Defines(f) == f = [i \in 0..m |-> IF i = 0 THEN <<>> ELSE f[i - 1] \o pieces[i]]
           step == [i \in 1..m |-> [s \in V |-> s \o pieces[i]]]
<1>0. m \in Nat OBVIOUS
<1>1. JoinedUpTo(pieces) = CHOOSE f : Defines(f) BY DEF JoinedUpTo
<1>2. \A i \in 1..m : pieces[i] \in V OBVIOUS
<1>3. \A i \in 1..m, s \in V : s \o pieces[i] \in V
  <2> SUFFICES ASSUME NEW i \in 1..m, NEW s \in V PROVE s \o pieces[i] \in V OBVIOUS
  <2>1. pieces[i] \in Seq(C) BY <1>2
  <2> QED BY <2>1, ConcatProperties
<1>4. \E f : Defines(f)
  <2>1. step \in [1..m -> [V -> V]] BY <1>3
  <2>2. <<>> \in V OBVIOUS
  <2>3. PICK f \in [0..m -> V] : f[0] = <<>> /\ \A i \in 1..m : f[i] = step[i][f[i - 1]]
    <3>1. Orbits(V, <<>>, m, step) # {}
      <4> HIDE DEF step, V, m
      <4> QED BY <1>0, <2>1, <2>2, Recursion
    <3> QED BY <3>1 DEF Orbits
  <2>4. \A i \in 0..m : f[i] = IF i = 0 THEN <<>> ELSE f[i - 1] \o pieces[i]
    <3> SUFFICES \A i \in 1..m : f[i] = f[i - 1] \o pieces[i]
      <4> HIDE DEF m, step
      <4>1. \A i \in 0..m : i = 0 \/ i \in 1..m BY <1>0
      <4> QED BY <2>3, <4>1
    <3> TAKE i \in 1..m
    <3>1. i - 1 \in 0..m OBVIOUS
    <3>2. f[i - 1] \in V BY <2>3, <3>1
    <3>3. i \in 1..m BY <1>0
    <3>4. f[i] = step[i][f[i - 1]] BY <2>3, <3>3
    <3> QED BY <3>2, <3>3, <3>4
  <2>5. Defines(f) BY <2>3, <2>4
  <2> QED BY <2>5
<1>5. Defines(JoinedUpTo(pieces)) BY <1>1, <1>4
<1> DEFINE P == JoinedUpTo(pieces)
<1> HIDE DEF P
<1>6. P = [i \in 0..m |-> IF i = 0 THEN <<>> ELSE P[i - 1] \o pieces[i]] BY <1>5 DEF P
<1>7. P[0] = <<>> /\ \A i \in 1..m : P[i] = P[i - 1] \o pieces[i]
  <2>1. 0 \in 0..m BY <1>0
  <2>2. \A i \in 1..m : i \in 0..m /\ i # 0 BY <1>0
  <2> QED BY <1>6, <2>1, <2>2
<1>8. \A i \in 0..m : P[i] \in V
  <2> DEFINE S == {i \in Nat : i <= m => P[i] \in V}
  <2>0. P[0] \in V
    <3>1. <<>> \in V OBVIOUS
    <3> QED BY <1>7, <3>1
  <2>1. 0 \in S BY <2>0
  <2>2. ASSUME NEW i \in Nat, i \in S PROVE i + 1 \in S
    <3> SUFFICES ASSUME i + 1 <= m PROVE P[i + 1] \in V OBVIOUS
    <3>1. i + 1 \in 1..m /\ (i + 1) - 1 = i /\ i <= m BY <1>0
    <3>2. P[i + 1] = P[i] \o pieces[i + 1] BY <1>7, <3>1
    <3> QED BY <1>3, <2>2, <3>1, <3>2
  <2>3. Nat \subseteq S
    <3> HIDE DEF S
    <3> QED BY <2>1, <2>2, Induct
  <2> QED BY <2>3
<1>9. DOMAIN P = 0..m BY <1>6
<1> QED BY <1>6, <1>7, <1>8 DEF P

(* P joins the pieces one after the other.                                   *)
Joins(C, m, P, pieces) ==
    /\ m \in Nat
    /\ pieces \in [1..m -> Seq(C)]
    /\ P \in [0..m -> Seq(C)]
    /\ P[0] = <<>>
    /\ \A j \in 1..m : P[j] = P[j - 1] \o pieces[j]

(* What was joined first stays where it is.                                  *)
LEMMA PrefixStays ==
  ASSUME NEW C, NEW m, NEW P, NEW pieces, Joins(C, m, P, pieces), NEW i \in 0..m
  PROVE  \A j \in 0..m : i <= j =>
           /\ Len(P[i]) <= Len(P[j])
           /\ \A k \in 1..Len(P[i]) : P[j][k] = P[i][k]
<1> DEFINE Holds(j) == /\ Len(P[i]) <= Len(P[j])
                       /\ \A k \in 1..Len(P[i]) : P[j][k] = P[i][k]
           S == {j \in Nat : i <= j /\ j <= m => Holds(j)}
<1>. USE DEF Joins
<1>4. \A j \in 0..m : Len(P[j]) \in Nat
  <2> SUFFICES ASSUME NEW j \in 0..m PROVE Len(P[j]) \in Nat OBVIOUS
  <2>1. P[j] \in Seq(C) OBVIOUS
  <2> QED BY <2>1, LenProperties
<1>5. Holds(i) BY <1>4
<1>6. 0 \in S
  <2> SUFFICES ASSUME i <= 0 PROVE Holds(0) OBVIOUS
  <2>1. i = 0 OBVIOUS
  <2> QED BY <1>5, <2>1
<1>7. ASSUME NEW j \in Nat, j \in S PROVE j + 1 \in S
  <2> SUFFICES ASSUME i <= j + 1, j + 1 <= m PROVE Holds(j + 1) OBVIOUS
  <2>1. CASE i = j + 1 BY <1>5, <2>1
  <2>2. CASE i <= j
    <3>1. Holds(j) BY <1>7, <2>2
    <3>2. j + 1 \in 1..m /\ (j + 1) - 1 = j /\ j \in 0..m /\ j + 1 \in 0..m OBVIOUS
    <3>3. P[j + 1] = P[j] \o pieces[j + 1] /\ P[j] \in Seq(C) /\ pieces[j + 1] \in Seq(C)
      BY <3>2
    <3> DEFINE p == P[j]
               q == P[j + 1]
               r == pieces[j + 1]
               a == Len(P[i])
    <3>4. a \in Nat /\ a <= Len(p) /\ \A k \in 1..a : p[k] = P[i][k] BY <1>4, <3>1
    <3>5. Len(q) = Len(p) + Len(r) /\ Len(p) \in Nat /\ Len(r) \in Nat
          /\ \A k \in 1..Len(p) : q[k] = p[k]
      <4> HIDE DEF p, q, r
      <4>1. q = p \o r /\ p \in Seq(C) /\ r \in Seq(C) BY <3>3 DEF p, q, r
      <4>2. /\ Len(p) \in Nat /\ Len(r) \in Nat
            /\ Len(p \o r) = Len(p) + Len(r)
            /\ \A k \in 1..Len(p) : (p \o r)[k] = p[k]
        BY <4>1, Concatenated
      <4> QED BY <4>1, <4>2
    <3>6. a <= Len(q) /\ \A k \in 1..a : q[k] = P[i][k]
      <4> HIDE DEF p, q, r, a
      <4>1. a <= Len(q) BY <3>4, <3>5
      <4>2. ASSUME NEW k \in 1..a PROVE q[k] = P[i][k]
        <5>1. k \in 1..Len(p) BY <3>4, <3>5
        <5>2. q[k] = p[k] BY <3>5, <5>1
        <5>3. p[k] = P[i][k] BY <3>4
        <5> QED BY <5>2, <5>3
      <4> QED BY <4>1, <4>2
    <3> QED BY <3>6
  <2> QED BY <2>1, <2>2
<1>8. Nat \subseteq S
  <2> HIDE DEF S
  <2> QED BY <1>6, <1>7, Induct
<1> QED BY <1>8

(* Where a piece lies in what is joined.                                     *)
Lies(m, P, pieces, i) ==
    /\ Len(P[i - 1]) \in Nat /\ Len(pieces[i]) \in Nat
    /\ Len(P[i]) = Len(P[i - 1]) + Len(pieces[i])
    /\ Len(P[i - 1]) + Len(pieces[i]) <= Len(P[m])
    /\ \A k \in 1..Len(pieces[i]) : P[m][Len(P[i - 1]) + k] = pieces[i][k]

LEMMA PieceLies ==
  ASSUME NEW C, NEW m, NEW P, NEW pieces, Joins(C, m, P, pieces), NEW i \in 1..m
  PROVE  Lies(m, P, pieces, i)
<1>1. i - 1 \in 0..m /\ i \in 0..m /\ m \in 0..m /\ i <= m BY DEF Joins
<1>2. /\ Len(P[i]) <= Len(P[m])
      /\ \A k \in 1..Len(P[i]) : P[m][k] = P[i][k]
  <2>1. \A j \in 0..m : i <= j =>
           /\ Len(P[i]) <= Len(P[j])
           /\ \A k \in 1..Len(P[i]) : P[j][k] = P[i][k]
    BY <1>1, PrefixStays
  <2> QED BY <1>1, <2>1
<1> DEFINE p == P[i - 1]
           q == P[i]
           r == pieces[i]
           w == P[m]
<1>3. q = p \o r /\ p \in Seq(C) /\ r \in Seq(C) /\ w \in Seq(C) BY <1>1 DEF Joins
<1>4. Len(q) <= Len(w) /\ \A k \in 1..Len(q) : w[k] = q[k] BY <1>2
<1> SUFFICES /\ Len(p) \in Nat /\ Len(r) \in Nat
             /\ Len(q) = Len(p) + Len(r)
             /\ Len(p) + Len(r) <= Len(w)
             /\ \A k \in 1..Len(r) : w[Len(p) + k] = r[k]
  BY DEF Lies
<1> HIDE DEF p, q, r, w
<1>5. /\ Len(p) \in Nat /\ Len(r) \in Nat
      /\ Len(q) = Len(p) + Len(r)
      /\ \A k \in 1..Len(r) : q[Len(p) + k] = r[k]
  <2>1. /\ Len(p) \in Nat /\ Len(r) \in Nat
        /\ Len(p \o r) = Len(p) + Len(r)
        /\ \A k \in 1..Len(r) : (p \o r)[Len(p) + k] = r[k]
    BY <1>3, Concatenated
  <2> QED BY <1>3, <2>1
<1>7. \A k \in 1..Len(r) : Len(p) + k \in 1..Len(q) BY <1>5
<1> QED BY <1>4, <1>5, <1>7

(* Two characters are joined one after the other.                            *)
LEMMA Twice ==
  ASSUME NEW C, NEW s \in Seq(C), NEW a \in C, NEW b \in C
  PROVE  s \o <<a, b>> = (s \o <<a>>) \o <<b>>
<1> DEFINE x == <<a>>
           y == <<b>>
<1>1. x \in Seq(C) /\ y \in Seq(C) /\ Len(x) = 1 /\ Len(y) = 1 /\ x[1] = a /\ y[1] = b
  OBVIOUS
<1>2. <<a, b>> \in Seq(C) /\ Len(<<a, b>>) = 2 /\ <<a, b>>[1] = a /\ <<a, b>>[2] = b
  OBVIOUS
<1> DEFINE z == <<a, b>>
           w == x \o y
<1> SUFFICES s \o z = (s \o x) \o y OBVIOUS
<1> HIDE DEF x, y, z
<1>3. w \in Seq(C) /\ Len(w) = 2
      /\ \A i \in 1..2 : w[i] = IF i <= 1 THEN x[i] ELSE y[i - 1]
  BY <1>1, ConcatProperties, SMTT(60)
<1>4. (s \o x) \o y = s \o w BY <1>1, ConcatAssociative
<1> HIDE DEF w
<1>5. w[1] = a /\ w[2] = b BY <1>1, <1>3
<1>6. \A i \in 1..Len(w) : w[i] = z[i] BY <1>2, <1>3, <1>5 DEF z
<1>7. Len(w) = Len(z) /\ z \in Seq(C) BY <1>2, <1>3 DEF z
<1>8. w = z BY <1>3, <1>6, <1>7, SeqEqual
<1> QED BY <1>4, <1>8

(* How _quote spells a character, and what the first replace leaves of it.   *)
Halfway(c) == IF c = Backslash THEN <<Backslash, c>> ELSE <<c>>
Spelt(v) == [i \in 1..Len(v) |-> Escaped(v[i])]
HalfSpelt(v) == [i \in 1..Len(v) |-> Halfway(v[i])]
Left(s, dropped) == [n \in 1..Len(s) |-> IF n \in dropped THEN <<>> ELSE <<s[n]>>]

LEMMA SpeltTypes ==
  ASSUME NEW C, Quote \in C, Backslash \in C, NEW v \in Seq(C)
  PROVE  /\ Spelt(v) \in [1..Len(v) -> Seq(C)]
         /\ HalfSpelt(v) \in [1..Len(v) -> Seq(C)]
         /\ \A i \in 1..Len(v) :
              /\ v[i] \in C
              /\ v[i] \notin {Backslash, Quote} =>
                    Spelt(v)[i] = <<v[i]>> /\ HalfSpelt(v)[i] = <<v[i]>>
              /\ v[i] = Quote =>
                    Spelt(v)[i] = <<Backslash, Quote>> /\ HalfSpelt(v)[i] = <<Quote>>
              /\ v[i] = Backslash =>
                    /\ Spelt(v)[i] = <<Backslash, Backslash>>
                    /\ HalfSpelt(v)[i] = <<Backslash, Backslash>>
              /\ Len(Spelt(v)[i]) \in {1, 2} /\ Spelt(v)[i][1] # Quote
<1>1. Quote # Backslash BY DEF Quote, Backslash
<1>2. ASSUME NEW c \in C
      PROVE  /\ Escaped(c) \in Seq(C) /\ Halfway(c) \in Seq(C)
             /\ c \notin {Backslash, Quote} => Escaped(c) = <<c>> /\ Halfway(c) = <<c>>
             /\ c = Quote => Escaped(c) = <<Backslash, Quote>> /\ Halfway(c) = <<Quote>>
             /\ c = Backslash => /\ Escaped(c) = <<Backslash, Backslash>>
                                 /\ Halfway(c) = <<Backslash, Backslash>>
             /\ Len(Escaped(c)) \in {1, 2} /\ Escaped(c)[1] # Quote
  <2>1. <<c>> \in Seq(C) /\ Len(<<c>>) = 1 /\ <<c>>[1] = c OBVIOUS
  <2>2. \A b \in C : /\ <<Backslash, b>> \in Seq(C) /\ Len(<<Backslash, b>>) = 2
                     /\ <<Backslash, b>>[1] = Backslash
    OBVIOUS
  <2>3. CASE c \notin {Backslash, Quote}
    <3>1. Escaped(c) = <<c>> /\ Halfway(c) = <<c>> BY <2>3 DEF Escaped, Halfway
    <3> QED BY <2>1, <2>3, <3>1
  <2>4. CASE c = Quote
    <3>1. Escaped(c) = <<Backslash, Quote>> /\ Halfway(c) = <<Quote>>
      BY <1>1, <2>4 DEF Escaped, Halfway
    <3> QED BY <1>1, <2>1, <2>2, <2>4, <3>1
  <2>5. CASE c = Backslash
    <3>1. Escaped(c) = <<Backslash, Backslash>> /\ Halfway(c) = <<Backslash, Backslash>>
      BY <1>1, <2>5 DEF Escaped, Halfway
    <3> QED BY <1>1, <2>2, <2>5, <3>1
  <2> QED BY <2>3, <2>4, <2>5
<1>3. \A i \in 1..Len(v) : v[i] \in C BY ElementOfSeq
<1>4. \A i \in 1..Len(v) : Spelt(v)[i] = Escaped(v[i]) /\ HalfSpelt(v)[i] = Halfway(v[i])
  BY DEF Spelt, HalfSpelt
<1>5. /\ Spelt(v) \in [1..Len(v) -> Seq(C)]
      /\ HalfSpelt(v) \in [1..Len(v) -> Seq(C)]
  BY <1>2, <1>3 DEF Spelt, HalfSpelt
<1> QED BY <1>2, <1>3, <1>4, <1>5

(* The first replace undoes the backslash before each quote.                 *)
LEMMA FirstReplace ==
  ASSUME NEW C, Quote \in C, Backslash \in C, NEW v \in Seq(C),
         NEW P, Joins(C, Len(v), P, Spelt(v)),
         NEW Q, Joins(C, Len(v), Q, HalfSpelt(v)),
         NEW s, s = P[Len(v)],
         NEW K, Joins(C, Len(s), K, Left(s, BeforeQuotes(s)))
  PROVE  \A i \in 0..Len(v) : Len(P[i]) \in 0..Len(s) /\ K[Len(P[i])] = Q[i]
<1> DEFINE m == Len(v)
           e == Spelt(v)
           h == HalfSpelt(v)
           B == BeforeQuotes(s)
<1>1. m \in Nat BY LenProperties
<1>2. Quote # Backslash BY DEF Quote, Backslash
<1>3. /\ P \in [0..m -> Seq(C)] /\ P[0] = <<>>
      /\ Q \in [0..m -> Seq(C)] /\ Q[0] = <<>>
      /\ \A i \in 1..m : Q[i] = Q[i - 1] \o h[i]
  BY DEF Joins
<1>5. \A i \in 1..m : Len(e[i]) \in {1, 2} /\ e[i][1] # Quote BY SpeltTypes
<1>6. s \in Seq(C) /\ Len(s) \in Nat
  <2>1. m \in 0..m BY <1>1
  <2>2. s \in Seq(C) BY <1>3, <2>1
  <2> QED BY <2>2, LenProperties
<1>7. /\ K \in [0..Len(s) -> Seq(C)] /\ K[0] = <<>>
      /\ \A n \in 1..Len(s) : K[n] = K[n - 1] \o (IF n \in B THEN <<>> ELSE <<s[n]>>)
  BY DEF Joins, Left
<1>9. \A n \in 1..Len(s) : n \in B <=> s[n] = Backslash /\ n < Len(s) /\ s[n + 1] = Quote
  <2>1. DOMAIN s = 1..Len(s) BY <1>6, LenProperties
  <2> QED BY <2>1 DEF BeforeQuotes
<1>10. \A i \in 1..m :
         /\ Len(P[i - 1]) \in Nat /\ Len(e[i]) \in Nat
         /\ Len(P[i]) = Len(P[i - 1]) + Len(e[i])
         /\ Len(P[i - 1]) + Len(e[i]) <= Len(s)
         /\ \A k \in 1..Len(e[i]) : s[Len(P[i - 1]) + k] = e[i][k]
  <2>1. Joins(C, m, P, e) /\ s = P[m] OBVIOUS
  <2> HIDE DEF m, e
  <2>2. \A i \in 1..m : Lies(m, P, e, i) BY <2>1, PieceLies
  <2> QED BY <2>1, <2>2 DEF Lies
<1>16. \A i \in 1..m :
         /\ v[i] \in C
         /\ v[i] \notin {Backslash, Quote} => e[i] = <<v[i]>> /\ h[i] = <<v[i]>>
         /\ v[i] = Quote => e[i] = <<Backslash, Quote>> /\ h[i] = <<Quote>>
         /\ v[i] = Backslash => e[i] = <<Backslash, Backslash>> /\ h[i] = <<Backslash, Backslash>>
  BY SpeltTypes
<1>17. s = P[m] OBVIOUS
<1> HIDE DEF m, e, h, B
(* A piece never starts with a quote.                                        *)
<1>11. \A i \in 1..m : Len(P[i - 1]) + 1 <= Len(s) /\ s[Len(P[i - 1]) + 1] # Quote
  <2> SUFFICES ASSUME NEW i \in 1..m
      PROVE  Len(P[i - 1]) + 1 <= Len(s) /\ s[Len(P[i - 1]) + 1] # Quote
    OBVIOUS
  <2> DEFINE o == Len(P[i - 1])
             n == Len(e[i])
  <2>1. n \in {1, 2} /\ e[i][1] # Quote BY <1>5
  <2>2. o \in Nat /\ o + n <= Len(s) /\ \A k \in 1..n : s[o + k] = e[i][k] BY <1>10
  <2> HIDE DEF o, n
  <2>3. 1 \in 1..n BY <2>1
  <2>4. o + 1 <= Len(s) BY <1>6, <2>1, <2>2
  <2>5. s[o + 1] # Quote BY <2>1, <2>2, <2>3
  <2> QED BY <2>4, <2>5 DEF o
<1>12. \A i \in 0..m : Len(P[i]) < Len(s) => s[Len(P[i]) + 1] # Quote
  <2> SUFFICES ASSUME NEW i \in 0..m, Len(P[i]) < Len(s) PROVE s[Len(P[i]) + 1] # Quote OBVIOUS
  <2>1. i # m BY <1>6, <1>17
  <2>2. i + 1 \in 1..m /\ (i + 1) - 1 = i BY <1>1, <2>1
  <2> QED BY <1>11, <2>2
<1> DEFINE At(i) == Len(P[i]) \in 0..Len(s) /\ K[Len(P[i])] = Q[i]
           S == {i \in Nat : i <= m => At(i)}
<1>13. 0 \in S
  <2>1. Len(P[0]) = 0 BY <1>3
  <2> QED BY <1>3, <1>6, <1>7, <2>1
<1>14. ASSUME NEW i \in Nat, i \in S PROVE i + 1 \in S
  <2> SUFFICES ASSUME i + 1 <= m PROVE At(i + 1) OBVIOUS
  <2>1. i + 1 \in 1..m /\ (i + 1) - 1 = i /\ i \in 0..m /\ i + 1 \in 0..m BY <1>1
  <2>2. At(i) BY <1>14, <2>1
  <2> DEFINE o == Len(P[i])
             o1 == Len(P[i + 1])
             c == v[i + 1]
             p == e[i + 1]
             q == Q[i]
             q1 == Q[i + 1]
  <2>3. /\ c \in C
        /\ c \notin {Backslash, Quote} => p = <<c>> /\ h[i + 1] = <<c>>
        /\ c = Quote => p = <<Backslash, Quote>> /\ h[i + 1] = <<Quote>>
        /\ c = Backslash => p = <<Backslash, Backslash>> /\ h[i + 1] = <<Backslash, Backslash>>
    BY <1>16, <2>1
  <2>4. /\ o \in Nat /\ Len(p) \in Nat /\ o1 = o + Len(p) /\ o + Len(p) <= Len(s)
        /\ \A k \in 1..Len(p) : s[o + k] = p[k]
    BY <1>10, <2>1
  <2>5. q1 = q \o h[i + 1] /\ K[o] = q /\ q \in Seq(C) BY <1>3, <2>1, <2>2
  <2>6. o1 < Len(s) => s[o1 + 1] # Quote BY <1>12, <2>1
  <2> SUFFICES o1 \in 0..Len(s) /\ K[o1] = q1 OBVIOUS
  <2> HIDE DEF o, o1, c, p, q, q1, S, At
  <2>7. \A n \in 1..Len(s) :
          /\ n \in B => K[n] = K[n - 1] \o <<>>
          /\ n \notin B => K[n] = K[n - 1] \o <<s[n]>>
    BY <1>7
  <2>8. CASE c \notin {Backslash, Quote}
    <3>1. p = <<c>> BY <2>3, <2>8
    <3>2. Len(p) = 1 /\ p[1] = c /\ 1 \in 1..Len(p) BY <3>1
    <3>3. /\ o1 = o + 1 /\ o + 1 \in 1..Len(s) /\ (o + 1) - 1 = o
          /\ s[o + 1] = c
      BY <1>6, <2>4, <3>2
    <3>4. o + 1 \notin B BY <1>9, <2>8, <3>3
    <3>5. K[o + 1] = K[(o + 1) - 1] \o <<s[o + 1]>> BY <2>7, <3>3, <3>4
    <3>6. q1 = q \o <<c>> BY <2>3, <2>5, <2>8
    <3>7. K[o1] = q1 BY <2>5, <3>3, <3>5, <3>6
    <3> QED BY <1>6, <3>3, <3>7
  <2>9. CASE c = Quote
    <3>1. p = <<Backslash, Quote>> BY <2>3, <2>9
    <3>2. Len(p) = 2 /\ p[1] = Backslash /\ p[2] = Quote /\ 1 \in 1..Len(p) /\ 2 \in 1..Len(p)
      BY <3>1
    <3>3. /\ o1 = o + 2 /\ o + 1 \in 1..Len(s) /\ (o + 1) - 1 = o
          /\ o + 2 \in 1..Len(s) /\ (o + 2) - 1 = o + 1 /\ (o + 1) + 1 = o + 2
          /\ s[o + 1] = Backslash /\ s[o + 2] = Quote /\ o + 1 < Len(s)
      BY <1>6, <2>4, <3>2
    <3>4. o + 1 \in B /\ o + 2 \notin B BY <1>2, <1>9, <3>3
    <3>5. K[o + 1] = K[(o + 1) - 1] \o <<>> BY <2>7, <3>3, <3>4
    <3>6. K[o + 2] = K[(o + 2) - 1] \o <<s[o + 2]>> BY <2>7, <3>3, <3>4
    <3>7. q1 = q \o <<Quote>> BY <2>3, <2>5, <2>9
    <3>8. (q \o <<>>) \o <<Quote>> = q \o <<Quote>> BY <2>5, ConcatEmptySeq
    <3>9. K[o + 2] = (q \o <<>>) \o <<Quote>> BY <2>5, <3>3, <3>5, <3>6
    <3>10. K[o1] = q1 BY <3>3, <3>7, <3>8, <3>9
    <3> QED BY <1>6, <3>3, <3>10
  <2>10. CASE c = Backslash
    <3>1. p = <<Backslash, Backslash>> BY <2>3, <2>10
    <3>2. Len(p) = 2 /\ p[1] = Backslash /\ p[2] = Backslash /\ 1 \in 1..Len(p) /\ 2 \in 1..Len(p)
      BY <3>1
    <3>3. /\ o1 = o + 2 /\ o + 1 \in 1..Len(s) /\ (o + 1) - 1 = o
          /\ o + 2 \in 1..Len(s) /\ (o + 2) - 1 = o + 1 /\ (o + 1) + 1 = o + 2
          /\ s[o + 1] = Backslash /\ s[o + 2] = Backslash
      BY <1>6, <2>4, <3>2
    <3>4. o + 1 \notin B BY <1>2, <1>9, <3>3
    <3>5. o + 2 \notin B BY <1>9, <2>6, <3>3
    <3>6. K[o + 1] = K[(o + 1) - 1] \o <<s[o + 1]>> BY <2>7, <3>3, <3>4
    <3>7. K[o + 2] = K[(o + 2) - 1] \o <<s[o + 2]>> BY <2>7, <3>3, <3>5
    <3>8. q1 = q \o <<Backslash, Backslash>> BY <2>3, <2>5, <2>10
    <3>9. q \o <<Backslash, Backslash>> = (q \o <<Backslash>>) \o <<Backslash>>
      <4>1. \A a, b \in C : q \o <<a, b>> = (q \o <<a>>) \o <<b>> BY <2>5, Twice, SMTT(60)
      <4> QED BY <4>1
    <3>10. K[o + 2] = (q \o <<Backslash>>) \o <<Backslash>> BY <2>5, <3>3, <3>6, <3>7
    <3>11. K[o1] = q1 BY <3>3, <3>8, <3>9, <3>10
    <3> QED BY <1>6, <3>3, <3>11
  <2> QED BY <2>8, <2>9, <2>10
<1>15. Nat \subseteq S
  <2> HIDE DEF S
  <2> QED BY <1>13, <1>14, Induct
<1> QED BY <1>1, <1>15 DEF m

(* Which backslashes are the second of a pair, by its recursion.             *)
LEMMA SecondDef ==
  ASSUME NEW C, NEW s \in Seq(C)
  PROVE  /\ Second(s) \in [0..Len(s) -> BOOLEAN]
         /\ \A i \in 1..Len(s) :
               Second(s)[i] <=> /\ i > 1 /\ s[i] = Backslash /\ s[i - 1] = Backslash
                                /\ ~Second(s)[i - 1]
<1> DEFINE n == Len(s)
           Pair(i) == i > 1 /\ s[i] = Backslash /\ s[i - 1] = Backslash
           Defines(f) == f = [i \in 0..n |-> /\ i > 1 /\ s[i] = Backslash /\ s[i - 1] = Backslash
                                              /\ ~f[i - 1]]
           step == [i \in 1..n |-> [b \in BOOLEAN |-> Pair(i) /\ ~b]]
<1>1. n \in Nat BY LenProperties
<1>2. Second(s) = CHOOSE f : Defines(f) BY DEF Second
<1>3. \E f : Defines(f)
  <2>1. step \in [1..n -> [BOOLEAN -> BOOLEAN]] OBVIOUS
  <2>2. PICK f \in [0..n -> BOOLEAN] : f[0] = FALSE /\ \A i \in 1..n : f[i] = step[i][f[i - 1]]
    <3>1. Orbits(BOOLEAN, FALSE, n, step) # {}
      <4> HIDE DEF step, n
      <4> QED BY <1>1, <2>1, Recursion
    <3> QED BY <3>1 DEF Orbits
  <2>3. \A i \in 1..n : f[i] = (Pair(i) /\ ~f[i - 1])
    <3> TAKE i \in 1..n
    <3>1. i - 1 \in 0..n BY <1>1
    <3>2. f[i - 1] \in BOOLEAN BY <2>2, <3>1
    <3>3. f[i] = step[i][f[i - 1]] BY <2>2
    <3> QED BY <3>2, <3>3
  <2> DEFINE g == [i \in 0..n |-> Pair(i) /\ ~f[i - 1]]
  <2>4. \A i \in 0..n : f[i] = g[i]
    <3>1. g[0] = FALSE BY <1>1
    <3>2. \A i \in 1..n : g[i] = (Pair(i) /\ ~f[i - 1]) BY <1>1
    <3> HIDE DEF n, g, Pair
    <3>3. \A i \in 0..n : i = 0 \/ i \in 1..n BY <1>1
    <3> QED BY <2>2, <2>3, <3>1, <3>2, <3>3
  <2>5. f = g
    <3>1. g = [i \in 0..n |-> g[i]] OBVIOUS
    <3>2. f = [i \in 0..n |-> f[i]] BY <2>2
    <3> HIDE DEF g, n
    <3> QED BY <2>4, <3>1, <3>2
  <2>6. Defines(f) BY <2>5
  <2> QED BY <2>6
<1>4. Defines(Second(s)) BY <1>2, <1>3
<1> DEFINE D == Second(s)
<1> HIDE DEF D
<1>5. D = [i \in 0..n |-> Pair(i) /\ ~D[i - 1]] BY <1>4 DEF D
<1> HIDE DEF Pair
<1>6. D \in [0..n -> BOOLEAN]
  <2> DEFINE val(i) == Pair(i) /\ ~D[i - 1]
  <2>1. \A i \in 0..n : val(i) \in BOOLEAN OBVIOUS
  <2>2. D = [i \in 0..n |-> val(i)] BY <1>5
  <2> HIDE DEF val
  <2> QED BY <2>1, <2>2
<1>7. \A i \in 1..n : D[i] <=> Pair(i) /\ ~D[i - 1]
  <2> TAKE i \in 1..n
  <2>1. i \in 0..n BY <1>1
  <2>2. D[i] = (Pair(i) /\ ~D[i - 1]) BY <1>5, <2>1
  <2> QED BY <2>2
<1> QED BY <1>6, <1>7 DEF D, Pair

(* The second replace undoes every pair of backslashes.                      *)
LEMMA SecondReplace ==
  ASSUME NEW C, Quote \in C, Backslash \in C, NEW v \in Seq(C),
         NEW Q, Joins(C, Len(v), Q, HalfSpelt(v)),
         NEW t, t = Q[Len(v)],
         NEW R, Joins(C, Len(t), R, Left(t, Seconds(t)))
  PROVE  \A i \in 0..Len(v) : Len(Q[i]) \in 0..Len(t) /\ R[Len(Q[i])] = SubSeq(v, 1, i)
<1> DEFINE m == Len(v)
           h == HalfSpelt(v)
           D == Second(t)
           B == Seconds(t)
           V == [i \in 0..m |-> SubSeq(v, 1, i)]
<1>1. m \in Nat BY LenProperties
<1>2. Quote # Backslash BY DEF Quote, Backslash
<1>3. Q \in [0..m -> Seq(C)] /\ Q[0] = <<>> BY DEF Joins
<1>4. t \in Seq(C) /\ Len(t) \in Nat
  <2>1. m \in 0..m BY <1>1
  <2>2. t \in Seq(C) BY <1>3, <2>1
  <2> QED BY <2>2, LenProperties
<1>5. /\ R \in [0..Len(t) -> Seq(C)] /\ R[0] = <<>>
      /\ \A n \in 1..Len(t) : R[n] = R[n - 1] \o (IF n \in B THEN <<>> ELSE <<t[n]>>)
  BY DEF Joins, Left
<1>6. \A n \in 1..Len(t) : n \in B <=> D[n]
  <2>1. DOMAIN t = 1..Len(t) BY <1>4, LenProperties
  <2> QED BY <2>1 DEF Seconds
<1>7. \A n \in 1..Len(t) :
         D[n] <=> n > 1 /\ t[n] = Backslash /\ t[n - 1] = Backslash /\ ~D[n - 1]
  BY <1>4, SecondDef
<1>8. /\ V[0] = <<>>
      /\ \A i \in 1..m : V[i - 1] \in Seq(C) /\ V[i] = V[i - 1] \o <<v[i]>>
  <2>1. V[0] = <<>>
    <3>1. SubSeq(v, 1, 0) = <<>> BY SubSeqEmpty
    <3> QED BY <1>1, <3>1
  <2>2. ASSUME NEW i \in 1..m PROVE V[i - 1] \in Seq(C) /\ V[i] = V[i - 1] \o <<v[i]>>
    <3>1. i - 1 \in 0..m /\ i \in 0..m /\ i - 1 \in Int BY <1>1
    <3>2. 1 \in 1..m /\ i \in 1..m BY <1>1
    <3>3. SubSeq(v, 1, i) = SubSeq(v, 1, i - 1) \o <<v[i]>> BY <3>2, SubSeqRecursiveSecond
    <3>4. \A k \in 1..(i - 1) : v[k] \in C BY <1>1, ElementOfSeq
    <3>5. SubSeq(v, 1, i - 1) \in Seq(C) BY <3>1, <3>4, SubSeqProperties
    <3> QED BY <3>1, <3>3, <3>5
  <2> QED BY <2>1, <2>2
<1>9. \A i \in 1..m :
         /\ Len(Q[i - 1]) \in Nat /\ Len(h[i]) \in Nat
         /\ Len(Q[i]) = Len(Q[i - 1]) + Len(h[i])
         /\ Len(Q[i - 1]) + Len(h[i]) <= Len(t)
         /\ \A k \in 1..Len(h[i]) : t[Len(Q[i - 1]) + k] = h[i][k]
  <2>1. Joins(C, m, Q, h) /\ t = Q[m] OBVIOUS
  <2> HIDE DEF m, h
  <2>2. \A i \in 1..m : Lies(m, Q, h, i) BY <2>1, PieceLies
  <2> QED BY <2>1, <2>2 DEF Lies
<1>10. \A i \in 1..m :
         /\ v[i] \in C
         /\ v[i] # Backslash => h[i] = <<v[i]>>
         /\ v[i] = Backslash => h[i] = <<Backslash, Backslash>>
  <2>1. \A i \in 1..m :
         /\ v[i] \in C
         /\ v[i] \notin {Backslash, Quote} => h[i] = <<v[i]>>
         /\ v[i] = Quote => h[i] = <<Quote>>
         /\ v[i] = Backslash => h[i] = <<Backslash, Backslash>>
    BY SpeltTypes
  <2> HIDE DEF m, h
  <2> QED BY <2>1
<1> HIDE DEF m, h, D, B, V
(* No pair reaches from one character into the next.                         *)
<1> DEFINE At(i) == /\ Len(Q[i]) \in 0..Len(t) /\ R[Len(Q[i])] = V[i]
                    /\ Len(Q[i]) = 0 \/ t[Len(Q[i])] # Backslash \/ D[Len(Q[i])]
           S == {i \in Nat : i <= m => At(i)}
<1>11. 0 \in S
  <2>1. Len(Q[0]) = 0 BY <1>3
  <2> QED BY <1>4, <1>5, <1>8, <2>1
<1>12. ASSUME NEW i \in Nat, i \in S PROVE i + 1 \in S
  <2> SUFFICES ASSUME i + 1 <= m PROVE At(i + 1) OBVIOUS
  <2>1. i + 1 \in 1..m /\ (i + 1) - 1 = i BY <1>1
  <2>2. At(i) BY <1>1, <1>12, <2>1
  <2> DEFINE o == Len(Q[i])
             o1 == Len(Q[i + 1])
             c == v[i + 1]
             p == h[i + 1]
             w == V[i]
             w1 == V[i + 1]
  <2>3. /\ c \in C
        /\ c # Backslash => p = <<c>>
        /\ c = Backslash => p = <<Backslash, Backslash>>
    BY <1>10, <2>1
  <2>4. /\ o \in Nat /\ Len(p) \in Nat /\ o1 = o + Len(p) /\ o + Len(p) <= Len(t)
        /\ \A k \in 1..Len(p) : t[o + k] = p[k]
    BY <1>9, <2>1
  <2>5. w1 = w \o <<c>> /\ w \in Seq(C) BY <1>8, <2>1
  <2>6. R[o] = w /\ (o = 0 \/ t[o] # Backslash \/ D[o]) BY <2>2
  <2> SUFFICES /\ o1 \in 0..Len(t) /\ R[o1] = w1
               /\ o1 = 0 \/ t[o1] # Backslash \/ D[o1]
    OBVIOUS
  <2> HIDE DEF o, o1, c, p, w, w1, S, At
  <2>7. \A n \in 1..Len(t) :
          /\ n \in B => R[n] = R[n - 1] \o <<>>
          /\ n \notin B => R[n] = R[n - 1] \o <<t[n]>>
    BY <1>5
  <2>8. CASE c # Backslash
    <3>1. p = <<c>> BY <2>3, <2>8
    <3>2. Len(p) = 1 /\ p[1] = c /\ 1 \in 1..Len(p) BY <3>1
    <3>3. /\ o1 = o + 1 /\ o + 1 \in 1..Len(t) /\ (o + 1) - 1 = o
          /\ t[o + 1] = c
      BY <1>4, <2>4, <3>2
    <3>4. o + 1 \notin B BY <1>6, <1>7, <2>8, <3>3
    <3>5. R[o + 1] = R[(o + 1) - 1] \o <<t[o + 1]>> BY <2>7, <3>3, <3>4
    <3>6. R[o1] = w1 BY <2>5, <2>6, <3>3, <3>5
    <3> QED BY <1>4, <2>8, <3>3, <3>6
  <2>9. CASE c = Backslash
    <3>1. p = <<Backslash, Backslash>> BY <2>3, <2>9
    <3>2. Len(p) = 2 /\ p[1] = Backslash /\ p[2] = Backslash /\ 1 \in 1..Len(p) /\ 2 \in 1..Len(p)
      BY <3>1
    <3>3. /\ o1 = o + 2 /\ o + 1 \in 1..Len(t) /\ (o + 1) - 1 = o
          /\ o + 2 \in 1..Len(t) /\ (o + 2) - 1 = o + 1 /\ o + 2 > 1
          /\ t[o + 1] = Backslash /\ t[o + 2] = Backslash
      BY <1>4, <2>4, <3>2
    <3>4. ~D[o + 1]
      <4>1. D[o + 1] <=> /\ o + 1 > 1 /\ t[o + 1] = Backslash /\ t[(o + 1) - 1] = Backslash
                         /\ ~D[(o + 1) - 1]
        BY <1>7, <3>3
      <4>2. o = 0 => ~(o + 1 > 1) OBVIOUS
      <4> QED BY <2>6, <3>3, <4>1, <4>2
    <3>5. D[o + 2]
      <4>1. D[o + 2] <=> /\ o + 2 > 1 /\ t[o + 2] = Backslash /\ t[(o + 2) - 1] = Backslash
                         /\ ~D[(o + 2) - 1]
        BY <1>7, <3>3
      <4> QED BY <3>3, <3>4, <4>1
    <3>6. o + 1 \notin B /\ o + 2 \in B BY <1>6, <3>3, <3>4, <3>5
    <3>7. R[o + 1] = R[(o + 1) - 1] \o <<t[o + 1]>> BY <2>7, <3>3, <3>6
    <3>8. R[o + 2] = R[(o + 2) - 1] \o <<>> BY <2>7, <3>3, <3>6
    <3>9. (w \o <<c>>) \o <<>> = w \o <<c>>
      <4>1. <<c>> \in Seq(C) BY <2>3
      <4>2. w \o <<c>> \in Seq(C) BY <2>5, <4>1, ConcatProperties
      <4> QED BY <4>2, ConcatEmptySeq
    <3>10. R[o + 2] = (w \o <<c>>) \o <<>> BY <2>6, <2>9, <3>3, <3>7, <3>8
    <3>11. R[o1] = w1 BY <2>5, <3>3, <3>9, <3>10
    <3>12. D[o1] BY <3>3, <3>5
    <3> QED BY <1>4, <3>3, <3>11, <3>12
  <2> QED BY <2>8, <2>9
<1>13. Nat \subseteq S
  <2> HIDE DEF S
  <2> QED BY <1>11, <1>12, Induct
<1>14. \A i \in 0..m : V[i] = SubSeq(v, 1, i) BY DEF V
<1> QED BY <1>1, <1>13, <1>14 DEF m

(* Joined is the last of the prefixes that Joins speaks of.                  *)
LEMMA JoinedIs ==
  ASSUME NEW C, NEW m \in Nat, NEW pieces \in [1..m -> Seq(C)]
  PROVE  /\ Joins(C, m, JoinedUpTo(pieces), pieces)
         /\ Joined(pieces) = JoinedUpTo(pieces)[m]
         /\ Joined(pieces) \in Seq(C)
<1>1. pieces \in Seq(Seq(C)) /\ Len(pieces) = m OBVIOUS
<1>2. Joins(C, m, JoinedUpTo(pieces), pieces) BY <1>1, JoiningDef DEF Joins
<1>3. Joined(pieces) = JoinedUpTo(pieces)[m] BY <1>1 DEF Joined
<1>4. JoinedUpTo(pieces)[m] \in Seq(C)
  <2>1. m \in 0..m OBVIOUS
  <2> QED BY <1>2, <2>1 DEF Joins
<1> QED BY <1>2, <1>3, <1>4

LEMMA LeftTypes ==
  ASSUME NEW C, NEW s \in Seq(C), NEW dropped
  PROVE  /\ Len(s) \in Nat
         /\ Remaining(s, dropped) = Left(s, dropped)
         /\ Left(s, dropped) \in [1..Len(s) -> Seq(C)]
<1>1. Len(s) \in Nat /\ DOMAIN s = 1..Len(s) BY LenProperties
<1>2. Remaining(s, dropped) = Left(s, dropped) BY <1>1 DEF Remaining, Left
<1>3. \A n \in 1..Len(s) : <<s[n]>> \in Seq(C) /\ <<>> \in Seq(C)
  <2> TAKE n \in 1..Len(s)
  <2>1. s[n] \in C BY ElementOfSeq
  <2> QED BY <2>1
<1> QED BY <1>1, <1>2, <1>3 DEF Left

(* Between the quotes, the two replaces give the value back.                 *)
LEMMA SpellingUndone ==
  ASSUME NEW C, Quote \in C, Backslash \in C, NEW v \in Seq(C)
  PROVE  /\ Joined(Spelt(v)) \in Seq(C)
         /\ BackslashesFreed(QuotesFreed(Joined(Spelt(v)))) = v
<1> DEFINE m == Len(v)
           P == JoinedUpTo(Spelt(v))
           Q == JoinedUpTo(HalfSpelt(v))
           s == Joined(Spelt(v))
           t == Joined(HalfSpelt(v))
           K == JoinedUpTo(Left(s, BeforeQuotes(s)))
           B == Seconds(t)
           R == JoinedUpTo(Left(t, B))
<1>1. m \in Nat /\ m \in 0..m BY LenProperties
<1>2. Spelt(v) \in [1..m -> Seq(C)] /\ HalfSpelt(v) \in [1..m -> Seq(C)] BY SpeltTypes
<1>3. Joins(C, m, P, Spelt(v)) /\ s = P[m] /\ s \in Seq(C) BY <1>1, <1>2, JoinedIs
<1>4. Joins(C, m, Q, HalfSpelt(v)) /\ t = Q[m] /\ t \in Seq(C) BY <1>1, <1>2, JoinedIs
<1>5. /\ Joins(C, Len(s), K, Left(s, BeforeQuotes(s)))
      /\ QuotesFreed(s) = K[Len(s)]
  <2> HIDE DEF s
  <2>1. /\ Len(s) \in Nat
        /\ Remaining(s, BeforeQuotes(s)) = Left(s, BeforeQuotes(s))
        /\ Left(s, BeforeQuotes(s)) \in [1..Len(s) -> Seq(C)]
    BY <1>3, LeftTypes
  <2>2. QuotesFreed(s) = Joined(Left(s, BeforeQuotes(s))) BY <2>1 DEF QuotesFreed, Without
  <2> QED BY <2>1, <2>2, JoinedIs
<1>6. /\ Joins(C, Len(t), R, Left(t, B))
      /\ BackslashesFreed(t) = R[Len(t)]
  <2> HIDE DEF t
  <2>1. /\ Len(t) \in Nat
        /\ Remaining(t, B) = Left(t, B)
        /\ Left(t, B) \in [1..Len(t) -> Seq(C)]
    BY <1>4, LeftTypes
  <2>2. BackslashesFreed(t) = Joined(Left(t, B)) BY <2>1 DEF BackslashesFreed, Without
  <2> HIDE DEF B
  <2> QED BY <2>1, <2>2, JoinedIs
<1>7. \A i \in 0..m : K[Len(P[i])] = Q[i]
  <2> HIDE DEF P, Q, s, K
  <2> QED BY <1>3, <1>4, <1>5, FirstReplace DEF m
<1>8. \A i \in 0..m : R[Len(Q[i])] = SubSeq(v, 1, i)
  <2> HIDE DEF Q, t, R
  <2> QED BY <1>4, <1>6, SecondReplace DEF m
<1>9. SubSeq(v, 1, m) = v BY SubSeqFull
<1> HIDE DEF P, Q, s, t, K, R, B, m
<1>10. QuotesFreed(s) = t BY <1>1, <1>3, <1>4, <1>5, <1>7
<1>11. BackslashesFreed(t) = v BY <1>1, <1>4, <1>6, <1>8, <1>9
<1> QED BY <1>3, <1>10, <1>11 DEF s

(* What a sequence between two quotes consists of.                           *)
LEMMA Enclosed ==
  ASSUME NEW C, NEW s \in Seq(C), NEW a \in C
  PROVE  /\ (<<a>> \o s) \o <<a>> \in Seq(C)
         /\ Len((<<a>> \o s) \o <<a>>) = Len(s) + 2
         /\ ((<<a>> \o s) \o <<a>>)[1] = a
         /\ ((<<a>> \o s) \o <<a>>)[Len(s) + 2] = a
         /\ \A k \in 1..Len(s) : ((<<a>> \o s) \o <<a>>)[1 + k] = s[k]
<1> DEFINE q == <<a>>
           n == Len(s)
           x == q \o s
           w == x \o q
<1>1. q \in Seq(C) /\ Len(q) = 1 /\ q[1] = a OBVIOUS
<1> HIDE DEF q
<1>2. n \in Nat BY LenProperties
<1>3. /\ x \in Seq(C) /\ Len(x) = Len(q) + n
      /\ \A i \in 1..(Len(q) + n) : x[i] = IF i <= Len(q) THEN q[i] ELSE s[i - Len(q)]
  BY <1>1, ConcatProperties
<1> HIDE DEF x
<1>4. /\ w \in Seq(C) /\ Len(w) = Len(x) + Len(q)
      /\ \A i \in 1..(Len(x) + Len(q)) : w[i] = IF i <= Len(x) THEN x[i] ELSE q[i - Len(x)]
  <2>1. q \in Seq(C) /\ x \in Seq(C) BY <1>1, <1>3
  <2> QED BY <2>1, ConcatProperties
<1> HIDE DEF w, n
<1>5. /\ Len(x) = 1 + n /\ Len(w) = n + 2
      /\ \A i \in 1..(1 + n) : x[i] = IF i <= 1 THEN q[i] ELSE s[i - 1]
      /\ \A i \in 1..(n + 2) : w[i] = IF i <= 1 + n THEN x[i] ELSE q[i - (1 + n)]
  BY <1>1, <1>2, <1>3, <1>4
<1>6. w[1] = a
  <2>1. 1 \in 1..(1 + n) /\ 1 \in 1..(n + 2) /\ 1 <= 1 + n BY <1>2
  <2> QED BY <1>1, <1>5, <2>1
<1>7. w[n + 2] = a
  <2>1. n + 2 \in 1..(n + 2) /\ ~(n + 2 <= 1 + n) /\ (n + 2) - (1 + n) = 1 BY <1>2
  <2> QED BY <1>1, <1>5, <2>1
<1>8. ASSUME NEW k \in 1..n PROVE w[1 + k] = s[k]
  <2>1. /\ 1 + k \in 1..(1 + n) /\ 1 + k \in 1..(n + 2) /\ 1 + k <= 1 + n
        /\ ~(1 + k <= 1) /\ (1 + k) - 1 = k
    BY <1>2
  <2>2. w[1 + k] = x[1 + k] BY <1>5, <2>1
  <2>3. x[1 + k] = s[k] BY <1>5, <2>1
  <2> QED BY <2>2, <2>3
<1> QED BY <1>4, <1>5, <1>6, <1>7, <1>8 DEF q, n, x, w

(* Whatever characters a value has, what _quote writes is read back as it by *)
(* _unquote.                                                                 *)
THEOREM QuotingUndone ==
  ASSUME NEW C, Quote \in C, Backslash \in C, NEW v \in Seq(C)
  PROVE  Quoted(v) \in Seq(C) /\ Unquoted(Quoted(v)) = v
<1>1. Quote # Apostrophe BY DEF Quote, Apostrophe
<1>2. Len(v) \in Nat /\ DOMAIN v = 1..Len(v) BY LenProperties
<1>3. CASE v = <<>> \/ \E i \in DOMAIN v : v[i] \in Special
  <2> DEFINE s == Joined(Spelt(v))
             q == <<Quote>>
             w == (q \o s) \o q
  <2>1. s \in Seq(C) /\ BackslashesFreed(QuotesFreed(s)) = v BY SpellingUndone
  <2>2. Quoted(v) = w BY <1>2, <1>3 DEF Quoted, Spelt
  <2> DEFINE n == Len(s)
  <2> HIDE DEF s
  <2>4. n \in Nat BY <2>1, LenProperties
  <2>6. w \in Seq(C) /\ Len(w) = n + 2 /\ w[1] = Quote /\ w[n + 2] = Quote
        /\ \A k \in 1..n : w[1 + k] = s[k]
    BY <2>1, Enclosed
  <2>7. SubSeq(w, 2, Len(w) - 1) = s
    <3> DEFINE u == SubSeq(w, 2, n + 1)
    <3>1. \A i \in 2..(n + 1) : w[i] \in C
      <4> TAKE i \in 2..(n + 1)
      <4>1. i \in 1..Len(w) BY <2>4, <2>6
      <4> QED BY <2>6, <4>1, ElementOfSeq
    <3>2. n + 1 \in Int /\ 2 \in Int /\ (n + 1) - 2 + 1 = n BY <2>4
    <3>3. /\ u \in Seq(C)
          /\ Len(u) = IF 2 <= n + 1 THEN (n + 1) - 2 + 1 ELSE 0
          /\ \A i \in 1..((n + 1) - 2 + 1) : u[i] = w[2 + i - 1]
      BY <3>1, <3>2, SubSeqProperties
    <3> HIDE DEF u
    <3>4. Len(u) = n BY <2>4, <3>3
    <3>5. \A i \in 1..n : u[i] = s[i]
      <4> TAKE i \in 1..n
      <4>1. 2 + i - 1 = 1 + i BY <2>4
      <4>2. u[i] = w[1 + i] BY <3>2, <3>3, <4>1
      <4> QED BY <2>6, <4>2
    <3>6. u = s BY <2>1, <3>3, <3>4, <3>5, SeqEqual
    <3>7. Len(w) - 1 = n + 1 BY <2>4, <2>6
    <3> QED BY <3>6, <3>7 DEF u
  <2>8. ~(Len(w) < 2 \/ w[1] # w[Len(w)] \/ w[1] \notin {Quote, Apostrophe}) BY <2>4, <2>6
  <2>9. Unquoted(w) = BackslashesFreed(QuotesFreed(SubSeq(w, 2, Len(w) - 1)))
    BY <2>6, <2>8 DEF Unquoted
  <2> QED BY <2>1, <2>2, <2>6, <2>7, <2>9
<1>4. CASE ~(v = <<>> \/ \E i \in DOMAIN v : v[i] \in Special)
  <2>1. Quoted(v) = v BY <1>4 DEF Quoted
  <2>2. 1 \in DOMAIN v
    <3>1. Len(v) # 0 BY <1>4, EmptySeq
    <3> QED BY <1>2, <3>1
  <2>3. v[1] \notin {Quote, Apostrophe} BY <1>4, <2>2 DEF Special
  <2>4. Unquoted(v) = v BY <2>3 DEF Unquoted
  <2> QED BY <2>1, <2>4
<1> QED BY <1>3, <1>4

(* So every value in play is written as a text and read back.               *)
LEMMA ValuesSurvive ==
  ASSUME NEW v \in Values
  PROVE  Quoted(v) \in Seq(STRING) /\ Unquoted(Quoted(v)) = v
<1>1. v \in Seq(STRING) /\ Quote \in STRING /\ Backslash \in STRING
  BY ValuesAssumption, CharactersAssumption
<1> QED BY <1>1, QuotingUndone

-----------------------------------------------------------------------------
(* A file that is not empty of what is sought has a last such line.          *)
LEMMA LastElement ==
  ASSUME NEW n \in Nat, NEW T \in SUBSET (1..n), T # {}
  PROVE  \E x \in T : \A y \in T : ~(y > x)
<1> DEFINE U == {n - x : x \in T}
<1>1. U \in SUBSET Nat /\ U # {}
  <2>1. \A x \in T : n - x \in Nat
    OBVIOUS
  <2> QED BY <2>1
<1>2. PICK m \in U : \A y \in U : ~(y < m)
  BY <1>1, Least
<1>3. PICK x \in T : m = n - x
  BY <1>2
<1>4. ASSUME NEW y \in T PROVE ~(y > x)
  <2>1. ~(n - y < n - x)
    BY <1>2, <1>3
  <2> QED BY <2>1
<1> QED BY <1>4

(* A key that is assigned has a last assignment, and that is the one read.   *)
LEMMA ReadLast ==
  ASSUME NEW f \in Seq(Line), NEW k, NEW i \in DOMAIN f, Assigns(f[i], k),
         \A j \in DOMAIN f : j > i => ~Assigns(f[j], k)
  PROVE  ReadKey(f, k) = Unquoted(f[i].val)
<1> DEFINE IsLast(n) == Assigns(f[n], k) /\ \A j \in DOMAIN f : j > n => ~Assigns(f[j], k)
<1>1. ASSUME NEW n \in DOMAIN f, IsLast(n) PROVE n = i
  <2>1. n \in Nat /\ i \in Nat
    OBVIOUS
  <2>2. ~(n > i) /\ ~(i > n)
    BY <1>1
  <2> QED BY <2>1, <2>2
<1>2. IsLast(i)
  OBVIOUS
<1>3. ReadKey(f, k) = Unquoted(f[CHOOSE n \in DOMAIN f : IsLast(n)].val)
  BY DEF ReadKey
<1> HIDE DEF IsLast
<1>4. (CHOOSE n \in DOMAIN f : IsLast(n)) = i
  BY <1>1, <1>2
<1> QED BY <1>3, <1>4

LEMMA ReadNone ==
  ASSUME NEW f, NEW k, \A i \in DOMAIN f : ~Assigns(f[i], k)
  PROVE  ReadKey(f, k) = Absent
  BY DEF ReadKey

LEMMA LastAssignment ==
  ASSUME NEW f \in Seq(Line), NEW k, NEW h \in DOMAIN f, Assigns(f[h], k)
  PROVE  \E i \in DOMAIN f :
            /\ Assigns(f[i], k)
            /\ \A j \in DOMAIN f : j > i => ~Assigns(f[j], k)
<1> DEFINE T == {i \in DOMAIN f : Assigns(f[i], k)}
<1>1. T \in SUBSET (1..Len(f)) /\ T # {} /\ Len(f) \in Nat
  OBVIOUS
<1>2. PICK i \in T : \A j \in T : ~(j > i)
  BY <1>1, LastElement
<1> QED BY <1>2

LEMMA FirstNaming ==
  ASSUME NEW f \in Seq(Line), NEW k, NEW h \in DOMAIN f, Names(f[h], k)
  PROVE  \E i \in DOMAIN f : IsTarget(f, i, k)
<1> DEFINE T == {i \in DOMAIN f : Names(f[i], k)}
<1>1. T \in SUBSET Nat /\ T # {}
  OBVIOUS
<1>2. PICK i \in T : \A j \in T : ~(j < i)
  BY <1>1, Least
<1> QED BY <1>2 DEF IsTarget

-----------------------------------------------------------------------------
(* The sequence of the keys that are new.                                    *)
LEMMA Enumeration ==
  ASSUME NEW S, IsFiniteSet(S)
  PROVE  /\ SetToSeq(S) \in Seq(S)
         /\ \A i, j \in DOMAIN SetToSeq(S) : SetToSeq(S)[i] = SetToSeq(S)[j] => i = j
         /\ \A x \in S : \E i \in DOMAIN SetToSeq(S) : SetToSeq(S)[i] = x
<1> DEFINE D == 1..Cardinality(S)
           s == SetToSeq(S)
<1>1. Cardinality(S) \in Nat /\ ExistsBijection(D, S)
  BY FS_CardinalityType
<1>2. PICK b \in Bijection(D, S) : TRUE
  BY <1>1 DEF ExistsBijection
<1>3. b \in [D -> S] /\ IsInjective(b)
  BY <1>2 DEF Bijection, Injection, IsInjective
<1>4. s \in [D -> S] /\ IsInjective(s)
  BY <1>3 DEF SetToSeq
<1> HIDE DEF s
<1>5. s \in Injection(D, S)
  BY <1>4 DEF Injection, IsInjective
<1>6. IsFiniteSet(D) /\ Cardinality(D) = Cardinality(S)
  BY <1>1, FS_Interval
<1>7. s \in Surjection(D, S)
  BY <1>5, <1>6, FS_Injection
<1>8. s \in Seq(S)
  BY <1>1, <1>4, SeqDef
<1>9. \A i, j \in DOMAIN s : s[i] = s[j] => i = j
  BY <1>4 DEF IsInjective
<1>10. \A x \in S : \E i \in DOMAIN s : s[i] = x
  BY <1>4, <1>7 DEF Surjection
<1> QED BY <1>8, <1>9, <1>10 DEF s


-----------------------------------------------------------------------------
(* The lines of a merged file: the old ones, of which the targets are        *)
(* rewritten, then blank or header lines, then one line per new key.         *)
Rewritten(f, u, i) ==
    IF \E k \in DOMAIN u : IsTarget(f, i, k) THEN Assign(f[i].key, u[f[i].key]) ELSE f[i]

LEMMA ConcatLines ==
  ASSUME NEW s \in Seq(Line), NEW t \in Seq(Line)
  PROVE  /\ s \o t \in Seq(Line) /\ Len(s \o t) = Len(s) + Len(t)
         /\ \A i \in 1..Len(s) : (s \o t)[i] = s[i]
         /\ \A i \in 1..Len(t) : (s \o t)[Len(s) + i] = t[i]
<1>1. Len(s) \in Nat /\ Len(t) \in Nat
  OBVIOUS
<1>2. /\ s \o t \in Seq(Line) /\ Len(s \o t) = Len(s) + Len(t)
      /\ \A i \in 1..Len(s) + Len(t) :
            (s \o t)[i] = IF i <= Len(s) THEN s[i] ELSE t[i - Len(s)]
  BY ConcatProperties
<1>3. \A i \in 1..Len(s) : i \in 1..Len(s) + Len(t) /\ i <= Len(s)
  BY <1>1
<1>4. \A i \in 1..Len(t) : /\ Len(s) + i \in 1..Len(s) + Len(t)
                            /\ ~(Len(s) + i <= Len(s)) /\ Len(s) + i - Len(s) = i
  BY <1>1
<1> QED BY <1>2, <1>3, <1>4

LEMMA LineType ==
  /\ Blank \in Line /\ Header \in Line
  /\ \A k \in Keys, v \in Values : Assign(k, v) \in Line
  /\ \A k, v : Assigns(Assign(k, v), k)
  /\ \A k, v, l : Names(Assign(k, v), l) => l = k
  /\ \A l : ~Names(Blank, l) /\ ~Names(Header, l)
  BY ValuesSurvive DEF Line, Blank, Header, Assign, Assigns, Names

LEMMA TargetKey ==
  ASSUME NEW K \in SUBSET Keys, NEW u \in [K -> Values], NEW f \in Seq(Line),
         NEW i \in DOMAIN f, NEW k \in K, IsTarget(f, i, k)
  PROVE  f[i].key = k /\ Rewritten(f, u, i) = Assign(k, u[k])
  BY DEF IsTarget, Names, Rewritten

LEMMA RewrittenType ==
  ASSUME NEW K \in SUBSET Keys, NEW u \in [K -> Values], NEW f \in Seq(Line),
         NEW i \in DOMAIN f
  PROVE  Rewritten(f, u, i) \in Line
<1>1. CASE \E k \in K : IsTarget(f, i, k)
  BY <1>1, TargetKey, LineType
<1>2. CASE ~\E k \in K : IsTarget(f, i, k)
  BY <1>2 DEF Rewritten
<1> QED BY <1>1, <1>2

LEMMA MergeShape ==
  ASSUME NEW K \in SUBSET Keys, NEW u \in [K -> Values], NEW f \in Seq(Line)
  PROVE  /\ Merge(f, u) \in Seq(Line)
         /\ Len(Merge(f, u)) >= Len(f)
         /\ \A i \in DOMAIN f : Merge(f, u)[i] = Rewritten(f, u, i)
         /\ \A i \in DOMAIN Merge(f, u), k \in Keys :
               i > Len(f) /\ Names(Merge(f, u)[i], k) =>
                  /\ k \in Missing(f, u)
                  /\ \A j \in DOMAIN Merge(f, u) :
                        j > Len(f) /\ Names(Merge(f, u)[j], k) => j = i
         /\ \A k \in Missing(f, u) : \E i \in DOMAIN Merge(f, u) :
               i > Len(f) /\ Merge(f, u)[i] = Assign(k, u[k])
<1> DEFINE M == Missing(f, u)
           new == SetToSeq(M)
           old == [i \in DOMAIN f |-> Rewritten(f, u, i)]
           mid == IF M = {} THEN <<>> ELSE Trailer(f)
           end == [n \in DOMAIN new |-> Assign(new[n], u[new[n]])]
           F == Merge(f, u)
<1>1. F = (old \o mid) \o end
  BY DEF Merge, Rewritten
<1>2. old \in Seq(Line) /\ Len(old) = Len(f)
  <2>1. Len(f) \in Nat /\ DOMAIN f = 1..Len(f)
    OBVIOUS
  <2>2. old \in [1..Len(f) -> Line]
    BY <2>1, RewrittenType
  <2> HIDE DEF old
  <2> QED BY <2>1, <2>2, SeqDef
<1>3. mid \in Seq(Line) /\ \A i \in DOMAIN mid : mid[i] \in {Blank, Header}
  BY LineType DEF Trailer
<1>4. M \in SUBSET Keys /\ M \in SUBSET K /\ IsFiniteSet(M)
  <2>1. M \in SUBSET K
    BY DEF Missing
  <2> QED BY <2>1, KeysAssumption, FS_Subset
<1>5. /\ new \in Seq(M)
      /\ \A i, j \in DOMAIN new : new[i] = new[j] => i = j
      /\ \A k \in M : \E i \in DOMAIN new : new[i] = k
  BY <1>4, Enumeration
<1>6. end \in Seq(Line) /\ Len(end) = Len(new) /\ DOMAIN end = DOMAIN new
  <2>1. Len(new) \in Nat /\ DOMAIN new = 1..Len(new) /\ \A n \in DOMAIN new : new[n] \in M
    BY <1>5
  <2>2. \A n \in DOMAIN new : Assign(new[n], u[new[n]]) \in Line
    BY <1>4, <2>1, LineType
  <2>3. end \in [1..Len(new) -> Line]
    BY <2>1, <2>2
  <2>4. DOMAIN end = DOMAIN new
    OBVIOUS
  <2> HIDE DEF end, new
  <2> QED BY <2>1, <2>3, <2>4, SeqDef
<1>7. \A i \in DOMAIN f : old[i] = Rewritten(f, u, i)
  OBVIOUS
<1>8. \A n \in DOMAIN new : end[n] = Assign(new[n], u[new[n]])
  OBVIOUS
<1> HIDE DEF old, mid, end, new, F, M
<1>9. /\ F \in Seq(Line) /\ Len(F) = Len(f) + Len(mid) + Len(end)
      /\ \A i \in 1..Len(f) : F[i] = old[i]
      /\ \A i \in 1..Len(mid) : F[Len(f) + i] = mid[i]
      /\ \A i \in 1..Len(end) : F[Len(f) + Len(mid) + i] = end[i]
  <2> DEFINE H == old \o mid
  <2>1. /\ H \in Seq(Line) /\ Len(H) = Len(f) + Len(mid)
        /\ \A i \in 1..Len(f) : H[i] = old[i]
        /\ \A i \in 1..Len(mid) : H[Len(f) + i] = mid[i]
    <3>1. old \in Seq(Line) /\ mid \in Seq(Line)
      BY <1>2, <1>3
    <3>2. /\ H \in Seq(Line) /\ Len(H) = Len(old) + Len(mid)
          /\ \A i \in 1..Len(old) : H[i] = old[i]
          /\ \A i \in 1..Len(mid) : H[Len(old) + i] = mid[i]
      BY <3>1, ConcatLines
    <3> HIDE DEF H
    <3> QED BY <1>2, <3>2
  <2>2. F = H \o end
    BY <1>1
  <2> HIDE DEF H
  <2>3. /\ F \in Seq(Line) /\ Len(F) = Len(H) + Len(end)
        /\ \A i \in 1..Len(H) : F[i] = H[i]
        /\ \A i \in 1..Len(end) : F[Len(H) + i] = end[i]
    BY <1>6, <2>1, <2>2, ConcatLines
  <2>4. Len(f) \in Nat /\ Len(mid) \in Nat /\ Len(end) \in Nat
    BY <1>3, <1>6
  <2>5. \A i \in 1..Len(f) : i \in 1..Len(H)
    BY <2>1, <2>4
  <2>6. \A i \in 1..Len(mid) : Len(f) + i \in 1..Len(H)
    BY <2>1, <2>4
  <2> QED BY <2>1, <2>3, <2>4, <2>5, <2>6
<1>10. \A i \in DOMAIN F :
         \/ i \in DOMAIN f
         \/ i > Len(f) /\ F[i] \in {Blank, Header}
         \/ \E n \in DOMAIN new : i = Len(f) + Len(mid) + n /\ F[i] = Assign(new[n], u[new[n]])
  <2> TAKE i \in DOMAIN F
  <2>1. CASE i <= Len(f)
    BY <1>9, <2>1
  <2>2. CASE i > Len(f) /\ i <= Len(f) + Len(mid)
    <3>1. i - Len(f) \in 1..Len(mid)
      BY <1>3, <1>9, <2>2
    <3> QED BY <1>3, <1>9, <2>2, <3>1
  <2>3. CASE i > Len(f) + Len(mid)
    <3>1. i - (Len(f) + Len(mid)) \in 1..Len(end)
      BY <1>3, <1>6, <1>9, <2>3
    <3> QED BY <1>3, <1>6, <1>8, <1>9, <2>3, <3>1
  <2> QED BY <1>3, <1>9, <2>1, <2>2, <2>3
<1>11. ASSUME NEW i \in DOMAIN F, NEW k \in Keys, i > Len(f), Names(F[i], k)
       PROVE  \E n \in DOMAIN new : i = Len(f) + Len(mid) + n /\ new[n] = k
  <2>1. i \notin DOMAIN f /\ F[i] \notin {Blank, Header}
    BY <1>11, LineType
  <2>2. PICK n \in DOMAIN new : i = Len(f) + Len(mid) + n /\ F[i] = Assign(new[n], u[new[n]])
    BY <1>10, <2>1
  <2> QED BY <1>11, <2>2, LineType
<1>12. ASSUME NEW i \in DOMAIN F, NEW k \in Keys, i > Len(f), Names(F[i], k)
       PROVE  k \in M /\ \A j \in DOMAIN F : j > Len(f) /\ Names(F[j], k) => j = i
  BY <1>5, <1>11, <1>12
<1>13. ASSUME NEW k \in M
       PROVE  \E i \in DOMAIN F : i > Len(f) /\ F[i] = Assign(k, u[k])
  <2>1. PICK n \in DOMAIN new : new[n] = k
    BY <1>5
  <2>2. n \in 1..Len(end) /\ Len(f) \in Nat /\ Len(mid) \in Nat
    BY <1>3, <1>5, <1>6
  <2>3. Len(f) + Len(mid) + n \in DOMAIN F /\ Len(f) + Len(mid) + n > Len(f)
    BY <1>9, <2>2
  <2> QED BY <1>8, <1>9, <2>1, <2>2, <2>3
<1>14. Len(F) >= Len(f) /\ \A i \in DOMAIN f : F[i] = Rewritten(f, u, i)
  BY <1>3, <1>6, <1>7, <1>9
<1> QED BY <1>9, <1>12, <1>13, <1>14 DEF F, M

-----------------------------------------------------------------------------
(* Where a key stands after a merge.                                         *)
LEMMA MergedOld ==
  ASSUME NEW K \in SUBSET Keys, NEW u \in [K -> Values], NEW f \in Seq(Line),
         NEW i \in DOMAIN f, NEW k \in Keys
  PROVE  /\ i \in DOMAIN Merge(f, u)
         /\ Names(Merge(f, u)[i], k) <=> Names(f[i], k)
         /\ k \in K /\ IsTarget(f, i, k) => Merge(f, u)[i] = Assign(k, u[k])
         /\ ~(k \in K /\ IsTarget(f, i, k)) =>
               /\ Assigns(Merge(f, u)[i], k) <=> Assigns(f[i], k)
               /\ Assigns(f[i], k) => Merge(f, u)[i] = f[i]
<1> DEFINE F == Merge(f, u)
<1>1. i \in DOMAIN F /\ F[i] = Rewritten(f, u, i)
  BY MergeShape
<1>2. CASE \E l \in K : IsTarget(f, i, l)
  <2>1. PICK l \in K : IsTarget(f, i, l)
    BY <1>2
  <2>2. F[i] = Assign(l, u[l]) /\ f[i].key = l
    BY <1>1, <2>1, TargetKey
  <2>3. Names(f[i], l) /\ Names(F[i], l)
    BY <2>1, <2>2, LineType DEF IsTarget, Names, Assigns
  <2>4. Names(f[i], k) <=> k = l
    BY <2>2, <2>3 DEF Names
  <2>5. (Names(F[i], k) <=> k = l) /\ (Assigns(F[i], k) => k = l)
    BY <2>2, <2>3, LineType DEF Names, Assigns
  <2>6. (IsTarget(f, i, k) => k = l) /\ (Assigns(f[i], k) => k = l)
    BY <2>4 DEF IsTarget, Names, Assigns
  <2> QED BY <1>1, <2>1, <2>2, <2>4, <2>5, <2>6
<1>3. CASE ~\E l \in K : IsTarget(f, i, l)
  BY <1>1, <1>3 DEF Rewritten
<1> QED BY <1>2, <1>3

(* merge_env (env_file.py:39-74) keeps a file in which no key is assigned    *)
(* below another line that names it as it is: it writes each posted key to   *)
(* the first line that names it, or once at the end.                         *)
THEOREM MergeUnshadowed ==
  ASSUME NEW K \in SUBSET Keys, NEW u \in [K -> Values],
         NEW f \in Seq(Line), Unshadowed(f)
  PROVE  Merge(f, u) \in Seq(Line) /\ Unshadowed(Merge(f, u))
<1> DEFINE F == Merge(f, u)
<1>1. ASSUME NEW k \in Keys, NEW i \in DOMAIN F, NEW j \in DOMAIN F,
             i < j, Names(F[i], k), Assigns(F[j], k)
      PROVE  FALSE
  <2>0. Names(F[j], k) /\ i \in Nat /\ j \in Nat /\ Len(f) \in Nat /\ DOMAIN f = 1..Len(f)
    <3>1. F \in Seq(Line)
      BY MergeShape
    <3>2. Names(F[j], k)
      BY <1>1 DEF Names, Assigns
    <3> HIDE DEF F
    <3> QED BY <3>1, <3>2
  <2>1. CASE j \in DOMAIN f
    <3>1. i \in DOMAIN f
      BY <1>1, <2>0, <2>1, MergeShape
    <3>2. Names(f[i], k)
      BY <1>1, <3>1, MergedOld
    <3>3. ~IsTarget(f, j, k)
      BY <1>1, <3>1, <3>2 DEF IsTarget
    <3>4. Assigns(f[j], k)
      BY <1>1, <2>1, <3>3, MergedOld
    <3> QED BY <1>1, <2>1, <3>1, <3>2, <3>4 DEF Unshadowed
  <2>2. CASE j \notin DOMAIN f /\ i \in DOMAIN f
    <3>1. Names(f[i], k)
      BY <1>1, <2>2, MergedOld
    <3>2. j > Len(f)
      BY <2>0, <2>2, MergeShape
    <3>3. k \in Missing(f, u)
      BY <2>0, <3>2, MergeShape
    <3> QED BY <2>2, <3>1, <3>3 DEF Missing
  <2>3. CASE j \notin DOMAIN f /\ i \notin DOMAIN f
    <3>1. j > Len(f) /\ i > Len(f)
      BY <2>0, <2>3, MergeShape
    <3> QED BY <1>1, <2>0, <3>1, MergeShape
  <2> QED BY <2>1, <2>2, <2>3
<1> QED BY <1>1, MergeShape DEF Unshadowed

(* What parse_env reads of a merged file: each posted key has the value that *)
(* was posted, quoting included, and any other key the one it had.           *)
THEOREM MergeReads ==
  ASSUME NEW K \in SUBSET Keys, NEW u \in [K -> Values],
         NEW f \in Seq(Line), Unshadowed(f), NEW k \in Keys
  PROVE  ReadKey(Merge(f, u), k) = IF k \in K THEN u[k] ELSE ReadKey(f, k)
<1> DEFINE F == Merge(f, u)
<1>0. F \in Seq(Line) /\ Unshadowed(F)
  BY MergeUnshadowed
<1>1. ASSUME NEW i \in DOMAIN F, k \in K, F[i] = Assign(k, u[k])
      PROVE  ReadKey(F, k) = u[k]
  <2>1. Assigns(F[i], k) /\ Names(F[i], k)
    BY <1>1, LineType DEF Names, Assigns
  <2>2. \A j \in DOMAIN F : j > i => ~Assigns(F[j], k)
    BY <1>0, <2>1 DEF Unshadowed
  <2>3. ReadKey(F, k) = Unquoted(F[i].val)
    BY <1>0, <2>1, <2>2, ReadLast
  <2>4. F[i].val = Quoted(u[k]) /\ u[k] \in Values
    BY <1>1 DEF Assign
  <2> QED BY <2>3, <2>4, ValuesSurvive
<1>2. CASE k \in K
  <2>1. CASE k \in Missing(f, u)
    BY <1>1, <1>2, <2>1, MergeShape
  <2>2. CASE k \notin Missing(f, u)
    <3>1. PICK h \in DOMAIN f : Names(f[h], k)
      BY <1>2, <2>2 DEF Missing
    <3>2. PICK i \in DOMAIN f : IsTarget(f, i, k)
      BY <3>1, FirstNaming
    <3>3. i \in DOMAIN F /\ F[i] = Assign(k, u[k]) BY <1>2, <3>2, MergedOld
    <3> QED BY <1>1, <1>2, <3>3
  <2> QED BY <2>1, <2>2
<1>3. CASE k \notin K
  <2>1. \A i \in DOMAIN f : i \in DOMAIN F /\ (Assigns(F[i], k) <=> Assigns(f[i], k))
                             /\ (Assigns(f[i], k) => F[i] = f[i])
    BY <1>3, MergedOld
  <2>2. \A i \in DOMAIN F : i \notin DOMAIN f => ~Assigns(F[i], k)
    <3>1. k \notin Missing(f, u)
      BY <1>3 DEF Missing
    <3>2. \A i \in DOMAIN F : i \notin DOMAIN f => i > Len(f)
      BY <1>0, MergeShape
    <3> QED BY <3>1, <3>2, MergeShape DEF Names, Assigns
  <2>3. CASE \E h \in DOMAIN f : Assigns(f[h], k)
    <3>1. PICK i \in DOMAIN f : /\ Assigns(f[i], k)
                               /\ \A j \in DOMAIN f : j > i => ~Assigns(f[j], k)
      BY <2>3, LastAssignment
    <3>2. ReadKey(f, k) = Unquoted(f[i].val)
      BY <3>1, ReadLast
    <3>3. i \in DOMAIN F /\ F[i] = f[i]
      BY <2>1, <3>1
    <3>4. \A j \in DOMAIN F : j > i => ~Assigns(F[j], k)
      BY <2>1, <2>2, <3>1
    <3>5. ReadKey(F, k) = Unquoted(F[i].val)
      BY <1>0, <3>1, <3>3, <3>4, ReadLast
    <3> QED BY <1>3, <3>2, <3>3, <3>5
  <2>4. CASE \A h \in DOMAIN f : ~Assigns(f[h], k)
    <3>1. \A i \in DOMAIN F : ~Assigns(F[i], k)
      BY <2>1, <2>2, <2>4
    <3> QED BY <1>3, <2>4, <3>1, ReadNone
  <2> QED BY <2>3, <2>4
<1> QED BY <1>2, <1>3
=============================================================================
