--------------------------- MODULE DownloadProofs ---------------------------
(***************************************************************************)
(* What the browser makes of a download, for any number of downloads,       *)
(* threads, chunks and pings and both kinds of line ends: api.js hands over *)
(* each event once, and steps.jsx shows the truth.                          *)
(***************************************************************************)
EXTENDS DownloadWireProofs

-----------------------------------------------------------------------------
(* Pieces of what was sent.                                                  *)
LEMMA Piece ==
  ASSUME NEW W \in Seq(Symbol), NEW s \in Nat, NEW n \in Nat, s <= n, n <= Len(W)
  PROVE  /\ SubSeq(W, s + 1, n) \in Seq(Symbol)
         /\ Len(SubSeq(W, s + 1, n)) = n - s
         /\ \A i \in 1..(n - s) : SubSeq(W, s + 1, n)[i] = W[s + i]
<1>1. Len(W) \in Nat OBVIOUS
<1>2. \A i \in (s + 1)..n : W[i] \in Symbol
  <2> TAKE i \in (s + 1)..n
  <2>1. i \in 1..Len(W) BY <1>1
  <2> QED BY <2>1
<1>3. /\ SubSeq(W, s + 1, n) \in Seq(Symbol)
      /\ Len(SubSeq(W, s + 1, n)) = IF s + 1 <= n THEN n - (s + 1) + 1 ELSE 0
      /\ \A i \in 1..(n - (s + 1) + 1) : SubSeq(W, s + 1, n)[i] = W[(s + 1) + i - 1]
  BY <1>2, SubSeqProperties
<1>4. Len(SubSeq(W, s + 1, n)) = n - s BY <1>3
<1>5. ASSUME NEW i \in 1..(n - s) PROVE SubSeq(W, s + 1, n)[i] = W[s + i]
  <2>1. i \in 1..(n - (s + 1) + 1) /\ (s + 1) + i - 1 = s + i OBVIOUS
  <2> QED BY <1>3, <2>1
<1> QED BY <1>3, <1>4, <1>5

(* The symbols after s up to n.                                            *)
Part(W, s, n) == SubSeq(W, s + 1, n)

(* A piece of a piece is a piece,                                          *)
LEMMA PieceOfPiece ==
  ASSUME NEW W \in Seq(Symbol), NEW q \in Nat, NEW s \in Nat, NEW p \in Nat, NEW n \in Nat,
         q <= s, s <= p, p <= n, n <= Len(W)
  PROVE  SubSeq(SubSeq(W, q + 1, n), s - q + 1, p - q) = SubSeq(W, s + 1, p)
<1>0. PICK b : b = SubSeq(W, q + 1, n) OBVIOUS
<1>1. b \in Seq(Symbol) /\ Len(b) = n - q /\ \A i \in 1..(n - q) : b[i] = W[q + i]
  BY <1>0, Piece
<1>2. s - q \in Nat /\ p - q \in Nat /\ s - q <= p - q /\ p - q <= Len(b) /\ Len(W) \in Nat
  BY <1>1
<1>3. PICK c : c = SubSeq(b, (s - q) + 1, p - q) OBVIOUS
<1>4. c \in Seq(Symbol) /\ Len(c) = (p - q) - (s - q)
      /\ \A i \in 1..((p - q) - (s - q)) : c[i] = b[(s - q) + i]
  BY <1>1, <1>2, <1>3, Piece
<1>5. PICK d : d = SubSeq(W, s + 1, p) OBVIOUS
<1>6. d \in Seq(Symbol) /\ Len(d) = p - s /\ \A i \in 1..(p - s) : d[i] = W[s + i]
  BY <1>2, <1>5, Piece
<1>7. (p - q) - (s - q) = p - s OBVIOUS
<1>8. ASSUME NEW i \in 1..(p - s) PROVE c[i] = d[i]
  <2>1. (s - q) + i \in 1..(n - q) /\ q + ((s - q) + i) = s + i OBVIOUS
  <2>2. c[i] = b[(s - q) + i] BY <1>4, <1>7
  <2>3. b[(s - q) + i] = W[s + i] BY <1>1, <2>1
  <2> QED BY <1>6, <2>2, <2>3
<1>9. Len(c) = p - s /\ Len(d) = p - s BY <1>4, <1>6, <1>7
<1>10. c = d BY <1>4, <1>6, <1>8, <1>9, SeqEqual
<1> QED BY <1>0, <1>3, <1>5, <1>10

(* and two pieces that meet are one.                                       *)
LEMMA PieceJoin ==
  ASSUME NEW W \in Seq(Symbol), NEW q \in Nat, NEW t \in Nat, NEW n \in Nat,
         q <= t, t <= n, n <= Len(W)
  PROVE  SubSeq(W, q + 1, t) \o SubSeq(W, t + 1, n) = SubSeq(W, q + 1, n)
<1>0. Len(W) \in Nat OBVIOUS
<1>1. PICK a : a = SubSeq(W, q + 1, t) OBVIOUS
<1>2. PICK b : b = SubSeq(W, t + 1, n) OBVIOUS
<1>3. PICK c : c = SubSeq(W, q + 1, n) OBVIOUS
<1>4. a \in Seq(Symbol) /\ Len(a) = t - q /\ \A i \in 1..(t - q) : a[i] = W[q + i]
  BY <1>0, <1>1, Piece
<1>5. b \in Seq(Symbol) /\ Len(b) = n - t /\ \A i \in 1..(n - t) : b[i] = W[t + i]
  BY <1>2, Piece
<1>6. c \in Seq(Symbol) /\ Len(c) = n - q /\ \A i \in 1..(n - q) : c[i] = W[q + i]
  BY <1>0, <1>3, Piece
<1>7. PICK d : d = a \o b OBVIOUS
<1>8. /\ d \in Seq(Symbol) /\ Len(d) = Len(a) + Len(b)
      /\ \A i \in 1..(Len(a) + Len(b)) : d[i] = IF i <= Len(a) THEN a[i] ELSE b[i - Len(a)]
  BY <1>4, <1>5, <1>7, ConcatProperties
<1>9. Len(d) = n - q BY <1>4, <1>5, <1>8
<1>10. ASSUME NEW i \in 1..(n - q) PROVE d[i] = c[i]
  <2>1. i \in 1..(Len(a) + Len(b)) BY <1>4, <1>5
  <2>2. CASE i <= t - q
    <3>1. i \in 1..(t - q) BY <2>2
    <3> QED BY <1>4, <1>6, <1>8, <2>1, <2>2, <3>1
  <2>3. CASE ~(i <= t - q)
    <3>1. i - (t - q) \in 1..(n - t) /\ t + (i - (t - q)) = q + i BY <2>3
    <3>2. d[i] = b[i - (t - q)] BY <1>4, <1>8, <2>1, <2>3
    <3>3. b[i - (t - q)] = W[q + i] BY <1>5, <3>1
    <3> QED BY <1>6, <3>2, <3>3
  <2> QED BY <2>2, <2>3
<1>11. d = c BY <1>6, <1>8, <1>9, <1>10, SeqEqual
<1> QED BY <1>1, <1>2, <1>3, <1>7, <1>11

(* Where a block may start.                                                  *)
Boundary(W) == {0} \cup Blanks(W)

(* A boundary is a place in what was sent.                                 *)
LEMMA BoundaryType ==
  ASSUME NEW W \in Seq(Symbol)
  PROVE  Boundary(W) \subseteq 0..Len(W) /\ Blanks(W) \subseteq 1..Len(W) /\ Len(W) \in Nat
<1>1. Blanks(W) \subseteq 1..Len(W) BY BlanksIs
<1>2. Len(W) \in Nat OBVIOUS
<1> QED BY <1>1, <1>2 DEF Boundary

(* Cut at such a place, the blank lines are where they were.                 *)
LEMMA Shift ==
  ASSUME NEW W \in Seq(Symbol), NEW F \in Seq(Sent), Laid(W, F),
         NEW q \in Boundary(W), NEW n \in Nat, q <= n, n <= Len(W),
         NEW b, b = Part(W, q, n)
  PROVE  /\ b \in Seq(Symbol) /\ Len(b) = n - q /\ q \in Nat
         /\ \A i \in 1..Len(b) : i \in Blanks(b) <=> q + i \in Blanks(W)
<1>1. q \in Nat /\ Len(W) \in Nat BY BoundaryType
<1>2. b \in Seq(Symbol) /\ Len(b) = n - q /\ \A i \in 1..(n - q) : b[i] = W[q + i]
  BY <1>1, Piece DEF Part
<1>3. ASSUME NEW i \in 1..(n - q) PROVE i \in Blanks(b) <=> q + i \in Blanks(W)
  <2>1. i \in Blanks(b) <=>
               /\ b[i].is = "lf"
               /\ \/ i > 1 /\ b[i - 1].is = "lf"
                  \/ i > 2 /\ b[i - 1].is = "cr" /\ b[i - 2].is = "lf"
    BY <1>2, BlanksIs
  <2>2. PICK j : j = q + i OBVIOUS
  <2>3. j \in 1..Len(W) /\ j \in Nat BY <1>1, <2>2
  <2>4. j \in Blanks(W) <=>
               /\ W[j].is = "lf"
               /\ \/ j > 1 /\ W[j - 1].is = "lf"
                  \/ j > 2 /\ W[j - 1].is = "cr" /\ W[j - 2].is = "lf"
    BY <2>3, BlanksIs
  <2>5. q # 0 => W[q + 1].is \in {"data", "comment"}
    <3>1. q + 1 \in DOMAIN W BY <1>1
    <3> QED BY <3>1 DEF Boundary, Laid
  <2>6. CASE i > 2
    <3>1. i - 1 \in 1..(n - q) /\ i - 2 \in 1..(n - q) /\ q + (i - 1) = j - 1 /\ q + (i - 2) = j - 2
      BY <1>1, <2>2, <2>6
    <3>2. b[i] = W[j] /\ b[i - 1] = W[j - 1] /\ b[i - 2] = W[j - 2] BY <1>2, <2>2, <3>1
    <3>3. j > 2 /\ j > 1 /\ i > 1 BY <1>1, <2>2, <2>6
    <3> QED BY <2>1, <2>2, <2>4, <2>6, <3>2, <3>3
  <2>7. CASE i = 2
    <3>1. 1 \in 1..(n - q) /\ j - 1 = q + 1 BY <1>1, <2>2, <2>7
    <3>2. b[i] = W[j] /\ b[i - 1] = W[q + 1] /\ W[j - 1] = W[q + 1] BY <1>2, <2>2, <2>7, <3>1
    <3>3. CASE q = 0 BY <2>1, <2>2, <2>4, <2>7, <3>2, <3>3
    <3>4. CASE q # 0 BY <2>1, <2>2, <2>4, <2>5, <2>7, <3>2, <3>4
    <3> QED BY <3>3, <3>4
  <2>8. CASE i = 1
    <3>1. ~(i > 1) /\ ~(i > 2) BY <2>8
    <3>2. i \notin Blanks(b) BY <2>1, <3>1
    <3>3. CASE q = 0 
      <4>1. j = 1 BY <2>2, <2>8, <3>3
      <4> QED BY <2>2, <2>4, <3>2, <4>1
    <3>4. CASE q # 0
      <4>1. W[j].is \in {"data", "comment"} BY <2>2, <2>5, <2>8, <3>4
      <4> QED BY <2>2, <2>4, <3>2, <4>1
    <3> QED BY <3>3, <3>4
  <2> QED BY <1>1, <2>6, <2>7, <2>8
<1> QED BY <1>1, <1>2, <1>3

-----------------------------------------------------------------------------
(* A block of what was sent: from a boundary to the next blank line or to    *)
(* the end.                                                                  *)
Block(W, s, p) ==
    /\ s \in Boundary(W) /\ p \in 1..Len(W) /\ s < p
    /\ p \in Blanks(W) \/ p = Len(W)
    /\ \A x \in Blanks(W) : x <= s \/ p <= x

(* Its data lines are those of the frame that ends where it ends.            *)
LEMMA DataOf ==
  ASSUME NEW W \in Seq(Symbol), NEW F \in Seq(Sent), Laid(W, F),
         NEW s, NEW p, Block(W, s, p),
         NEW n \in Nat, s < n, n <= p, W[n].is = "data"
  PROVE  \E k \in DOMAIN F : F[k].end = p /\ n \in {Begin(F[k]) + 1, Begin(F[k]) + 2}
<1>1. s \in Nat /\ p \in Nat /\ p <= Len(W) /\ Len(W) \in Nat BY BoundaryType DEF Block
<1>2. n \in DOMAIN W BY <1>1
<1>3. PICK k \in DOMAIN F : n \in {Begin(F[k]) + 1, Begin(F[k]) + 2} BY <1>2 DEF Laid
<1>4. /\ Begin(F[k]) \in Int /\ F[k].end \in Nat /\ Begin(F[k]) + 2 < F[k].end BY SentIs
<1>5. n < F[k].end /\ Begin(F[k]) < n BY <1>3, <1>4
<1>6. F[k].end <= Len(W) /\ (F[k].end \in Blanks(W) \/ F[k].end = Len(W)) BY DEF Laid
<1>7. p <= F[k].end
  <2>1. CASE F[k].end = Len(W) BY <1>1, <2>1
  <2>2. CASE F[k].end \in Blanks(W)
    <3>1. F[k].end <= s \/ p <= F[k].end BY <2>2 DEF Block
    <3> QED BY <1>1, <1>4, <1>5, <3>1
  <2> QED BY <1>6, <2>1, <2>2
<1>8. F[k].end <= p
  <2>1. CASE p = Len(W) BY <1>6, <2>1
  <2>2. CASE p \in Blanks(W)
    <3>1. p <= Begin(F[k]) \/ F[k].end <= p BY <2>2 DEF Laid
    <3> QED BY <1>1, <1>4, <1>5, <3>1
  <2> QED BY <2>1, <2>2 DEF Block
<1>9. F[k].end = p BY <1>1, <1>4, <1>7, <1>8
<1> QED BY <1>3, <1>9

(* Frames are apart from each other.                                       *)
LEMMA Apart ==
  ASSUME NEW W \in Seq(Symbol), NEW F \in Seq(Sent), Laid(W, F),
         NEW i \in DOMAIN F, NEW k \in DOMAIN F
  PROVE  /\ i < k => F[i].end <= Begin(F[k]) /\ F[i].end < F[k].end
         /\ F[i].end = F[k].end => i = k
<1>1. \A x, y \in DOMAIN F : x < y => F[x].end <= Begin(F[y]) /\ F[x].end < F[y].end
  <2> TAKE x, y \in DOMAIN F
  <2> HAVE x < y
  <2>1. F[x].end <= Begin(F[y]) BY DEF Laid
  <2>2. F[x].end \in Nat /\ F[y].end \in Nat /\ Begin(F[y]) \in Int /\ Begin(F[y]) + 2 < F[y].end
    BY SentIs
  <2> QED BY <2>1, <2>2
<1>2. i \in Nat /\ k \in Nat /\ F[i].end \in Nat /\ F[k].end \in Nat BY SentIs
<1>3. i < k \/ i = k \/ k < i BY <1>2
<1> QED BY <1>1, <1>2, <1>3

(* emit finds the event of the frame that ends with the block, if one does.*)
LEMMA BlockParsed ==
  ASSUME NEW W \in Seq(Symbol), NEW F \in Seq(Sent), Laid(W, F),
         NEW s, NEW p, Block(W, s, p)
  PROVE  /\ \A k \in DOMAIN F : F[k].end = p => Parsed(SubSeq(W, s + 1, p)) = <<F[k].event>>
         /\ (\A k \in DOMAIN F : F[k].end # p) => Parsed(SubSeq(W, s + 1, p)) = <<>>
<1>1. s \in Nat /\ p \in Nat /\ s < p /\ p <= Len(W) /\ Len(W) \in Nat BY BoundaryType DEF Block
<1>2. PICK b : b = SubSeq(W, s + 1, p) OBVIOUS
<1>3. b \in Seq(Symbol) /\ Len(b) = p - s /\ \A i \in 1..(p - s) : b[i] = W[s + i]
  BY <1>1, <1>2, Piece
<1>4. DOMAIN b = 1..(p - s) BY <1>3
<1>5. ASSUME NEW i \in DOMAIN b, b[i].is = "data"
      PROVE  \E k \in DOMAIN F : F[k].end = p /\ s + i \in {Begin(F[k]) + 1, Begin(F[k]) + 2}
  <2>1. W[s + i].is = "data" /\ s + i \in Nat /\ s < s + i /\ s + i <= p BY <1>1, <1>3, <1>4, <1>5
  <2> QED BY <2>1, DataOf
<1>6. ASSUME \A k \in DOMAIN F : F[k].end # p PROVE Parsed(b) = <<>>
  <2>1. \A i \in DOMAIN b : b[i].is # "data" BY <1>5, <1>6
  <2>2. \A e : Data(e, 1).is = "data" BY SymbolIs
  <2>3. \A e \in Messages : ~Carries(b, e) BY <2>1, <2>2 DEF Carries
  <2> QED BY <2>3 DEF Parsed
<1>7. ASSUME NEW k \in DOMAIN F, F[k].end = p PROVE Parsed(b) = <<F[k].event>>
  <2>1. /\ Begin(F[k]) \in Int /\ F[k].end \in Nat /\ Begin(F[k]) + 2 < F[k].end
        /\ F[k].event \in Messages
    BY SentIs
  <2>2. s <= Begin(F[k])
    <3>1. CASE s = 0 BY <3>1 DEF Laid
    <3>2. CASE s \in Blanks(W)
      <4>1. s <= Begin(F[k]) \/ F[k].end <= s BY <3>2 DEF Laid
      <4> QED BY <1>1, <1>7, <4>1
    <3> QED BY <3>1, <3>2 DEF Block, Boundary
  <2>3. PICK a : a = Begin(F[k]) - s OBVIOUS
  <2>4. a \in Nat /\ a + 1 \in 1..(p - s) /\ a + 2 \in 1..(p - s)
        /\ s + (a + 1) = Begin(F[k]) + 1 /\ s + (a + 2) = Begin(F[k]) + 2
    BY <1>1, <1>7, <2>1, <2>2, <2>3, SMTT(30)
  <2>5. b[a + 1] = Data(F[k].event, 1) /\ b[a + 2] = Data(F[k].event, 2)
    BY <1>3, <2>4 DEF Laid
  <2>6. ASSUME NEW i \in DOMAIN b, b[i].is = "data" PROVE i = a + 1 \/ i = a + 2
    <3>1. PICK l \in DOMAIN F : F[l].end = p /\ s + i \in {Begin(F[l]) + 1, Begin(F[l]) + 2}
      BY <1>5, <2>6
    <3>2. l = k BY <1>7, <3>1, Apart
    <3> QED BY <1>1, <1>4, <2>4, <3>1, <3>2
  <2>7. Carries(b, F[k].event)
    <3>1. a + 1 \in DOMAIN b /\ a + 2 \in DOMAIN b /\ a + 1 < a + 2 BY <1>4, <2>4
    <3>2. \A n \in DOMAIN b \ {a + 1, a + 2} : b[n].is # "data" BY <2>6
    <3> QED BY <2>5, <3>1, <3>2 DEF Carries
  <2>8. ASSUME NEW e \in Messages, Carries(b, e) PROVE e = F[k].event
    <3>1. PICK i \in DOMAIN b : b[i] = Data(e, 1) BY <2>8 DEF Carries
    <3>2. b[i].is = "data" /\ b[i].event = e BY <3>1, SymbolIs
    <3>3. b[i] = Data(F[k].event, 1) \/ b[i] = Data(F[k].event, 2) BY <2>5, <2>6, <3>2
    <3>4. b[i].event = F[k].event BY <3>3, SymbolIs
    <3> QED BY <3>2, <3>4
  <2>9. (CHOOSE e \in Messages : Carries(b, e)) = F[k].event BY <2>1, <2>7, <2>8
  <2> QED BY <2>1, <2>7, <2>9 DEF Parsed
<1> QED BY <1>2, <1>6, <1>7

-----------------------------------------------------------------------------
(* The events of the frames that end in a blank line up to a place.          *)
Carried(h, F, x) ==
    /\ Len(h) <= Len(F)
    /\ \A i \in 1..Len(h) : h[i] = F[i].event
    /\ \A i \in DOMAIN F : F[i].end <= x /\ ~Bare(F[i].event) <=> i <= Len(h)

(* The events of all frames.                                                 *)
Whole(h, F) ==
    /\ Len(h) = Len(F)
    /\ \A i \in DOMAIN F : h[i] = F[i].event

(* Between two blank lines nothing is carried.                             *)
LEMMA CarriedTo ==
  ASSUME NEW W \in Seq(Symbol), NEW F \in Seq(Sent), Laid(W, F), NEW h,
         NEW x \in Nat, NEW y \in Nat, \A z \in Blanks(W) : (z <= x <=> z <= y)
  PROVE  Carried(h, F, x) <=> Carried(h, F, y)
<1>1. \A i \in DOMAIN F : F[i].end <= x /\ ~Bare(F[i].event) <=> F[i].end <= y /\ ~Bare(F[i].event)
  BY DEF Laid
<1> QED BY <1>1 DEF Carried

(* A block that ended adds the event of its frame, if it has one.          *)
LEMMA CarriedBlock ==
  ASSUME NEW W \in Seq(Symbol), NEW F \in Seq(Sent), Laid(W, F),
         NEW h \in Seq(Messages), NEW s, NEW p, Block(W, s, p), p \in Blanks(W),
         NEW y \in Nat, p = y + 1, Carried(h, F, y)
  PROVE  Carried(h \o Parsed(SubSeq(W, s + 1, p)), F, p)
<1>1. PICK e : e = Parsed(SubSeq(W, s + 1, p)) OBVIOUS
<1>2. /\ \A k \in DOMAIN F : F[k].end = p => e = <<F[k].event>>
      /\ (\A k \in DOMAIN F : F[k].end # p) => e = <<>>
  BY <1>1, BlockParsed
<1>3. p \in Nat /\ p <= Len(W) /\ Len(W) \in Nat BY BoundaryType DEF Block
<1>4. Len(h) \in Nat /\ Len(F) \in Nat /\ DOMAIN F = 1..Len(F) OBVIOUS
<1>5. CASE \A k \in DOMAIN F : F[k].end # p
  <2>1. h \o e = h BY <1>2, <1>5, ConcatEmptySeq
  <2>2. ASSUME NEW k \in DOMAIN F PROVE F[k].end <= p <=> F[k].end <= y
    <3>1. F[k].end \in Nat /\ F[k].end # p BY <1>5, SentIs
    <3> QED BY <1>3, <3>1
  <2>3. Carried(h, F, p) BY <2>2 DEF Carried
  <2> QED BY <1>1, <2>1, <2>3
<1>6. ASSUME NEW k \in DOMAIN F, F[k].end = p PROVE Carried(h \o e, F, p)
  <2>1. e = <<F[k].event>> /\ F[k].event \in Messages BY <1>2, <1>6, SentIs
  <2>2. k \in 1..Len(F) /\ ~Bare(F[k].event) BY <1>4, <1>6 DEF Laid
  <2>3. ~(k <= Len(h))
    <3>1. ~(p <= y) BY <1>3
    <3> QED BY <1>6, <3>1 DEF Carried
  <2>4. ASSUME Len(h) + 1 < k PROVE FALSE
    <3>1. Len(h) + 1 \in DOMAIN F BY <1>4, <2>2, <2>4
    <3>2. PICK l \in DOMAIN F : l = Len(h) + 1 BY <3>1
    <3>3. F[l].end < p /\ F[l].end \in Nat BY <1>6, <2>4, <3>2, Apart, SentIs
    <3>4. ~Bare(F[l].event)
      <4>1. F[l].end # Len(W) BY <1>3, <3>3
      <4> QED BY <4>1 DEF Laid
    <3>5. F[l].end <= y BY <1>3, <3>3
    <3>6. l <= Len(h) BY <3>4, <3>5 DEF Carried
    <3> QED BY <1>4, <3>2, <3>6
  <2>5. k = Len(h) + 1 BY <1>4, <2>2, <2>3, <2>4
  <2>6. PICK g : g = h \o e OBVIOUS
  <2>7. Len(g) = k /\ g[k] = F[k].event /\ \A i \in 1..Len(h) : g[i] = h[i]
    BY <1>4, <2>1, <2>5, <2>6
  <2>8. \A i \in 1..Len(g) : g[i] = F[i].event
    <3> TAKE i \in 1..Len(g)
    <3>1. i \in 1..Len(h) \/ i = k BY <1>4, <2>5, <2>7
    <3> QED BY <2>7, <3>1 DEF Carried
  <2>9. ASSUME NEW i \in DOMAIN F PROVE F[i].end <= p /\ ~Bare(F[i].event) <=> i <= k
    <3>0. i \in Nat /\ k \in Nat /\ F[i].end \in Nat BY SentIs
    <3>1. CASE i = k BY <1>3, <1>6, <2>2, <3>0, <3>1
    <3>2. CASE i < k
      <4>1. i <= Len(h) BY <1>4, <2>5, <3>0, <3>2
      <4>2. F[i].end <= y /\ ~Bare(F[i].event) BY <4>1 DEF Carried
      <4> QED BY <1>3, <3>0, <3>2, <4>2
    <3>3. CASE k < i
      <4>1. p < F[i].end BY <1>6, <3>3, Apart
      <4> QED BY <1>3, <3>0, <3>3, <4>1
    <3> QED BY <3>0, <3>1, <3>2, <3>3
  <2>10. Len(g) <= Len(F) BY <1>4, <2>2, <2>7
  <2>11. Carried(g, F, p) BY <2>7, <2>8, <2>9, <2>10 DEF Carried
  <2> QED BY <2>6, <2>11
<1> QED BY <1>1, <1>5, <1>6

-----------------------------------------------------------------------------

(* A step of the provers: concatenation, once.                             *)
LEMMA Associate ==
  ASSUME NEW h \in Seq(Messages), NEW x \in Seq(Messages), NEW e \in Seq(Messages)
  PROVE  h \o (x \o e) = (h \o x) \o e
BY ConcatAssociative

(* The buffer as a piece of what was sent, and a place in it.              *)
Cut(b, W, q, n) == b = Part(W, q, n)
At(i, k, q, s, p) == i = s - q + 1 /\ k = p - q

(* A piece of the buffer is a piece of what was sent.                      *)
LEMMA PartOfPart ==
  ASSUME NEW W \in Seq(Symbol), NEW q \in Nat, NEW s \in Nat, NEW p \in Nat, NEW n \in Nat,
         q <= s, s <= p, p <= n, n <= Len(W), NEW b, Cut(b, W, q, n),
         NEW i, NEW k, At(i, k, q, s, p)
  PROVE  SubSeq(b, i, k) = Part(W, s, p)
BY PieceOfPiece DEF Part, Cut, At

(* What the parser makes of a piece that starts where a block starts.        *)
LEMMA StartIs ==
  ASSUME NEW W \in Seq(Symbol), NEW F \in Seq(Sent), Laid(W, F),
         NEW q \in Boundary(W), NEW n \in Nat, q <= n, n <= Len(W),
         NEW b, Cut(b, W, q, n),
         NEW i \in 1..(Len(b) + 1)
  PROVE  \E s \in Boundary(W) :
            /\ q <= s /\ s < q + i /\ BlockStart(Blanks(b), i) = s - q + 1
            /\ \A x \in Blanks(W) : x <= s \/ q + i <= x
<1>1. /\ b \in Seq(Symbol) /\ Len(b) = n - q /\ q \in Nat
      /\ \A k \in 1..Len(b) : k \in Blanks(b) <=> q + k \in Blanks(W)
  BY Shift DEF Cut
<1>2. Blanks(b) \subseteq 1..Len(b) /\ Len(b) \in Nat BY <1>1, BoundaryType
<1> DEFINE S == {0} \cup {k \in Blanks(b) : k < i}
<1>3. PICK M : M = Max(S) OBVIOUS
<1>4. M \in S /\ \A x \in S : x <= M
  <2>1. 0 \in S OBVIOUS
  <2>2. S \subseteq 0..Len(b) BY <1>2
  <2> HIDE DEF S
  <2> QED BY <1>2, <1>3, <2>1, <2>2, Greatest
<1>5. BlockStart(Blanks(b), i) = M + 1 BY <1>3 DEF BlockStart
<1>6. M \in 0..Len(b) /\ M < i BY <1>2, <1>4
<1>7. q + M \in Boundary(W)
  <2>1. CASE M = 0 BY <1>1, <2>1
  <2>2. CASE M \in Blanks(b)
    <3>1. M \in 1..Len(b) BY <1>2, <2>2
    <3> QED BY <1>1, <2>2, <3>1 DEF Boundary
  <2> QED BY <1>4, <2>1, <2>2
<1>8. ASSUME NEW x \in Blanks(W) PROVE x <= q + M \/ q + i <= x
  <2>1. x \in Nat BY BoundaryType
  <2> SUFFICES ASSUME q < x, x < q + i PROVE x <= q + M BY <1>1, <1>2, <1>6, <2>1
  <2>2. x - q \in 1..Len(b) /\ q + (x - q) = x /\ x - q < i BY <1>1, <1>2, <2>1
  <2>3. x - q \in Blanks(b) BY <1>1, <2>2
  <2>4. x - q \in S BY <2>2, <2>3
  <2>5. x - q <= M BY <1>4, <2>4
  <2> QED BY <1>1, <1>6, <2>1, <2>5
<1>9. q <= q + M /\ q + M < q + i /\ M + 1 = (q + M) - q + 1 BY <1>1, <1>2, <1>6
<1> QED BY <1>5, <1>7, <1>8, <1>9

(* Position by position: what drain has handed over is what is carried.    *)
LEMMA EmittedIs ==
  ASSUME NEW W \in Seq(Symbol), NEW F \in Seq(Sent), Laid(W, F),
         NEW q \in Boundary(W), NEW n \in Nat, q <= n, n <= Len(W),
         NEW b, Cut(b, W, q, n),
         NEW h \in Seq(Messages), Carried(h, F, q)
  PROVE  Carried(h \o Emitted(b, Blanks(b))[Len(b)], F, n)
<1>1. /\ b \in Seq(Symbol) /\ Len(b) = n - q /\ q \in Nat
      /\ \A k \in 1..Len(b) : k \in Blanks(b) <=> q + k \in Blanks(W)
  BY Shift DEF Cut
<1>2. Len(b) \in Nat /\ Len(W) \in Nat BY <1>1, BoundaryType
<1> DEFINE E == Emitted(b, Blanks(b))
<1>3. /\ E \in [0..Len(b) -> Seq(Messages)] /\ E[0] = <<>>
      /\ \A i \in 1..Len(b) : E[i] = E[i - 1] \o
            (IF i \in Blanks(b) THEN Parsed(SubSeq(b, BlockStart(Blanks(b), i), i)) ELSE <<>>)
  BY <1>2, EmittedDef, Zenon
<1> HIDE DEF E
<1> DEFINE T == {i \in Nat : i <= Len(b) => Carried(h \o E[i], F, q + i)}
<1>4. 0 \in T
  <2>1. h \o E[0] = h BY <1>3, ConcatEmptySeq
  <2>2. q + 0 = q BY <1>1
  <2> QED BY <2>1, <2>2
<1>5. ASSUME NEW i \in Nat, i \in T PROVE i + 1 \in T
  <2> SUFFICES ASSUME i + 1 <= Len(b) PROVE Carried(h \o E[i + 1], F, q + (i + 1)) OBVIOUS
  <2>1. PICK g \in Seq(Messages) : g = h \o E[i]
    <3>1. i \in 0..Len(b) BY <1>2
    <3>2. E[i] \in Seq(Messages) BY <1>3, <3>1
    <3>3. h \o E[i] \in Seq(Messages) BY <3>2, ConcatProperties
    <3> QED BY <3>3
  <2>2. Carried(g, F, q + i)
    <3>1. i <= Len(b) BY <1>2
    <3> QED BY <1>5, <2>1, <3>1
  <2>3. i + 1 \in 1..Len(b) /\ (i + 1) - 1 = i BY <1>2
  <2>4. PICK p : p = q + (i + 1) OBVIOUS
  <2>5. p \in Nat /\ p = (q + i) + 1 /\ q + i \in Nat /\ p <= n /\ p <= Len(W) BY <1>1, <1>2, <2>4
  <2>6. i + 1 \in Blanks(b) <=> p \in Blanks(W) BY <1>1, <2>3, <2>4
  <2>7. CASE p \notin Blanks(W)
    <3>1. E[i + 1] = E[i] \o <<>> BY <1>3, <2>3, <2>6, <2>7
    <3>2. E[i + 1] = E[i]
      <4>1. i \in 0..Len(b) BY <1>2
      <4>2. E[i] \in Seq(Messages) BY <1>3, <4>1
      <4> QED BY <3>1, <4>2, ConcatEmptySeq
    <3>3. \A z \in Blanks(W) : z <= q + i <=> z <= p
      <4> TAKE z \in Blanks(W)
      <4>1. z \in Nat /\ z # p BY <2>7, BoundaryType
      <4> QED BY <2>5, <4>1
    <3>4. Carried(g, F, p) BY <2>2, <2>5, <3>3, CarriedTo
    <3> QED BY <2>1, <2>4, <3>2, <3>4
  <2>8. CASE p \in Blanks(W)
    <3>1. i + 1 \in 1..(Len(b) + 1) BY <1>2
    <3>2. PICK s \in Boundary(W) :
            /\ q <= s /\ s < q + (i + 1) /\ BlockStart(Blanks(b), i + 1) = s - q + 1
            /\ \A x \in Blanks(W) : x <= s \/ q + (i + 1) <= x
      BY <3>1, StartIs
    <3>3. s \in Nat BY BoundaryType
    <3>4. Block(W, s, p) BY <2>4, <2>8, <3>2, BoundaryType DEF Block
    <3>5. i + 1 = p - q BY <1>1, <2>4
    <3>6. SubSeq(b, BlockStart(Blanks(b), i + 1), i + 1) = Part(W, s, p)
      <4>1. PICK k : k = i + 1 OBVIOUS
      <4>2. PICK j : j = BlockStart(Blanks(b), i + 1) OBVIOUS
      <4>3. At(j, k, q, s, p) BY <3>2, <3>5, <4>1, <4>2 DEF At
      <4>4. q \in Nat /\ s \in Nat /\ p \in Nat /\ q <= s /\ s <= p /\ p <= n
        BY <1>1, <2>4, <2>5, <3>2, <3>3
      <4>5. SubSeq(b, j, k) = Part(W, s, p) BY <4>3, <4>4, PartOfPart
      <4> QED BY <4>1, <4>2, <4>5
    <3>7. PICK e : e = Parsed(Part(W, s, p)) OBVIOUS
    <3>8. E[i + 1] = E[i] \o e
      <4>1. E[i + 1] = E[i] \o Parsed(SubSeq(b, BlockStart(Blanks(b), i + 1), i + 1))
        BY <1>3, <2>3, <2>6, <2>8
      <4> QED BY <3>6, <3>7, <4>1
    <3>9. Carried(g \o e, F, p) BY <2>2, <2>5, <2>8, <3>4, <3>7, CarriedBlock DEF Part
    <3>10. h \o E[i + 1] = g \o e
      <4>1. i \in 0..Len(b) BY <1>2
      <4>2. E[i] \in Seq(Messages) BY <1>3, <4>1
      <4>3. e \in Seq(Messages) BY <3>7, ParsedType
      <4>4. PICK x \in Seq(Messages) : x = E[i] BY <4>2
      <4>5. h \o (x \o e) = (h \o x) \o e BY <4>3, Associate, ZenonT(30)
      <4> QED BY <2>1, <3>8, <4>4, <4>5
    <3> QED BY <2>4, <3>9, <3>10
  <2> QED BY <2>7, <2>8
<1>6. Nat \subseteq T
  <2> HIDE DEF T
  <2> QED BY <1>4, <1>5, Induct
<1>7. q + Len(b) = n BY <1>1
<1> QED BY <1>2, <1>6, <1>7 DEF E

(* ... and what it leaves.                                                   *)
LEMMA DrainIs ==
  ASSUME NEW W \in Seq(Symbol), NEW F \in Seq(Sent), Laid(W, F),
         NEW q \in Boundary(W), NEW n \in Nat, q <= n, n <= Len(W),
         NEW b, Cut(b, W, q, n),
         NEW h \in Seq(Messages), Carried(h, F, q)
  PROVE  /\ Carried(h \o Drain(b).events, F, n)
         /\ \E s \in Boundary(W) :
               /\ s <= n /\ \A x \in Blanks(W) : x <= s \/ n < x
               /\ Drain(b).rest = Part(W, s, n)
<1>1. Carried(h \o Emitted(b, Blanks(b))[Len(b)], F, n) BY EmittedIs
<1>2. b \in Seq(Symbol) /\ Len(b) = n - q /\ q \in Nat /\ Len(b) \in Nat /\ Len(W) \in Nat
  BY Shift, BoundaryType DEF Cut
<1>3. Len(b) + 1 \in 1..(Len(b) + 1) BY <1>2
<1>4. PICK s \in Boundary(W) :
            /\ q <= s /\ s < q + (Len(b) + 1) /\ BlockStart(Blanks(b), Len(b) + 1) = s - q + 1
            /\ \A x \in Blanks(W) : x <= s \/ q + (Len(b) + 1) <= x
  BY <1>3, StartIs
<1>5. s \in Nat BY BoundaryType
<1>6. q + (Len(b) + 1) = n + 1 /\ s <= n BY <1>2, <1>4, <1>5
<1>7. ASSUME NEW x \in Blanks(W) PROVE x <= s \/ n < x
  <2>1. x \in Nat BY BoundaryType
  <2>2. x <= s \/ n + 1 <= x BY <1>4, <1>6
  <2> QED BY <2>1, <2>2
<1>8. SubSeq(b, BlockStart(Blanks(b), Len(b) + 1), Len(b)) = Part(W, s, n)
  <2>1. PICK k : k = Len(b) OBVIOUS
  <2>2. PICK j : j = BlockStart(Blanks(b), Len(b) + 1) OBVIOUS
  <2>3. At(j, k, q, s, n) BY <1>2, <1>4, <2>1, <2>2 DEF At
  <2>4. q \in Nat /\ s \in Nat /\ q <= s /\ s <= n /\ n <= n BY <1>2, <1>4, <1>5, <1>6
  <2>5. SubSeq(b, j, k) = Part(W, s, n) BY <2>3, <2>4, PartOfPart
  <2> QED BY <2>1, <2>2, <2>5
<1> QED BY <1>1, <1>4, <1>6, <1>7, <1>8 DEF Drain, DrainAt

(* What is left at the end of the stream is the last frame or nothing.       *)
LEMMA FlushIs ==
  ASSUME NEW W \in Seq(Symbol), NEW F \in Seq(Sent), Laid(W, F),
         NEW s \in Boundary(W), s <= Len(W), \A x \in Blanks(W) : x <= s \/ Len(W) < x,
         NEW b, b = Part(W, s, Len(W)),
         NEW h \in Seq(Messages), Carried(h, F, Len(W))
  PROVE  Whole(h \o Flush(b), F)
<1>1. s \in Nat /\ Len(W) \in Nat BY BoundaryType
<1>2. Len(h) \in Nat /\ Len(F) \in Nat /\ DOMAIN F = 1..Len(F) /\ Len(h) <= Len(F) BY DEF Carried
<1>3. ASSUME NEW x \in Blanks(W) PROVE x <= s
  <2>1. x \in 1..Len(W) BY BoundaryType
  <2> QED BY <1>1, <2>1
<1>4. ASSUME NEW k \in DOMAIN F, Bare(F[k].event)
      PROVE  Flush(b) = <<F[k].event>> /\ k = Len(F) /\ Len(h) = k - 1
  <2>1. F[k].end = Len(W) /\ F[k].end \notin Blanks(W) BY <1>4 DEF Laid
  <2>2. F[k].end \in Nat /\ Begin(F[k]) \in Int /\ 0 <= Begin(F[k]) /\ Begin(F[k]) + 2 < F[k].end
    BY SentIs DEF Laid
  <2>3. s # Len(W) BY <2>1, <2>2 DEF Boundary
  <2>4. Block(W, s, Len(W))
    <3>1. Len(W) \in 1..Len(W) /\ s < Len(W) BY <1>1, <2>3
    <3> QED BY <1>3, <3>1 DEF Block
  <2>5. Flush(b) = <<F[k].event>> BY <2>1, <2>4, BlockParsed DEF Flush, Part
  <2>6. ASSUME NEW i \in DOMAIN F, i # k PROVE i < k /\ ~Bare(F[i].event) /\ F[i].end <= Len(W)
    <3>1. F[i].end <= Len(W) /\ F[i].end \in Nat BY SentIs DEF Laid
    <3>2. F[i].end # Len(W) BY <2>1, <2>6, Apart
    <3>3. ~(k < i) BY <1>1, <2>1, <3>1, Apart
    <3>4. ~Bare(F[i].event) BY <3>2 DEF Laid
    <3> QED BY <1>2, <2>6, <3>1, <3>3, <3>4
  <2>7. k = Len(F)
    <3>1. k \in 1..Len(F) /\ Len(F) \in DOMAIN F BY <1>2
    <3>2. Len(F) # k => Len(F) < k BY <2>6, <3>1
    <3> QED BY <1>2, <3>1, <3>2
  <2>8. ~(k <= Len(h)) BY <1>4 DEF Carried
  <2>9. k - 1 <= Len(h)
    <3>1. CASE k = 1 BY <1>2, <3>1
    <3>2. CASE k # 1
      <4>1. k - 1 \in DOMAIN F /\ k - 1 # k BY <1>2, <3>2
      <4>2. ~Bare(F[k - 1].event) /\ F[k - 1].end <= Len(W) BY <2>6, <4>1
      <4> QED BY <4>1, <4>2 DEF Carried
    <3> QED BY <3>1, <3>2
  <2>10. k \in Nat BY <1>2
  <2>11. Len(h) = k - 1 BY <1>2, <2>8, <2>9, <2>10
  <2> QED BY <2>5, <2>7, <2>11
<1>5. ASSUME \A k \in DOMAIN F : ~Bare(F[k].event) PROVE Flush(b) = <<>> /\ Len(h) = Len(F)
  <2>1. \A k \in DOMAIN F : F[k].end \in Blanks(W) /\ F[k].end <= Len(W) BY <1>5 DEF Laid
  <2>2. \A k \in DOMAIN F : k <= Len(h) BY <1>5, <2>1 DEF Carried
  <2>3. Len(h) = Len(F)
    <3>1. CASE Len(F) = 0 BY <1>2, <3>1
    <3>2. CASE Len(F) # 0
      <4>1. Len(F) \in DOMAIN F BY <1>2, <3>2
      <4> QED BY <1>2, <2>2, <4>1
    <3> QED BY <3>1, <3>2
  <2>4. CASE s = Len(W)
    <3>1. b = <<>>
      <4>1. Len(W) < s + 1 /\ s + 1 \in Int /\ Len(W) \in Int BY <1>1, <2>4
      <4> QED BY <4>1, SubSeqEmpty DEF Part
    <3>2. DOMAIN <<>> = {} OBVIOUS
    <3>3. \A e : ~Carries(b, e) BY <3>1, <3>2 DEF Carries
    <3> QED BY <2>3, <3>3 DEF Flush, Parsed
  <2>5. CASE s # Len(W)
    <3>1. Block(W, s, Len(W))
      <4>1. Len(W) \in 1..Len(W) /\ s < Len(W) BY <1>1, <2>5
      <4> QED BY <1>3, <4>1 DEF Block
    <3>2. \A k \in DOMAIN F : F[k].end # Len(W) BY <1>1, <1>3, <2>1, <2>5
    <3> QED BY <2>3, <3>1, <3>2, BlockParsed DEF Flush, Part
  <2> QED BY <2>4, <2>5
<1>6. CASE \A k \in DOMAIN F : ~Bare(F[k].event)
  <2>1. h \o Flush(b) = h BY <1>5, <1>6, ConcatEmptySeq
  <2> QED BY <1>2, <1>5, <1>6, <2>1 DEF Carried, Whole
<1>7. ASSUME NEW k \in DOMAIN F, Bare(F[k].event) PROVE Whole(h \o Flush(b), F)
  <2>1. PICK e : e = F[k].event OBVIOUS
  <2>2. Flush(b) = <<e>> /\ k = Len(F) /\ Len(h) = k - 1 /\ e \in Messages
    BY <1>4, <1>7, <2>1, SentIs
  <2>3. PICK g : g = h \o <<e>> OBVIOUS
  <2>4. Len(g) = k /\ g[k] = e /\ \A i \in 1..Len(h) : g[i] = h[i]
    <3>1. k \in Nat /\ k = Len(h) + 1 BY <1>2, <2>2
    <3>2. e \in Messages BY <2>2
    <3> QED BY <1>2, <2>3, <3>1, <3>2
  <2>5. ASSUME NEW i \in DOMAIN F PROVE g[i] = F[i].event
    <3>1. i \in 1..Len(h) \/ i = k BY <1>2, <2>2
    <3> QED BY <2>1, <2>4, <3>1 DEF Carried
  <2> QED BY <2>2, <2>3, <2>4, <2>5 DEF Whole
<1> QED BY <1>6, <1>7

-----------------------------------------------------------------------------
(* What is in the buffer starts where a block starts, and no blank line ends *)
(* in it.                                                                    *)
Kept(W, t, b) ==
    \E s \in Boundary(W) :
        /\ s <= t /\ \A x \in Blanks(W) : x <= s \/ t < x
        /\ b = Part(W, s, t)

(* The stream was read to its end.                                         *)
Closing(r) == reader[r] = "over" /\ stream[r] = "ended"

(* What a reader has: before the end, the buffer holds the block that has  *)
(* not ended and `handled` the events of the frames that did; at the end,  *)
(* `handled` is all that was sent.                                         *)
Reading(r) ==
    /\ taken[r] <= Len(wire[r])
    /\ reader[r] # "reading" => buffer[r] = <<>>
    /\ reader[r] \in {"none", "asking"} => taken[r] = 0 /\ handled[r] = <<>>
    /\ reader[r] = "reading" => Kept(wire[r], taken[r], buffer[r])
    /\ ~Closing(r) => Carried(handled[r], frames[r], taken[r])
    /\ Closing(r) => taken[r] = Len(wire[r]) /\ Whole(handled[r], frames[r])

(* The parser's invariant.                                                 *)
ReadInv == LayoutInv /\ \A r \in Starts : Reading(r)

(* What is carried depends on the style, too.                              *)
LEMMA SameCarried ==
  ASSUME NEW q \in Starts, style' = style, Carried(handled'[q], frames'[q], taken'[q])
  PROVE  Carried(handled[q], frames[q], taken[q])'
BY DEF Carried, Bare

(* A download of which nothing changes is read as before.                  *)
LEMMA SameReading ==
  ASSUME NEW q \in Starts, Same(q), style' = style, Reading(q)
  PROVE  Reading(q)'
<1>1. ~Closing(q)' => Carried(handled[q], frames[q], taken[q])'
  BY SameCarried DEF Same, Reading, Closing
<1>2. Closing(q)' => (taken[q] = Len(wire[q]) /\ Whole(handled[q], frames[q]))'
  BY DEF Same, Reading, Closing, Whole
<1>3. /\ taken'[q] <= Len(wire'[q])
      /\ reader'[q] # "reading" => buffer'[q] = <<>>
      /\ reader'[q] \in {"none", "asking"} => taken'[q] = 0 /\ handled'[q] = <<>>
      /\ reader'[q] = "reading" => Kept(wire'[q], taken'[q], buffer'[q])
  BY DEF Same, Reading
<1> QED BY <1>1, <1>2, <1>3 DEF Reading, Kept

(* What is sent next comes after what was read.                              *)
LEMMA KeptGrows ==
  ASSUME NEW W \in Seq(Symbol), NEW C \in Seq(Symbol), NEW D \in Seq(Symbol), Extends(D, W, C),
         NEW t \in Nat, t <= Len(W), NEW b, Kept(W, t, b)
  PROVE  Kept(D, t, b) /\ t <= Len(D)
<1>1. PICK s \in Boundary(W) :
            /\ s <= t /\ \A x \in Blanks(W) : x <= s \/ t < x
            /\ b = Part(W, s, t)
  BY DEF Kept
<1>2. s \in Nat /\ Len(W) \in Nat /\ Len(C) \in Nat /\ Len(D) = Len(W) + Len(C)
  BY BoundaryType DEF Extends
<1>3. s \in Boundary(D)
  <2>1. CASE s = 0 BY <2>1 DEF Boundary
  <2>2. CASE s \in Blanks(W)
    <3>1. s \in 1..Len(W) BY <2>2, BoundaryType
    <3> QED BY <2>2, <3>1 DEF Boundary, Extends
  <2> QED BY <1>1, <2>1, <2>2 DEF Boundary
<1>4. ASSUME NEW x \in Blanks(D) PROVE x <= s \/ t < x
  <2>1. x \in 1..Len(D) BY BoundaryType
  <2>2. CASE x \in 1..Len(W) BY <1>1, <2>2 DEF Extends
  <2>3. CASE x \notin 1..Len(W) BY <1>2, <2>1, <2>3
  <2> QED BY <2>2, <2>3
<1>5. PICK c : c = SubSeq(W, s + 1, t) OBVIOUS
<1>6. PICK d : d = SubSeq(D, s + 1, t) OBVIOUS
<1>7. c \in Seq(Symbol) /\ Len(c) = t - s /\ \A i \in 1..(t - s) : c[i] = W[s + i]
  BY <1>1, <1>2, <1>5, Piece
<1>8. d \in Seq(Symbol) /\ Len(d) = t - s /\ \A i \in 1..(t - s) : d[i] = D[s + i]
  <2>1. t <= Len(D) BY <1>2
  <2> QED BY <1>1, <1>2, <1>6, <2>1, Piece
<1>9. ASSUME NEW i \in 1..(t - s) PROVE c[i] = d[i]
  <2>1. s + i \in 1..Len(W) BY <1>2
  <2>2. D[s + i] = W[s + i] BY <2>1 DEF Extends
  <2> QED BY <1>7, <1>8, <2>2
<1>10. c = d BY <1>7, <1>8, <1>9, SeqEqual
<1>11. b = Part(D, s, t) BY <1>1, <1>5, <1>6, <1>10 DEF Part
<1> QED BY <1>1, <1>2, <1>3, <1>4, <1>11 DEF Kept

(* A frame that was not read yet carries nothing.                          *)
LEMMA CarriedMore ==
  ASSUME NEW F \in Seq(Sent), NEW h \in Seq(Messages), NEW t \in Nat, Carried(h, F, t),
         NEW f \in Sent, t < f.end
  PROVE  Carried(h, Append(F, f), t)
<1> DEFINE G == Append(F, f)
<1>1. Len(G) = Len(F) + 1 /\ DOMAIN G = 1..(Len(F) + 1) /\ Len(F) \in Nat /\ Len(h) \in Nat
  OBVIOUS
<1>2. (\A i \in 1..Len(F) : G[i] = F[i]) /\ G[Len(F) + 1] = f OBVIOUS
<1>3. DOMAIN F = 1..Len(F) OBVIOUS
<1> HIDE DEF G
<1>4. Len(h) <= Len(F) BY DEF Carried
<1>5. Len(h) <= Len(G) BY <1>1, <1>4
<1>6. \A i \in 1..Len(h) : h[i] = G[i].event
  <2> TAKE i \in 1..Len(h)
  <2>1. i \in 1..Len(F) BY <1>1, <1>4
  <2> QED BY <1>2, <2>1 DEF Carried
<1>7. ASSUME NEW i \in DOMAIN G PROVE G[i].end <= t /\ ~Bare(G[i].event) <=> i <= Len(h)
  <2>1. CASE i \in 1..Len(F) BY <1>2, <1>3, <2>1 DEF Carried
  <2>2. CASE i = Len(F) + 1
    <3>1. ~(i <= Len(h)) BY <1>1, <1>4, <2>2
    <3>2. f.end \in Nat BY DEF Sent
    <3>3. ~(G[i].end <= t) BY <1>2, <2>2, <3>2
    <3> QED BY <3>1, <3>3
  <2> QED BY <1>1, <2>1, <2>2
<1> QED BY <1>5, <1>6, <1>7 DEF Carried, G

(* The invariants of one download.                                         *)
LEMMA ReadTypes ==
  ASSUME ReadInv, NEW r \in Starts
  PROVE  /\ Types /\ LayoutInv /\ Reading(r) /\ Laid(wire[r], frames[r])
         /\ Counted(r) /\ Begun(r) /\ Ordered(r)
         /\ wire[r] \in Seq(Symbol) /\ frames[r] \in Seq(Sent)
         /\ handled[r] \in Seq(Messages) /\ buffer[r] \in Seq(Symbol)
         /\ taken[r] \in Nat /\ Len(wire[r]) \in Nat
<1>1. Types /\ LayoutInv /\ Reading(r) /\ Laid(wire[r], frames[r])
      /\ Counted(r) /\ Begun(r) /\ Ordered(r)
  BY DEF ReadInv, LayoutInv, CourseInv
<1>2. wire[r] \in Seq(Symbol) /\ frames[r] \in Seq(Sent) BY <1>1, SentTypes
<1>3. handled[r] \in Seq(Messages) /\ buffer[r] \in Seq(Symbol) /\ taken[r] \in Nat
  BY <1>1 DEF Types, ClientTypes
<1> QED BY <1>1, <1>2, <1>3

(* A chunk is parsed.                                                        *)
LEMMA ReadReading ==
  ASSUME ReadInv, NEW r \in Starts, Read(r)
  PROVE  Reading(r)'
<1> DEFINE W == wire[r]
           F == frames[r]
           h == handled[r]
           t == taken[r]
<1>1. /\ W \in Seq(Symbol) /\ F \in Seq(Sent) /\ Laid(W, F) /\ h \in Seq(Messages)
      /\ t \in Nat /\ Len(W) \in Nat /\ t <= Len(W) /\ Reading(r)
  BY ReadTypes DEF Reading
<1>2. /\ reader[r] = "reading" /\ reader' = reader
      /\ style' = style /\ wire' = wire /\ frames' = frames /\ stream' = stream
  BY DEF Read, downloadVars
<1>3. PICK n \in (t + 1)..Len(W) : Takes(r, n) BY ReadTakes
<1>4. PICK s \in Boundary(W) :
            /\ s <= t /\ \A x \in Blanks(W) : x <= s \/ t < x
            /\ buffer[r] = Part(W, s, t)
  BY <1>1, <1>2 DEF Reading, Kept
<1>5. Carried(h, F, t) BY <1>1, <1>2 DEF Reading, Closing
<1>6. PICK b : b = buffer[r] \o SubSeq(W, t + 1, n) OBVIOUS
<1>7. PICK d : d = Drain(b) OBVIOUS
<1>8. /\ taken'[r] = n /\ buffer'[r] = d.rest /\ handled'[r] = h \o d.events
  <2>1. /\ taken' = [taken EXCEPT ![r] = n]
        /\ buffer' = [buffer EXCEPT ![r] = d.rest]
        /\ handled' = [handled EXCEPT ![r] = @ \o d.events]
    BY <1>3, <1>6, <1>7 DEF Takes
  <2>2. taken \in [Starts -> Nat] /\ buffer \in [Starts -> Seq(Symbol)]
        /\ handled \in [Starts -> Seq(Messages)]
    BY ReadTypes DEF Types, ClientTypes
  <2> QED BY <2>1, <2>2
<1>9. buffer[r] = SubSeq(W, s + 1, t) BY <1>4 DEF Part
<1> HIDE DEF W, F, h, t
<1>10. s \in Nat /\ n \in Nat /\ t <= n /\ n <= Len(W) /\ s <= n
  BY <1>1, <1>3, <1>4, BoundaryType
<1>11. Cut(b, W, s, n)
  <2>1. s <= t BY <1>4
  <2>2. SubSeq(W, s + 1, t) \o SubSeq(W, t + 1, n) = SubSeq(W, s + 1, n)
    BY <1>1, <1>10, <2>1, PieceJoin
  <2>3. b = SubSeq(W, s + 1, n) BY <1>6, <1>9, <2>2
  <2> QED BY <2>3 DEF Cut, Part
<1>12. Carried(h, F, s)
  <2>1. \A x \in Blanks(W) : x <= t <=> x <= s
    <3> TAKE x \in Blanks(W)
    <3>1. x \in Nat BY <1>1, BoundaryType
    <3> QED BY <1>1, <1>4, <1>10, <3>1
  <2> QED BY <1>1, <1>5, <1>10, <2>1, CarriedTo
<1>13. /\ Carried(h \o Drain(b).events, F, n)
       /\ \E q \in Boundary(W) :
            /\ q <= n /\ \A x \in Blanks(W) : x <= q \/ n < x
            /\ Drain(b).rest = Part(W, q, n)
  BY <1>1, <1>10, <1>11, <1>12, DrainIs
<1>14. Kept(W, n, d.rest) BY <1>7, <1>13 DEF Kept
<1>15. Carried(handled[r], frames[r], taken[r])'
  BY <1>2, <1>7, <1>8, <1>13, SameCarried DEF F
<1>16. Kept(wire[r], taken[r], buffer[r])' BY <1>2, <1>8, <1>14 DEF Kept, W
<1>17. taken'[r] <= Len(wire'[r]) BY <1>2, <1>8, <1>10 DEF W
<1> QED BY <1>2, <1>15, <1>16, <1>17 DEF Reading, Closing

(* What is left is parsed.                                                   *)
LEMMA EndReading ==
  ASSUME ReadInv, NEW r \in Starts, EndOfStream(r)
  PROVE  Reading(r)'
<1> DEFINE W == wire[r]
           F == frames[r]
           h == handled[r]
<1>1. /\ W \in Seq(Symbol) /\ F \in Seq(Sent) /\ Laid(W, F) /\ h \in Seq(Messages)
      /\ Len(W) \in Nat /\ Reading(r)
  BY ReadTypes
<1>2. /\ reader[r] = "reading" /\ stream[r] = "ended" /\ taken[r] = Len(W)
      /\ style' = style /\ wire' = wire /\ frames' = frames /\ stream' = stream /\ taken' = taken
  BY DEF EndOfStream, downloadVars
<1>3. /\ reader'[r] = "over" /\ buffer'[r] = <<>> /\ handled'[r] = h \o Flush(buffer[r])
  BY ReadTypes DEF EndOfStream, Types, ClientTypes
<1>4. PICK s \in Boundary(W) :
            /\ s <= Len(W) /\ \A x \in Blanks(W) : x <= s \/ Len(W) < x
            /\ buffer[r] = Part(W, s, Len(W))
  BY <1>1, <1>2 DEF Reading, Kept
<1>5. Carried(h, F, Len(W)) BY <1>1, <1>2 DEF Reading, Closing
<1>6. PICK b : b = buffer[r] OBVIOUS
<1> HIDE DEF W, F, h
<1>7. Whole(h \o Flush(b), F) BY <1>1, <1>4, <1>5, <1>6, FlushIs
<1>8. Whole(handled[r], frames[r])' BY <1>2, <1>3, <1>6, <1>7 DEF Whole, F
<1>9. taken'[r] = Len(wire'[r]) /\ taken'[r] <= Len(wire'[r]) BY <1>1, <1>2 DEF W
<1> QED BY <1>2, <1>3, <1>8, <1>9 DEF Reading, Closing

(* More is sent.                                                             *)
LEMMA SendReading ==
  ASSUME ReadInv, NEW r \in Starts, Forward(r) \/ Ping(r), UNCHANGED clientVars
  PROVE  Reading(r)'
<1> DEFINE W == wire[r]
           F == frames[r]
           h == handled[r]
           t == taken[r]
<1>1. /\ W \in Seq(Symbol) /\ F \in Seq(Sent) /\ Laid(W, F) /\ h \in Seq(Messages)
      /\ t \in Nat /\ Len(W) \in Nat /\ t <= Len(W) /\ Reading(r)
  BY ReadTypes DEF Reading
<1>2. /\ stream[r] = "open" /\ style' = style
      /\ reader' = reader /\ handled' = handled /\ buffer' = buffer /\ taken' = taken
  BY DEF Forward, Ping, clientVars
<1>3. reader[r] = "reading"
  <2>1. reader[r] \in {"none", "asking", "reading", "over"} BY ReadTypes DEF Types, ClientTypes
  <2> QED BY <1>2, <2>1, ReadTypes DEF Begun
<1>4. Carried(h, F, t) /\ Kept(W, t, buffer[r]) BY <1>1, <1>3 DEF Reading, Closing
<1>5. SUFFICES /\ taken'[r] <= Len(wire'[r])
               /\ Kept(wire'[r], taken'[r], buffer'[r])
               /\ Carried(handled'[r], frames'[r], taken'[r])
  <2> SUFFICES ASSUME /\ taken'[r] <= Len(wire'[r])
               /\ Kept(wire'[r], taken'[r], buffer'[r])
               /\ Carried(handled'[r], frames'[r], taken'[r])
               PROVE Reading(r)'
    OBVIOUS
  <2>1. Carried(handled[r], frames[r], taken[r])' BY <1>2, SameCarried
  <2>2. Kept(wire[r], taken[r], buffer[r])' BY DEF Kept
  <2> QED BY <1>2, <1>3, <2>1, <2>2 DEF Reading, Closing
<1>6. CASE Forward(r) /\ Head(queue[r]) = Sentinel
  <2>1. wire' = wire /\ frames' = frames BY <1>6 DEF Forward
  <2> QED BY <1>1, <1>2, <1>4, <2>1
<1>7. ASSUME NEW C \in Seq(Symbol), NEW D \in Seq(Symbol), Extends(D, W, C), wire'[r] = D
      PROVE  /\ taken'[r] <= Len(wire'[r])
             /\ Kept(wire'[r], taken'[r], buffer'[r])
  <2>1. PICK b : b = buffer[r] OBVIOUS
  <2> HIDE DEF W, t
  <2>2. Kept(D, t, b) /\ t <= Len(D) BY <1>1, <1>4, <1>7, <2>1, KeptGrows
  <2> QED BY <1>2, <1>7, <2>1, <2>2 DEF t
<1>8. CASE Forward(r) /\ Head(queue[r]) # Sentinel
  <2>1. PICK e : e = Head(queue[r]) OBVIOUS
  <2>2. PICK C, D \in Seq(Symbol) :
            /\ e \in Messages
            /\ Len(C) = Ending(e) + 2 /\ Ending(e) \in 1..4
            /\ Extends(D, W, C)
            /\ wire'[r] = D
            /\ frames'[r] = Append(F, [event |-> e, end |-> Len(D)])
    <3>1. LayoutInv BY DEF ReadInv
    <3>2. \E C, D \in Seq(Symbol) :
            /\ e \in Messages
            /\ Len(C) = Ending(e) + 2 /\ Ending(e) \in 1..4
            /\ C[1] = Data(e, 1) /\ C[2] = Data(e, 2)
            /\ \A i \in 1..Len(C) : i > 2 => C[i].is \in {"cr", "lf"}
            /\ \A i \in 1..Len(C) : i \in Blanks(C) <=> ~Bare(e) /\ i = Len(C)
            /\ Extends(D, wire[r], C)
            /\ wire'[r] = D
            /\ frames'[r] = Append(frames[r], [event |-> e, end |-> Len(D)])
      BY <1>8, <2>1, <3>1, ForwardSends, ZenonT(30)
    <3> QED BY <3>2
  <2> HIDE DEF W, F, h, t
  <2>3. PICK f : f = [event |-> e, end |-> Len(D)] OBVIOUS
  <2>4. t < Len(D)
    <3>1. Len(C) \in Nat /\ Len(C) > 0 /\ Len(D) = Len(W) + Len(C) BY <2>2 DEF Extends
    <3> QED BY <1>1, <3>1
  <2>5. f \in Sent /\ f.end = Len(D) BY <2>2, <2>3 DEF Sent
  <2>6. Carried(h, Append(F, f), t) BY <1>1, <1>4, <2>4, <2>5, CarriedMore
  <2>7. Carried(handled'[r], frames'[r], taken'[r]) BY <1>2, <2>2, <2>3, <2>6 DEF h, t
  <2> QED BY <1>7, <2>2, <2>7
<1>9. CASE Ping(r)
  <2>1. LayoutInv BY DEF ReadInv
  <2>2. PICK C, D \in Seq(Symbol) : Extends(D, W, C) /\ wire'[r] = D
    <3>1. \E C, D \in Seq(Symbol) :
            /\ Len(C) \in 3..5 /\ C[1].is = "comment"
            /\ \A i \in 1..Len(C) : i > 1 => C[i].is \in {"cr", "lf"}
            /\ \A i \in 1..Len(C) : i \in Blanks(C) <=> i = Len(C)
            /\ Extends(D, wire[r], C)
            /\ wire'[r] = D
      BY <1>9, <2>1, PingSends
    <3> QED BY <3>1
  <2>3. frames' = frames BY <1>9 DEF Ping
  <2> QED BY <1>2, <1>4, <1>7, <2>2, <2>3
<1> QED BY <1>6, <1>8, <1>9

(* Every step keeps the parser's invariant,                                *)
LEMMA NextReading == ReadInv /\ [DownloadNext]_allDownloadVars => ReadInv'
<1> SUFFICES ASSUME ReadInv, [DownloadNext]_allDownloadVars PROVE ReadInv' OBVIOUS
<1>1. LayoutInv' BY NextLayout DEF ReadInv
<1>2. CASE UNCHANGED allDownloadVars
  <2>1. \A q \in Starts : Same(q) /\ style' = style
    BY <1>2 DEF allDownloadVars, downloadVars, clientVars, Same
  <2> QED BY <1>1, <2>1, SameReading DEF ReadInv
<1>3. ASSUME NEW r \in Starts, StepOf(r) PROVE ReadInv'
  <2>1. style' = style
    BY <1>3, ClientSteps DEF downloadVars, StepOf, Run, Opened, PostDownload, Work, Count, Report,
       Succeed, Fail, Tell, Close, Forward, Ping, Break
  <2>2. \A q \in Starts \ {r} : Reading(q)'
    BY <1>3, <2>1, OthersSame, SameReading DEF ReadInv, LayoutInv, CourseInv
  <2>3. Reading(r)'
    <3>0. /\ Types /\ Reading(r) /\ Begun(r) /\ Begun(r)' /\ taken[r] \in Nat
          /\ reader[r] \in {"none", "asking", "reading", "over"}
      BY <1>1, ReadTypes DEF LayoutInv, CourseInv, Types, ClientTypes
    <3>1. CASE Read(r) BY <3>1, ReadReading
    <3>2. CASE EndOfStream(r) BY <3>2, EndReading
    <3>3. CASE (Forward(r) \/ Ping(r)) /\ UNCHANGED clientVars BY <3>3, SendReading
    <3>4. CASE /\ wire' = wire /\ frames' = frames /\ taken' = taken /\ handled' = handled
               /\ ~Closing(r) /\ ~Closing(r)'
               /\ reader'[r] # "reading" => buffer'[r] = <<>>
               /\ reader'[r] \in {"none", "asking"} => reader[r] \in {"none", "asking"}
               /\ reader'[r] = "reading" => Kept(wire[r], taken[r], buffer'[r])
      <4>1. Carried(handled[r], frames[r], taken[r])'
        BY <2>1, <3>0, <3>4, SameCarried DEF Reading
      <4>2. reader'[r] = "reading" => Kept(wire[r], taken[r], buffer[r])'
        BY <3>4 DEF Kept
      <4> QED BY <3>0, <3>4, <4>1, <4>2 DEF Reading
    <3>5. CASE Start(r)
      <4>1. /\ reader[r] = "none" /\ reader'[r] = "asking" /\ UNCHANGED downloadVars
            /\ taken' = taken /\ handled' = handled /\ buffer' = buffer
        BY <3>0, <3>5 DEF Start, Types, ClientTypes
      <4> QED BY <3>0, <3>4, <4>1 DEF downloadVars, Closing, Reading
    <3>6. CASE Opened(r)
      <4>1. /\ reader[r] = "asking" /\ reader'[r] = "reading"
            /\ taken' = taken /\ handled' = handled /\ buffer' = buffer
            /\ wire' = wire /\ frames' = frames
        BY <3>0, <3>6 DEF Opened, PostDownload, Types, ClientTypes
      <4>2. wire[r] = <<>> /\ taken[r] = 0 /\ buffer[r] = <<>> BY <3>0, <4>1 DEF Begun, Reading
      <4>3. Kept(<<>>, 0, <<>>)
        <5>1. 0 \in Boundary(<<>>) /\ Blanks(<<>>) = {} BY DEF Boundary, Blanks, BlanksRaw
        <5>2. Part(<<>>, 0, 0) = <<>>
          <6>1. <<>> \in Seq(Symbol) /\ Len(<<>>) = 0 /\ 0 <= 0 OBVIOUS
          <6>2. SubSeq(<<>>, 0 + 1, 0) \in Seq(Symbol) /\ Len(SubSeq(<<>>, 0 + 1, 0)) = 0 - 0
            BY <6>1, Piece
          <6> QED BY <6>2, EmptySeq DEF Part
        <5> QED BY <5>1, <5>2 DEF Kept
      <4> QED BY <3>0, <3>4, <4>1, <4>2, <4>3 DEF Closing, Reading
    <3>7. CASE Throw(r)
      <4>1. /\ reader[r] \in {"asking", "reading"} /\ stream[r] # "ended"
            /\ reader'[r] = "over" /\ buffer'[r] = <<>> /\ UNCHANGED downloadVars
            /\ taken' = taken /\ handled' = handled
        BY <3>0, <3>7 DEF Throw, Gone, Types, ClientTypes, Begun
      <4> QED BY <3>4, <4>1 DEF downloadVars, Closing
    <3>8. CASE (Work(r) \/ Break(r)) /\ UNCHANGED clientVars
      <4>1. /\ wire' = wire /\ frames' = frames
            /\ taken' = taken /\ handled' = handled /\ reader' = reader /\ buffer' = buffer
        BY <3>8 DEF clientVars, Work, Count, Report, Succeed, Fail, Tell, Close, Break
      <4>2. stream'[r] = stream[r] \/ (stream[r] = "open" /\ stream'[r] = "broken")
        BY <3>0, <3>8 DEF Work, Count, Report, Succeed, Fail, Tell, Close, Break, Types, ServerTypes
      <4>3. CASE Closing(r)
        <5>1. stream'[r] = stream[r] BY <4>2, <4>3 DEF Closing
        <5>2. Whole(handled[r], frames[r])' BY <3>0, <4>1, <4>3 DEF Reading, Whole
        <5> QED BY <3>0, <4>1, <4>3, <5>1, <5>2 DEF Reading, Closing
      <4>4. CASE ~Closing(r) BY <3>0, <3>4, <4>1, <4>2, <4>4 DEF Reading, Closing
      <4> QED BY <4>3, <4>4
    <3> QED BY <1>3, <3>1, <3>2, <3>3, <3>5, <3>6, <3>7, <3>8 DEF StepOf, Run
  <2> QED BY <1>1, <2>2, <2>3 DEF ReadInv
<1>4. CASE DownloadNext BY <1>3, <1>4 DEF DownloadNext, StepOf
<1> QED BY <1>2, <1>4

(* which holds at first.                                                   *)
LEMMA InitReading == SystemInit => ReadInv
<1> SUFFICES ASSUME SystemInit PROVE ReadInv OBVIOUS
<1>1. LayoutInv BY InitLayout
<1>2. ASSUME NEW r \in Starts PROVE Reading(r)
  <2>1. /\ reader[r] = "none" /\ taken[r] = 0 /\ handled[r] = <<>> /\ buffer[r] = <<>>
        /\ wire[r] = <<>> /\ frames[r] = <<>>
    BY <1>2 DEF SystemInit, DownloadInit, ClientInit
  <2>2. Carried(<<>>, <<>>, 0) BY DEF Carried
  <2> QED BY <2>1, <2>2 DEF Reading, Closing
<1> QED BY <1>1, <1>2 DEF ReadInv

-----------------------------------------------------------------------------
(* The events of the frames that were read to the end.                       *)
Events(F, t) == [i \in {k \in DOMAIN F : F[k].end <= t} |-> F[i].event]

(* They are the first ones, as frames lie one behind the other.            *)
LEMMA DueIs ==
  ASSUME NEW F \in Seq(Sent), NEW t \in Nat, NEW n \in 0..Len(F), NEW e,
         \A i \in DOMAIN F : F[i].end <= t <=> i <= n,
         e = Events(F, t)
  PROVE  /\ e \in Seq(Messages) /\ Len(e) = n
         /\ \A i \in 1..n : e[i] = F[i].event
<1>1. Len(F) \in Nat /\ DOMAIN F = 1..Len(F) OBVIOUS
<1>2. {k \in DOMAIN F : F[k].end <= t} = 1..n BY <1>1
<1>3. e = [i \in 1..n |-> F[i].event] BY <1>2 DEF Events
<1>4. \A i \in 1..n : F[i].event \in Messages
  <2> TAKE i \in 1..n
  <2>1. i \in DOMAIN F BY <1>1
  <2> QED BY <2>1, SentIs
<1>5. e \in [1..n -> Messages] BY <1>3, <1>4
<1>6. n \in Nat BY <1>1
<1> QED BY <1>3, <1>5, <1>6

(* So what was handled is due, but for a bare last frame that waits.       *)
LEMMA HandledOnce ==
  ASSUME ReadInv, NEW r \in Starts
  PROVE  \/ handled[r] = Due(r)
         \/ /\ reader[r] # "over" \/ stream[r] # "ended"
            /\ ~style.blankAtEnd /\ Due(r) # <<>>
            /\ IsLast(Last(Due(r))) /\ handled[r] = Front(Due(r))
<1> DEFINE W == wire[r]
           F == frames[r]
           h == handled[r]
           t == taken[r]
<1>1. /\ W \in Seq(Symbol) /\ F \in Seq(Sent) /\ Laid(W, F) /\ h \in Seq(Messages)
      /\ t \in Nat /\ Len(W) \in Nat /\ t <= Len(W) /\ Reading(r)
  BY ReadTypes DEF Reading
<1>2. PICK e : e = Events(F, t) OBVIOUS
<1>3. Due(r) = e BY <1>2 DEF Due, Events
<1>4. Closing(r) => t = Len(W) /\ Whole(h, F) BY <1>1 DEF Reading
<1>5. ~Closing(r) => Carried(h, F, t) BY <1>1 DEF Reading
<1> HIDE DEF W, F, h, t
<1>6. Len(F) \in Nat /\ DOMAIN F = 1..Len(F) /\ Len(h) \in Nat BY <1>1
<1>7. CASE Closing(r)
  <2>1. \A i \in DOMAIN F : F[i].end <= t BY <1>1, <1>4, <1>7 DEF Laid
  <2>2. PICK n \in 0..Len(F) : n = Len(F)
    <3>1. Len(F) \in 0..Len(F) BY <1>6
    <3> QED BY <3>1
  <2>3. \A i \in DOMAIN F : F[i].end <= t <=> i <= n BY <1>6, <2>1, <2>2
  <2>4. /\ e \in Seq(Messages) /\ Len(e) = n
        /\ \A i \in 1..n : e[i] = F[i].event
    BY <1>1, <1>2, <2>3, DueIs
  <2>5. h = e BY <1>1, <1>4, <1>6, <1>7, <2>2, <2>4, SeqEqual DEF Whole
  <2> QED BY <1>3, <2>5 DEF h
<1>8. CASE ~Closing(r) /\ \A k \in DOMAIN F : F[k].end <= t => ~Bare(F[k].event)
  <2>1. \A i \in DOMAIN F : F[i].end <= t <=> i <= Len(h) BY <1>5, <1>8 DEF Carried
  <2>2. Len(h) \in 0..Len(F) BY <1>5, <1>6, <1>8 DEF Carried
  <2>3. /\ e \in Seq(Messages) /\ Len(e) = Len(h)
        /\ \A i \in 1..Len(h) : e[i] = F[i].event
    BY <1>1, <1>2, <2>1, <2>2, DueIs
  <2>4. h = e BY <1>1, <1>5, <1>8, <2>3, SeqEqual DEF Carried
  <2> QED BY <1>3, <2>4 DEF h
<1>9. ASSUME ~Closing(r), NEW k \in DOMAIN F, F[k].end <= t, Bare(F[k].event)
      PROVE  /\ ~style.blankAtEnd /\ e # <<>>
             /\ IsLast(Last(e)) /\ h = Front(e)
  <2>1. k \in Nat /\ F[k].end \in Nat /\ F[k].end = Len(W) /\ t = Len(W)
    <3>1. F[k].end = Len(W) BY <1>1, <1>9 DEF Laid
    <3> QED BY <1>1, <1>6, <1>9, <3>1
  <2>2. \A i \in DOMAIN F : F[i].end <= t BY <1>1, <2>1 DEF Laid
  <2>3. k = Len(F)
    <3>1. CASE k < Len(F)
      <4>1. Len(F) \in DOMAIN F BY <1>6, <3>1
      <4>2. F[k].end < F[Len(F)].end /\ F[Len(F)].end \in Nat BY <1>1, <3>1, <4>1, Apart, SentIs
      <4> QED BY <2>1, <2>2, <4>1, <4>2
    <3> QED BY <1>6, <2>1, <3>1
  <2>4. PICK n \in 0..Len(F) : n = Len(F)
    <3>1. Len(F) \in 0..Len(F) BY <1>6
    <3> QED BY <3>1
  <2>5. \A i \in DOMAIN F : F[i].end <= t <=> i <= n BY <1>6, <2>2, <2>4
  <2>6. /\ e \in Seq(Messages) /\ Len(e) = n
         /\ \A i \in 1..n : e[i] = F[i].event
    BY <1>1, <1>2, <2>5, DueIs
  <2>7. /\ e \in Seq(Messages) /\ Len(e) = k
        /\ \A i \in 1..k : e[i] = F[i].event
    BY <2>3, <2>4, <2>6
  <2>8. ~(k <= Len(h)) BY <1>5, <1>9 DEF Carried
  <2>9. k - 1 <= Len(h)
    <3>1. CASE k = 1 BY <1>6, <3>1
    <3>2. CASE k # 1
      <4>1. k - 1 \in DOMAIN F BY <1>6, <2>1, <3>2
      <4>2. F[k - 1].end # Len(W) BY <1>1, <2>1, <4>1, Apart
      <4>3. ~Bare(F[k - 1].event) BY <1>1, <4>1, <4>2 DEF Laid
      <4> QED BY <1>5, <1>9, <2>2, <4>1, <4>3 DEF Carried
    <3> QED BY <3>1, <3>2
  <2>10. Len(h) = k - 1 BY <1>6, <2>1, <2>8, <2>9
  <2>11. k \in 1..k /\ k >= 1 BY <1>6
  <2>12. Last(e) = F[k].event BY <2>7, <2>11 DEF Last
  <2>13. e # <<>> BY <2>7, <2>11
  <2>14. h = Front(e)
    <3>1. PICK g : g = SubSeq(e, 1, k - 1) OBVIOUS
    <3>2. Front(e) = g BY <2>7, <3>1 DEF Front
    <3>3. \A i \in 1..(k - 1) : e[i] \in Messages BY <2>1, <2>7
    <3>4. 1 \in Int /\ k - 1 \in Int BY <2>1
    <3>5. /\ g \in Seq(Messages)
          /\ Len(g) = IF 1 <= k - 1 THEN (k - 1) - 1 + 1 ELSE 0
          /\ \A i \in 1..((k - 1) - 1 + 1) : g[i] = e[1 + i - 1]
      BY <3>1, <3>3, <3>4, SubSeqProperties
    <3>6. Len(g) = k - 1 BY <2>11, <3>5, <2>1
    <3>7. ASSUME NEW i \in 1..(k - 1) PROVE g[i] = h[i]
      <4>1. i \in 1..((k - 1) - 1 + 1) /\ 1 + i - 1 = i /\ i \in 1..k BY <2>1
      <4>2. g[i] = e[i] BY <3>5, <4>1
      <4>3. h[i] = F[i].event BY <1>5, <1>9, <2>10 DEF Carried
      <4> QED BY <2>7, <4>1, <4>2, <4>3
    <3>8. h = g BY <1>1, <2>10, <3>5, <3>6, <3>7, SeqEqual
    <3> QED BY <3>2, <3>8
  <2> QED BY <1>9, <2>12, <2>13, <2>14 DEF Bare
<1> QED BY <1>3, <1>7, <1>8, <1>9 DEF Closing, h

-----------------------------------------------------------------------------
(* A thread is at a piece, and no more pieces than threads are counted.      *)
Bounded == \A r \in Starts : \A h \in Threads : fetch[r][h] \in 0..Reported

(* The counter never exceeds the pieces.                                   *)
LEMMA AccruedType ==
  ASSUME CourseInv, NEW r \in Starts
  PROVE  accrued[r] \in 0..Total
BY CountType DEF CourseInv, Counted

LEMMA AccruedTypes == CourseInv => \A q \in Starts : accrued[q] \in 0..Total
BY AccruedType

(* Every step keeps a thread at one of its pieces.                         *)
LEMMA NextBounded == CourseInv /\ Bounded /\ [DownloadNext]_allDownloadVars => Bounded'
<1> SUFFICES ASSUME CourseInv, Bounded, [DownloadNext]_allDownloadVars PROVE Bounded' OBVIOUS
<1>1. CourseInv' BY NextCourse
<1>2. Total \in Nat /\ Reported = Total + 1 /\ Reported \in 0..Reported
  BY TotalType DEF Reported
<1>3. CASE fetch' = fetch BY <1>3 DEF Bounded
<1>4. ASSUME NEW r \in Starts, NEW h \in Threads, Count(r, h) PROVE Bounded'
  <2>1. accrued'[r] \in 0..Total
    <3>1. \A q \in Starts : accrued'[q] \in 0..Total
      <4>1. (\A q \in Starts : accrued[q] \in 0..Total)' BY <1>1, AccruedTypes, PTL
      <4> QED BY <4>1 DEF Total
    <3> QED BY <3>1
  <2>2. accrued'[r] = accrued[r] + 1 BY <1>4 DEF Count, CourseInv, Types, ServerTypes
  <2>3. fetch' = [fetch EXCEPT ![r][h] = accrued'[r]] BY <1>4, <2>2 DEF Count
  <2>4. accrued'[r] \in 0..Reported BY <1>2, <2>1
  <2>5. fetch \in [Starts -> [Threads -> Nat]] BY DEF CourseInv, Types, ServerTypes
  <2> QED BY <2>3, <2>4, <2>5 DEF Bounded, Reported, Total
<1>5. ASSUME NEW r \in Starts, NEW h \in Threads, Report(r, h) PROVE Bounded'
  <2>1. fetch' = [fetch EXCEPT ![r][h] = Reported] BY <1>5 DEF Report
  <2>2. fetch \in [Starts -> [Threads -> Nat]] BY DEF CourseInv, Types, ServerTypes
  <2> QED BY <1>2, <2>1, <2>2 DEF Bounded
<1>6. ASSUME NEW r \in Starts, StepOf(r) PROVE Bounded'
  <2>1. \/ fetch' = fetch
        \/ \E h \in Threads : Count(r, h) \/ Report(r, h)
    BY <1>6, ClientSteps DEF downloadVars, StepOf, Run, Opened, PostDownload, Work,
       Succeed, Fail, Tell, Close, Forward, Ping, Break
  <2> QED BY <1>3, <1>4, <1>5, <2>1
<1>7. CASE UNCHANGED allDownloadVars BY <1>3, <1>7 DEF allDownloadVars, downloadVars
<1>8. CASE DownloadNext BY <1>6, <1>8 DEF DownloadNext, StepOf
<1> QED BY <1>7, <1>8

LEMMA InitBounded == SystemInit => Bounded
<1> SUFFICES ASSUME SystemInit PROVE Bounded OBVIOUS
<1>1. Total \in Nat BY TotalType
<1> QED BY <1>1 DEF SystemInit, DownloadInit, Bounded, Waiting, Reported

(* The types that the runs check follow.                                   *)
LEMMA TypesFollow == ReadInv /\ Bounded => DownloadTypeOK
<1> SUFFICES ASSUME ReadInv, Bounded PROVE DownloadTypeOK OBVIOUS
<1>0. Types /\ CourseInv BY DEF ReadInv, LayoutInv, CourseInv
<1>1. /\ style \in Styles
      /\ worker \in [Starts -> {"none", "running", "told", "over"}]
      /\ stream \in [Starts -> {"none", "open", "ended", "broken"}]
      /\ pings \in 0..MaxPings /\ cuts \in 0..MaxCuts
      /\ reader \in [Starts -> {"none", "asking", "reading", "over"}]
      /\ view \in [state : {"idle", "running", "done", "error"}, percent : 0..Total]
      /\ hasty \in BOOLEAN
  BY <1>0 DEF Types, ServerTypes, ClientTypes, Views
<1>2. fetch \in [Starts -> [Threads -> 0..Reported]]
  <2>1. fetch \in [Starts -> [Threads -> Nat]] BY <1>0 DEF Types, ServerTypes
  <2> QED BY <2>1 DEF Bounded
<1>3. accrued \in [Starts -> 0..Total]
  <2>1. accrued \in [Starts -> Nat] BY <1>0 DEF Types, ServerTypes
  <2>2. \A r \in Starts : accrued[r] \in 0..Total BY <1>0, AccruedType
  <2> QED BY <2>1, <2>2
<1>4. ASSUME NEW r \in Starts, NEW i \in DOMAIN queue[r]
      PROVE  /\ queue[r][i] \in Messages \cup {Sentinel}
             /\ queue[r][i] = Sentinel => i = Len(queue[r])
  <2>1. queue[r] \in Seq(Messages \cup {Sentinel}) BY <1>0, SentTypes
  <2>2. i \in 1..Len(queue[r]) /\ Len(queue[r]) \in Nat BY <2>1
  <2>3. PICK m \in Nat : m = Len(frames[r]) BY <1>0, SentTypes
  <2>4. PICK l \in Nat : l = Len(queue[r]) BY <2>2
  <2>5. DOMAIN Told(r) = 1..(m + l) /\ Len(Told(r)) = m + l /\ Told(r)[m + i] = queue[r][i]
    BY <1>0, <2>2, <2>3, <2>4, ToldType
  <2>6. i \in 1..l BY <2>2, <2>4
  <2>7. m + i \in 1..(m + l) BY <2>6
  <2>8. m + i \in DOMAIN Told(r) BY <2>5, <2>7
  <2>9. queue[r][i] = Sentinel => m + i = m + l
    BY <2>5, <2>8, ReadTypes DEF Ordered
  <2>10. queue[r][i] = Sentinel => i = l BY <2>6, <2>9
  <2>11. queue[r][i] \in Messages \cup {Sentinel} BY <2>1, <2>2
  <2> QED BY <2>4, <2>10, <2>11
<1>5. ASSUME NEW r \in Starts
      PROVE  /\ taken[r] \in 0..Len(wire[r]) /\ Len(buffer[r]) <= taken[r]
             /\ reader[r] # "reading" => buffer[r] = <<>>
             /\ reader[r] \in {"none", "asking"} => wire[r] = <<>>
  <2>1. /\ taken[r] \in 0..Len(wire[r]) /\ taken[r] \in Nat /\ Len(wire[r]) \in Nat
        /\ reader[r] # "reading" => buffer[r] = <<>>
    BY ReadTypes DEF Reading
  <2>2. reader[r] \in {"none", "asking"} => wire[r] = <<>> BY ReadTypes DEF Begun
  <2>3. reader[r] = "reading" => Len(buffer[r]) <= taken[r]
    <3> SUFFICES ASSUME reader[r] = "reading" PROVE Len(buffer[r]) <= taken[r] OBVIOUS
    <3>1. PICK s \in Boundary(wire[r]) :
              s <= taken[r] /\ buffer[r] = Part(wire[r], s, taken[r])
      BY ReadTypes DEF Reading, Kept
    <3>2. wire[r] \in Seq(Symbol) /\ s \in Nat BY ReadTypes, BoundaryType
    <3>3. Len(SubSeq(wire[r], s + 1, taken[r])) = taken[r] - s BY <2>1, <3>1, <3>2, Piece
    <3> QED BY <2>1, <3>1, <3>2, <3>3 DEF Part
  <2>4. Len(<<>>) = 0 OBVIOUS
  <2> QED BY <2>1, <2>2, <2>3, <2>4
<1> QED BY <1>1, <1>2, <1>3, <1>4, <1>5 DEF DownloadTypeOK

-----------------------------------------------------------------------------
(* What is shown.                                                            *)
Final(h) == \E i \in DOMAIN h : IsLast(h[i])

(* "done" is shown of a download whose "done" was handled.                 *)
Proven(v, h) == v.state = "done" => v.percent = Total /\ \E i \in DOMAIN h : h[i] = Done

(* The view of the download that is read: running until its last event.    *)
Agrees(v, h) ==
    /\ IF Final(h) THEN v.state \in {"done", "error"} ELSE v.state = "running"
    /\ Proven(v, h)

(* r is the last download started, the others are over, and the view is its.*)
Shown(r) ==
    /\ reader[r] # "none"
    /\ \A q \in Starts : (q > r => reader[q] = "none") /\ (q < r => reader[q] = "over")
    /\ reader[r] # "over" => Agrees(view, handled[r])
    /\ reader[r] = "over" => view.state \in {"done", "error"} /\ Proven(view, handled[r])

(* Downloads start one after the other.                                    *)
InTurn == \A r, q \in Starts : q < r /\ reader[r] # "none" => reader[q] # "none"

(* Unless someone was hasty, one download is shown.                        *)
ViewInv ==
    /\ InTurn
    /\ ~hasty => \/ view.state = "idle" /\ \A r \in Starts : reader[r] = "none"
                 \/ \E r \in Starts : Shown(r)

(* What one event does to the view.                                        *)
LEMMA ShowIs ==
  ASSUME NEW v \in Views, NEW e \in Messages
  PROVE  /\ ~IsLast(e) => Show(v, e).state = v.state
         /\ e = Done => Show(v, e).state = "done" /\ Show(v, e).percent = Total
         /\ e = Failure => Show(v, e).state = "error"
<1>1. v = [state |-> v.state, percent |-> v.percent] BY DEF Views
<1>2. CASE e = Done BY <1>2 DEF Done, Failure, Show, IsLast
<1>3. CASE e = Failure BY <1>1, <1>3 DEF Done, Failure, Show, IsLast
<1>4. CASE \E n \in 1..Total : e = Progress(n)
  <2>1. e.type = "progress" /\ e # Done /\ e # Failure BY <1>4 DEF Progress, Done, Failure
  <2>2. Show(v, e) = [v EXCEPT !.percent = e.percent] BY <2>1 DEF Show
  <2>3. Show(v, e).state = v.state BY <1>1, <2>2
  <2> QED BY <2>1, <2>3
<1> QED BY <1>2, <1>3, <1>4 DEF Messages

(* Some events of which only the last one is a last one.                     *)
LEMMA ShowsIs ==
  ASSUME NEW v \in Views, v.state = "running", NEW e \in Seq(Messages),
         \A i \in DOMAIN e : IsLast(e[i]) => i = Len(e)
  PROVE  /\ IF Final(e) THEN ShowAll(v, e).state \in {"done", "error"}
                        ELSE ShowAll(v, e).state = "running"
         /\ Proven(ShowAll(v, e), e)
<1> DEFINE S == Showing(v, e)
<1>1. /\ S \in [0..Len(e) -> Views] /\ S[0] = v
      /\ \A n \in 1..Len(e) : S[n] = Show(S[n - 1], e[n])
  BY ShowingDef
<1>2. Len(e) \in Nat /\ DOMAIN e = 1..Len(e) OBVIOUS
<1>3. ShowAll(v, e) = S[Len(e)] BY DEF ShowAll
<1> HIDE DEF S
<1> DEFINE T == {i \in Nat :
             i <= Len(e) /\ (\A k \in 1..i : ~IsLast(e[k])) => S[i].state = "running"}
<1>4. 0 \in T BY <1>1
<1>5. ASSUME NEW i \in Nat, i \in T PROVE i + 1 \in T
  <2> SUFFICES ASSUME i + 1 <= Len(e), \A k \in 1..(i + 1) : ~IsLast(e[k])
               PROVE  S[i + 1].state = "running"
    OBVIOUS
  <2>1. S[i].state = "running"
    <3>1. i <= Len(e) /\ \A k \in 1..i : k \in 1..(i + 1) BY <1>2
    <3> QED BY <1>5, <3>1
  <2>2. i + 1 \in 1..Len(e) /\ (i + 1) - 1 = i /\ i \in 0..Len(e) /\ i + 1 \in 1..(i + 1) BY <1>2
  <2>3. S[i + 1] = Show(S[i], e[i + 1]) BY <1>1, <2>2
  <2>4. S[i] \in Views /\ e[i + 1] \in Messages /\ ~IsLast(e[i + 1]) BY <1>1, <2>2
  <2> QED BY <2>1, <2>3, <2>4, ShowIs
<1>6. Nat \subseteq T
  <2> HIDE DEF T
  <2> QED BY <1>4, <1>5, Induct
<1>7. CASE ~Final(e)
  <2>1. \A k \in 1..Len(e) : ~IsLast(e[k]) BY <1>2, <1>7 DEF Final
  <2>2. S[Len(e)].state = "running" BY <1>2, <1>6, <2>1
  <2> QED BY <1>3, <1>7, <2>2 DEF Proven
<1>8. CASE Final(e)
  <2>1. PICK n \in 1..Len(e) : IsLast(e[n]) /\ n = Len(e) BY <1>2, <1>8 DEF Final
  <2>2. n - 1 \in Nat /\ n - 1 <= Len(e) /\ n - 1 \in 0..Len(e) BY <1>2
  <2>3. \A k \in 1..(n - 1) : ~IsLast(e[k])
    <3> TAKE k \in 1..(n - 1)
    <3>0. k \in 1..n /\ k # n OBVIOUS
    <3>1. k \in DOMAIN e /\ k # Len(e) BY <1>2, <2>1, <3>0
    <3> QED BY <3>1
  <2>4. S[n - 1].state = "running" BY <1>6, <2>2, <2>3
  <2>5. S[n] = Show(S[n - 1], e[n]) /\ S[n - 1] \in Views /\ e[n] \in Messages BY <1>1, <2>2
  <2>6. e[n] = Done \/ e[n] = Failure BY <2>1 DEF IsLast
  <2>7. \/ e[n] = Done /\ S[n].state = "done" /\ S[n].percent = Total
        \/ S[n].state = "error"
    BY <2>5, <2>6, ShowIs
  <2> QED BY <1>2, <1>3, <1>8, <2>1, <2>7 DEF Proven
<1> QED BY <1>7, <1>8

(* More events keep the view in agreement with all of them.                *)
LEMMA ShowsMore ==
  ASSUME NEW v \in Views, NEW h \in Seq(Messages), NEW e \in Seq(Messages), Agrees(v, h),
         NEW g, g = h \o e,
         \A i \in DOMAIN g : IsLast(g[i]) => i = Len(g)
  PROVE  ShowAll(v, e) \in Views /\ Agrees(ShowAll(v, e), g)
<1>0. Len(h) \in Nat /\ Len(e) \in Nat /\ DOMAIN h = 1..Len(h) /\ DOMAIN e = 1..Len(e) OBVIOUS
<1>1. /\ g \in Seq(Messages) /\ Len(g) = Len(h) + Len(e)
      /\ \A i \in 1..(Len(h) + Len(e)) : g[i] = IF i <= Len(h) THEN h[i] ELSE e[i - Len(h)]
  BY ConcatProperties
<1>2. DOMAIN g = 1..(Len(h) + Len(e)) BY <1>1
<1>3. \A i \in 1..Len(h) : i \in DOMAIN g /\ g[i] = h[i] BY <1>0, <1>1, <1>2
<1>4. ASSUME NEW i \in 1..Len(e) PROVE Len(h) + i \in DOMAIN g /\ g[Len(h) + i] = e[i]
  <2>1. Len(h) + i \in 1..(Len(h) + Len(e)) /\ ~(Len(h) + i <= Len(h)) /\ (Len(h) + i) - Len(h) = i
    BY <1>0
  <2> QED BY <1>1, <1>2, <2>1
<1>5. ShowAll(v, e) \in Views BY ShowAllType
<1>6. CASE Final(h)
  <2>1. PICK i \in 1..Len(h) : IsLast(h[i]) BY <1>0, <1>6 DEF Final
  <2>2. i = Len(g) BY <1>3, <2>1
  <2>3. Len(e) = 0 BY <1>0, <1>1, <2>2
  <2>4. e = <<>> BY <2>3
  <2>5. ShowAll(v, e) = v BY <2>3, ShowingDef DEF ShowAll
  <2>6. g = h BY <2>4, ConcatEmptySeq
  <2> QED BY <1>5, <2>5, <2>6
<1>7. CASE ~Final(h)
  <2>1. v.state = "running" BY <1>7 DEF Agrees
  <2>2. ASSUME NEW i \in DOMAIN e, IsLast(e[i]) PROVE i = Len(e)
    <3>1. Len(h) + i = Len(h) + Len(e) BY <1>0, <1>1, <1>4, <2>2
    <3> QED BY <1>0, <3>1
  <2>3. /\ IF Final(e) THEN ShowAll(v, e).state \in {"done", "error"}
                       ELSE ShowAll(v, e).state = "running"
        /\ Proven(ShowAll(v, e), e)
    BY <2>1, <2>2, ShowsIs
  <2>4. Final(e) <=> Final(g)
    <3>1. Final(e) => Final(g) BY <1>0, <1>4 DEF Final
    <3>2. ASSUME NEW i \in DOMAIN g, IsLast(g[i]) PROVE Final(e)
      <4>1. i \in 1..(Len(h) + Len(e)) BY <1>2
      <4>2. ~(i <= Len(h)) BY <1>0, <1>3, <1>7, <3>2, <4>1 DEF Final
      <4>3. i - Len(h) \in DOMAIN e /\ g[i] = e[i - Len(h)] BY <1>0, <1>1, <4>1, <4>2
      <4> QED BY <3>2, <4>3 DEF Final
    <3> QED BY <3>1, <3>2 DEF Final
  <2>5. Proven(ShowAll(v, e), g) BY <1>0, <1>4, <2>3 DEF Proven
  <2> QED BY <1>5, <2>3, <2>4, <2>5 DEF Agrees
<1> QED BY <1>6, <1>7

-----------------------------------------------------------------------------
(* What was handled was told, in order.                                      *)
LEMMA HandledTold ==
  ASSUME ReadInv, NEW r \in Starts
  PROVE  /\ DOMAIN handled[r] = 1..Len(handled[r]) /\ Len(handled[r]) \in Nat
         /\ Len(handled[r]) <= Len(frames[r]) /\ Len(frames[r]) \in Nat
         /\ \A i \in 1..Len(frames[r]) :
               /\ i \in DOMAIN Told(r) /\ Told(r)[i] # Sentinel
               /\ Told(r)[i] = frames[r][i].event
               /\ i <= Len(handled[r]) => handled[r][i] = Told(r)[i]
<1>0. handled[r] \in Seq(Messages) /\ frames[r] \in Seq(Sent) BY ReadTypes
<1>1. /\ DOMAIN handled[r] = 1..Len(handled[r]) /\ Len(handled[r]) \in Nat
      /\ DOMAIN frames[r] = 1..Len(frames[r]) /\ Len(frames[r]) \in Nat
  BY <1>0
<1>2. /\ Len(handled[r]) <= Len(frames[r])
      /\ \A i \in 1..Len(handled[r]) : handled[r][i] = frames[r][i].event
  <2>1. CASE Closing(r)
    <3>1. Whole(handled[r], frames[r]) BY <2>1, ReadTypes DEF Reading
    <3> QED BY <1>1, <3>1 DEF Whole
  <2>2. CASE ~Closing(r)
    <3>1. Carried(handled[r], frames[r], taken[r]) BY <2>2, ReadTypes DEF Reading
    <3> QED BY <1>1, <3>1 DEF Carried
  <2> QED BY <2>1, <2>2
<1>3. ASSUME NEW i \in 1..Len(frames[r])
      PROVE  /\ i \in DOMAIN Told(r) /\ Told(r)[i] # Sentinel
             /\ Told(r)[i] = frames[r][i].event
  <2>1. PICK m \in Nat, l \in Nat : m = Len(frames[r]) /\ l = Len(queue[r])
    <3>1. Len(queue[r]) \in Nat BY ReadTypes, SentTypes
    <3> QED BY <1>1, <3>1
  <2>2. DOMAIN Told(r) = 1..(Len(frames[r]) + Len(queue[r])) /\ Told(r)[i] = frames[r][i].event
    BY ReadTypes, ToldType
  <2>3. frames[r][i].event \in Messages BY <1>0, <1>1, SentIs
  <2>4. i \in 1..(Len(frames[r]) + Len(queue[r]))
    <3>1. i \in 1..m BY <2>1
    <3>2. i \in 1..(m + l) BY <3>1
    <3> QED BY <2>1, <3>2
  <2> QED BY <2>2, <2>3, <2>4, SentinelApart
<1>4. ASSUME NEW i \in 1..Len(frames[r]), i <= Len(handled[r])
      PROVE  handled[r][i] = Told(r)[i]
  <2>1. i \in 1..Len(handled[r]) BY <1>1, <1>4
  <2> QED BY <1>2, <1>3, <2>1
<1> QED BY <1>1, <1>2, <1>3, <1>4

(* No event is handled after a last one:                                   *)
LastLast ==
    \A r \in Starts : \A i \in DOMAIN handled[r] :
        IsLast(handled[r][i]) => i = Len(handled[r])

LEMMA HandledLast == ReadInv => LastLast
<1> SUFFICES ASSUME ReadInv, NEW r \in Starts, NEW i \in DOMAIN handled[r],
                    IsLast(handled[r][i]), i # Len(handled[r])
             PROVE  FALSE
  BY DEF LastLast
<1>1. PICK m \in Nat : m = Len(handled[r]) BY HandledTold
<1>2. PICK n \in Nat : n = Len(frames[r]) BY HandledTold
<1>3. m <= n /\ i \in 1..m /\ i < m BY <1>1, <1>2, HandledTold
<1>4. i \in 1..n /\ i + 1 \in 1..n /\ i <= m BY <1>3
<1>5. i \in DOMAIN Told(r) /\ IsLast(Told(r)[i]) BY <1>1, <1>2, <1>4, HandledTold
<1>6. i + 1 \in DOMAIN Told(r) /\ Told(r)[i + 1] # Sentinel BY <1>2, <1>4, HandledTold
<1>7. i + 1 > i BY <1>3
<1> QED BY <1>5, <1>6, <1>7, ReadTypes DEF Ordered

(* At the end of the stream a last event has been handled:                 *)
ClosedFinal == \A r \in Starts : Closing(r) => Final(handled[r])

LEMMA HandledEnd == ReadInv => ClosedFinal
<1> SUFFICES ASSUME ReadInv, NEW r \in Starts, Closing(r) PROVE Final(handled[r])
  BY DEF ClosedFinal
<1>1. PICK i \in DOMAIN Told(r) : IsLast(Told(r)[i]) BY ReadTypes DEF Closing, Ordered
<1>2. queue[r] = <<>> BY ReadTypes DEF Closing, Ordered
<1>3. Len(frames[r]) \in Nat /\ Len(handled[r]) = Len(frames[r])
  BY HandledTold, ReadTypes DEF Reading, Whole
<1>4. i \in 1..Len(frames[r])
  <2>1. DOMAIN Told(r) = 1..(Len(frames[r]) + Len(queue[r])) BY ReadTypes, ToldType
  <2> QED BY <1>2, <1>3, <2>1
<1>5. i <= Len(handled[r]) BY <1>3, <1>4
<1>6. handled[r][i] = Told(r)[i] /\ i \in DOMAIN handled[r] BY <1>3, <1>4, <1>5, HandledTold
<1> QED BY <1>1, <1>6 DEF Final

(* A handled "done" was told when every thread had reported.               *)
LEMMA HandledDone ==
  ASSUME ReadInv, NEW r \in Starts, NEW i \in DOMAIN handled[r], handled[r][i] = Done
  PROVE  worker[r] \in {"told", "over"} /\ \A h \in Threads : fetch[r][h] = Reported
<1>1. i \in 1..Len(frames[r]) /\ i <= Len(handled[r]) BY HandledTold
<1>2. i \in DOMAIN Told(r) /\ Told(r)[i] = Done BY <1>1, HandledTold
<1>3. IsLast(Done) BY DEF IsLast
<1> QED BY <1>2, <1>3, ReadTypes DEF Ordered

-----------------------------------------------------------------------------
(* Who is shown.                                                             *)
LEMMA ShownIsRead ==
  ASSUME ViewInv, ~hasty, NEW r \in Starts, reader[r] \notin {"none", "over"}
  PROVE  Shown(r)
<1>1. PICK s \in Starts : Shown(s) BY DEF ViewInv
<1>2. r \in Nat /\ s \in Nat
  <2>1. Cardinality(Starts) \in Nat BY DownloadAssumption, FS_CardinalityType
  <2> QED BY <2>1, DownloadAssumption
<1>3. ~(r < s) /\ ~(r > s) BY <1>1 DEF Shown
<1> QED BY <1>1, <1>2, <1>3

(* A step that shows nothing.                                              *)
LEMMA ViewKept ==
  ASSUME ViewInv, view' = view, hasty' = hasty, handled' = handled,
         \A q \in Starts : \/ reader'[q] = reader[q]
                           \/ reader[q] = "asking" /\ reader'[q] = "reading"
  PROVE  ViewInv'
<1>1. \A q \in Starts : (reader'[q] = "none" <=> reader[q] = "none")
                        /\ (reader'[q] = "over" <=> reader[q] = "over")
  OBVIOUS
<1>2. InTurn' BY <1>1 DEF ViewInv, InTurn
<1>3. ASSUME NEW r \in Starts, Shown(r) PROVE Shown(r)'
  BY <1>1, <1>3 DEF Shown, Agrees, Proven, Final
<1>4. view.state = "idle" /\ (\A r \in Starts : reader[r] = "none") =>
         view'.state = "idle" /\ (\A r \in Starts : reader'[r] = "none")
  BY <1>1
<1> QED BY <1>2, <1>3, <1>4 DEF ViewInv

(* The button is enabled only when nothing is shown as running.            *)
LEMMA StartView ==
  ASSUME ReadInv, ViewInv, NEW r \in Starts, Start(r)
  PROVE  ViewInv'
<1>1. /\ reader[r] = "none" /\ handled[r] = <<>> /\ handled' = handled
      /\ view' = [state |-> "running", percent |-> 0]
  BY ReadTypes DEF Start, Reading
<1>2. reader'[r] = "asking" /\ \A q \in Starts \ {r} : reader'[q] = reader[q]
  BY ReadTypes DEF Start, Types, ClientTypes
<1>3. \A q \in Starts : q < r => reader[q] # "none" BY DEF Start
<1>4. Starts \subseteq Nat
  <2>1. Cardinality(Starts) \in Nat BY DownloadAssumption, FS_CardinalityType
  <2> QED BY <2>1, DownloadAssumption
<1>5. InTurn' BY <1>2, <1>3 DEF ViewInv, InTurn
<1>6. ASSUME ~hasty' PROVE Shown(r)'
  <2>1. \A q \in Starts : q < r => reader[q] = "over" BY <1>6 DEF Start
  <2>2. \A q \in Starts : q > r => reader[q] = "none" BY <1>1, <1>4 DEF ViewInv, InTurn
  <2>3. \A q \in Starts : (q > r => reader'[q] = "none") /\ (q < r => reader'[q] = "over")
    BY <1>2, <1>4, <2>1, <2>2
  <2>4. Agrees(view', <<>>)
    <3>1. DOMAIN <<>> = {} OBVIOUS
    <3>2. ~Final(<<>>) BY <3>1 DEF Final
    <3> QED BY <1>1, <3>2 DEF Agrees, Proven
  <2> QED BY <1>1, <1>2, <2>3, <2>4 DEF Shown, Agrees, Proven, Final
<1> QED BY <1>5, <1>6 DEF ViewInv

(* What the reader of r does to what is shown.                               *)
LEMMA ReaderView ==
  ASSUME ReadInv, ViewInv, NEW r \in Starts, reader[r] \in {"asking", "reading"},
         hasty' = hasty, reader'[r] # "none", \A q \in Starts \ {r} : reader'[q] = reader[q],
         Agrees(view, handled[r]) =>
            /\ reader'[r] # "over" => Agrees(view', handled'[r])
            /\ reader'[r] = "over" => view'.state \in {"done", "error"} /\ Proven(view', handled'[r])
  PROVE  ViewInv'
<1>1. Starts \subseteq Nat
  <2>1. Cardinality(Starts) \in Nat BY DownloadAssumption, FS_CardinalityType
  <2> QED BY <2>1, DownloadAssumption
<1>2. InTurn' BY DEF ViewInv, InTurn
<1>3. ASSUME ~hasty' PROVE Shown(r)'
  <2>1. Shown(r) BY <1>3, ShownIsRead
  <2>2. Agrees(view, handled[r]) BY <2>1 DEF Shown
  <2>3. \A q \in Starts : (q > r => reader'[q] = "none") /\ (q < r => reader'[q] = "over")
    <3> TAKE q \in Starts
    <3>1. q \in Nat /\ r \in Nat BY <1>1
    <3>2. q > r \/ q < r => q \in Starts \ {r} BY <3>1
    <3> QED BY <2>1, <3>2 DEF Shown
  <2>4. /\ reader'[r] # "over" => Agrees(view', handled'[r])
        /\ reader'[r] = "over" => view'.state \in {"done", "error"} /\ Proven(view', handled'[r])
    BY <2>2
  <2>5. /\ reader'[r] # "over" => Agrees(view, handled[r])'
        /\ reader'[r] = "over" => (view.state \in {"done", "error"} /\ Proven(view, handled[r]))'
    BY <2>4 DEF Agrees, Proven, Final
  <2> QED BY <2>3, <2>5 DEF Shown
<1> QED BY <1>2, <1>3 DEF ViewInv

(* Every step keeps the view true,                                         *)
LEMMA NextView ==
  ReadInv /\ ViewInv /\ [DownloadNext]_allDownloadVars => ViewInv'
<1> SUFFICES ASSUME ReadInv, ViewInv, [DownloadNext]_allDownloadVars PROVE ViewInv' OBVIOUS
<1>0. ReadInv' BY NextReading
<1>1. CASE UNCHANGED clientVars BY <1>1, ViewKept DEF clientVars
<1>2. ASSUME NEW r \in Starts, Opened(r) PROVE ViewInv'
  <2>1. Types BY <1>2, ReadTypes
  <2>2. \A q \in Starts : \/ reader'[q] = reader[q]
                          \/ reader[q] = "asking" /\ reader'[q] = "reading"
    BY <1>2, <2>1 DEF Opened, Types, ClientTypes
  <2> QED BY <1>2, <2>2, ViewKept DEF Opened
<1>3. ASSUME NEW r \in Starts, Read(r) \/ EndOfStream(r) PROVE ViewInv'
  <2>0. view \in Views /\ handled \in [Starts -> Seq(Messages)]
        /\ reader \in [Starts -> {"none", "asking", "reading", "over"}]
    BY <1>3, ReadTypes DEF Types, ClientTypes
  <2>1. LastLast' BY <1>0, HandledLast, PTL
  <2>2. \A i \in DOMAIN handled'[r] : IsLast(handled'[r][i]) => i = Len(handled'[r])
    BY <1>3, <2>1 DEF LastLast, IsLast
  <2>3. ASSUME NEW e \in Seq(Messages), handled'[r] = handled[r] \o e, Agrees(view, handled[r])
        PROVE  ShowAll(view, e) \in Views /\ Agrees(ShowAll(view, e), handled'[r])
    <3>1. PICK v \in Views : v = view BY <2>0
    <3>2. PICK h \in Seq(Messages) : h = handled[r] BY <2>0
    <3>3. PICK g : g = handled'[r] OBVIOUS
    <3>4. g = h \o e /\ Agrees(v, h) /\ \A i \in DOMAIN g : IsLast(g[i]) => i = Len(g)
      BY <2>2, <2>3, <3>1, <3>2, <3>3
    <3> QED BY <3>1, <3>3, <3>4, ShowsMore
  <2>4. CASE Read(r)
    <3>1. PICK n \in (taken[r] + 1)..Len(wire[r]) : Takes(r, n) BY <2>4, ReadTakes
    <3>2. PICK d : d = Drain(buffer[r] \o SubSeq(wire[r], taken[r] + 1, n)) OBVIOUS
    <3>3. handled'[r] = handled[r] \o d.events /\ view' = ShowAll(view, d.events)
      BY <2>0, <3>1, <3>2 DEF Takes
    <3>4. d.events \in Seq(Messages)
      <4>1. /\ wire[r] \in Seq(Symbol) /\ buffer[r] \in Seq(Symbol) /\ taken[r] \in Nat
            /\ Len(wire[r]) \in Nat
        BY <1>3, ReadTypes
      <4>2. PICK w \in Seq(Symbol) : w = SubSeq(wire[r], taken[r] + 1, n)
        <5>1. n \in Nat /\ taken[r] <= n /\ n <= Len(wire[r]) BY <4>1
        <5>2. SubSeq(wire[r], taken[r] + 1, n) \in Seq(Symbol) BY <4>1, <5>1, Piece
        <5> QED BY <5>2
      <4>3. buffer[r] \o w \in Seq(Symbol) BY <4>1, ConcatProperties
      <4> QED BY <3>2, <4>2, <4>3, DrainTypes
    <3>5. reader[r] = "reading" /\ reader' = reader /\ hasty' = hasty BY <2>4 DEF Read
    <3>6. Agrees(view, handled[r]) => Agrees(view', handled'[r]) BY <2>3, <3>3, <3>4
    <3> QED BY <1>3, <3>5, <3>6, ReaderView
  <2>5. CASE EndOfStream(r)
    <3>1. PICK e : e = Flush(buffer[r]) OBVIOUS
    <3>2. e \in Seq(Messages) BY <3>1, ParsedType DEF Flush
    <3>3. PICK s : s = ShowAll(view, e) OBVIOUS
    <3>4. /\ handled'[r] = handled[r] \o e
          /\ view' = [s EXCEPT !.state = IF @ = "running" THEN "done" ELSE @]
          /\ reader[r] = "reading" /\ reader'[r] = "over" /\ hasty' = hasty
          /\ \A q \in Starts \ {r} : reader'[q] = reader[q]
          /\ stream[r] = "ended" /\ stream' = stream
      BY <2>0, <2>5, <3>1, <3>3 DEF EndOfStream, downloadVars
    <3>5. Final(handled'[r])
      <4>1. ClosedFinal' BY <1>0, HandledEnd, PTL
      <4>2. Closing(r)' BY <3>4 DEF Closing
      <4> QED BY <1>3, <4>1, <4>2 DEF ClosedFinal, Final
    <3>6. ASSUME Agrees(view, handled[r])
          PROVE  view'.state \in {"done", "error"} /\ Proven(view', handled'[r])
      <4>1. s \in Views /\ Agrees(s, handled'[r]) BY <2>3, <3>2, <3>3, <3>4, <3>6
      <4>2. s.state \in {"done", "error"} /\ Proven(s, handled'[r]) BY <3>5, <4>1 DEF Agrees
      <4>3. view'.state = s.state /\ view'.percent = s.percent BY <3>4, <4>1, <4>2 DEF Views
      <4> QED BY <4>2, <4>3 DEF Proven
    <3> QED BY <1>3, <3>4, <3>6, ReaderView
  <2> QED BY <1>3, <2>4, <2>5
<1>4. ASSUME NEW r \in Starts, Throw(r) PROVE ViewInv'
  <2>0. view \in Views /\ handled \in [Starts -> Seq(Messages)]
        /\ reader \in [Starts -> {"none", "asking", "reading", "over"}]
    BY <1>4, ReadTypes DEF Types, ClientTypes
  <2>1. /\ reader[r] \in {"asking", "reading"} /\ reader'[r] = "over" /\ hasty' = hasty
        /\ \A q \in Starts \ {r} : reader'[q] = reader[q]
        /\ view'.state = "error"
    BY <1>4, <2>0 DEF Throw, Gone, Views
  <2> QED BY <1>4, <2>1, ReaderView DEF Proven
<1>5. ASSUME NEW r \in Starts, Start(r) PROVE ViewInv' BY <1>5, StartView
<1>6. CASE UNCHANGED allDownloadVars BY <1>1, <1>6 DEF allDownloadVars
<1> QED BY <1>1, <1>2, <1>3, <1>4, <1>5, <1>6 DEF DownloadNext, Run

(* as it is at first.                                                      *)
LEMMA InitView == SystemInit => ViewInv
BY DEF SystemInit, ClientInit, ViewInv, InTurn

(* So "done" is the truth.                                                 *)
LEMMA DoneIsDownloaded == ReadInv /\ ViewInv => DoneMeansDownloaded
<1> SUFFICES ASSUME ReadInv, ViewInv, view.state = "done", ~hasty
             PROVE  /\ view.percent = Total
                    /\ \E r \in Starts :
                          /\ reader[r] # "none" /\ \A q \in Starts : q > r => reader[q] = "none"
                          /\ \A h \in Threads : fetch[r][h] = Reported
                          /\ worker[r] \in {"told", "over"}
  BY DEF DoneMeansDownloaded
<1>1. PICK r \in Starts : Shown(r) BY DEF ViewInv
<1>2. Proven(view, handled[r]) BY <1>1 DEF Shown, Agrees
<1>3. view.percent = Total /\ \E i \in DOMAIN handled[r] : handled[r][i] = Done
  BY <1>2 DEF Proven
<1>4. worker[r] \in {"told", "over"} /\ \A h \in Threads : fetch[r][h] = Reported
  BY <1>3, HandledDone
<1> QED BY <1>1, <1>3, <1>4 DEF Shown

-----------------------------------------------------------------------------
(* The inductive invariant.                                                  *)
DownloadInv == ReadInv /\ Bounded /\ ViewInv

(* The parser's invariant, the threads' and the screen's hold together in  *)
(* every reachable state of a download, whatever the chunks and breaks.    *)
THEOREM DownloadInductive == DownloadSpec => []DownloadInv
<1>1. SystemInit => DownloadInv BY InitReading, InitBounded, InitView DEF DownloadInv
<1>2. DownloadInv /\ [DownloadNext]_allDownloadVars => DownloadInv'
  BY NextReading, NextBounded, NextView DEF DownloadInv, ReadInv, LayoutInv
<1> QED BY <1>1, <1>2, PTL DEF DownloadSpec

(* Every variable of a download keeps its type: the byte counter stays     *)
(* within the pieces (downloader.py:136-152), the sentinel is the last item*)
(* of the queue (download.py:65), and the reader's cursor within the wire. *)
THEOREM DownloadTypeCorrect == DownloadSpec => []DownloadTypeOK
<1>1. DownloadInv => DownloadTypeOK BY TypesFollow DEF DownloadInv
<1> QED BY <1>1, DownloadInductive, PTL

(* Wherever chunks end and whatever separates the frames, downloadModel    *)
(* (api.js:78-107) hands over each event once, in order, as soon as its    *)
(* frame was read; only a last frame without its blank line waits for the  *)
(* end of the stream.                                                      *)
THEOREM EventsOnce == DownloadSpec => []EventsHandledOnce
<1>1. DownloadInv => EventsHandledOnce BY HandledOnce DEF DownloadInv, EventsHandledOnce
<1> QED BY <1>1, DownloadInductive, PTL

(* StepDownload (steps.jsx:177-195) shows "done" only for a download whose *)
(* threads have all reported and whose worker has told its outcome, with   *)
(* the bar at its end, as long as no download was started before the last  *)
(* one's stream was over.                                                  *)
THEOREM DoneIsTrue == DownloadSpec => []DoneMeansDownloaded
<1>1. DownloadInv => DoneMeansDownloaded BY DoneIsDownloaded DEF DownloadInv
<1> QED BY <1>1, DownloadInductive, PTL
=============================================================================
