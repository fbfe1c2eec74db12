-------------------------- MODULE StreamRelayProofs --------------------------
(***************************************************************************)
(* What holds of the relay for every answer, every way it is cut into      *)
(* chunks, every size of the channel and whatever the client does.         *)
(*                                                                         *)
(* The argument: reading a text in two chunks says what reading it in one  *)
(* says (CutsAddUp), so what the relay knows is a function of how much it  *)
(* has read; and what the client has, what is in the channel and what the  *)
(* relay holds are adjacent parts of one answer, cut at numbers that grow. *)
(***************************************************************************)
EXTENDS StreamRelay, SequenceTheorems, WellFoundedInduction, TLAPS

-----------------------------------------------------------------------------
(* The pieces of an answer: their number, and which stands beside which.   *)

Piece == Events \X {"head", "tail", "end"}
Fresh == [pending |-> <<>>, summary |-> {}]

LEMMA PiecesShape ==
  ASSUME NEW b \in Seq(Events)
  PROVE  /\ Pieces(b) \in Seq(Piece)
         /\ Len(Pieces(b)) = 3 * Len(b)
         /\ \A k \in 1 .. 3 * Len(b) :
              /\ Pieces(b)[k] \in Piece
              /\ Pieces(b)[k][2] = "head" <=> (k + 2) % 3 = 0
              /\ Pieces(b)[k][2] = "tail" <=> (k + 2) % 3 = 1
              /\ Pieces(b)[k][2] = "end" <=> (k + 2) % 3 = 2
              /\ Pieces(b)[k][1] = b[(k + 2) \div 3]
<1> DEFINE N == 3 * Len(b)
<1>1. Len(b) \in Nat /\ N \in Nat
  OBVIOUS
<1>2. ASSUME NEW k \in 1 .. N
      PROVE  /\ (k + 2) \div 3 \in 1 .. Len(b)
             /\ (k + 2) % 3 \in 0 .. 2
  BY <1>1
<1>3. ASSUME NEW k \in 1 .. N
      PROVE  Pieces(b)[k] = <<b[(k + 2) \div 3], Parts[((k + 2) % 3) + 1]>>
  BY DEF Pieces
<1>4. \A r \in 0 .. 2 : Parts[r + 1] = (IF r = 0 THEN "head" ELSE IF r = 1 THEN "tail" ELSE "end")
  BY DEF Parts
<1>5. ASSUME NEW k \in 1 .. N
      PROVE  /\ Pieces(b)[k] \in Piece
             /\ Pieces(b)[k][2] = "head" <=> (k + 2) % 3 = 0
             /\ Pieces(b)[k][2] = "tail" <=> (k + 2) % 3 = 1
             /\ Pieces(b)[k][2] = "end" <=> (k + 2) % 3 = 2
             /\ Pieces(b)[k][1] = b[(k + 2) \div 3]
  <2>1. b[(k + 2) \div 3] \in Events
    BY <1>2
  <2>2. Parts[((k + 2) % 3) + 1] = (IF (k + 2) % 3 = 0 THEN "head" ELSE IF (k + 2) % 3 = 1 THEN "tail" ELSE "end")
    BY <1>2, <1>4
  <2> DEFINE part == IF (k + 2) % 3 = 0 THEN "head" ELSE IF (k + 2) % 3 = 1 THEN "tail" ELSE "end"
  <2>3. Pieces(b)[k] = <<b[(k + 2) \div 3], part>>
    BY <1>3, <2>2
  <2>4. part \in {"head", "tail", "end"}
    OBVIOUS
  <2>5. /\ part = "head" <=> (k + 2) % 3 = 0
        /\ part = "tail" <=> (k + 2) % 3 = 1
        /\ part = "end" <=> (k + 2) % 3 = 2
    BY <1>2
  <2> HIDE DEF part
  <2> QED BY <2>1, <2>3, <2>4, <2>5 DEF Piece
<1>6. Pieces(b) \in Seq(Piece) /\ Len(Pieces(b)) = N
  BY <1>1, <1>5 DEF Pieces
<1> QED BY <1>5, <1>6

LEMMA PiecesLayout ==
  ASSUME NEW b \in Seq(Events), NEW k \in 1 .. 3 * Len(b)
  PROVE  LET P == Pieces(b) IN
         /\ P[k][2] = "head" /\ k > 1 => P[k - 1][2] = "end"
         /\ k = 1 => P[k][2] = "head"
         /\ P[k][2] = "tail" => k > 1 /\ P[k - 1] = <<P[k][1], "head">>
         /\ P[k][2] = "end" => k > 2 /\ P[k - 1][2] = "tail" 
         /\ P[k][2] = "head" /\ k < 3 * Len(b) => P[k + 1] = <<P[k][1], "tail">>
         /\ P[k][2] = "tail" /\ k < 3 * Len(b) => P[k + 1][2] = "end"
         /\ P[k][2] = "end" /\ k < 3 * Len(b) => P[k + 1][2] = "head"
<1>1. Len(b) \in Nat
  OBVIOUS
<1>2. k > 1 => k - 1 \in 1 .. 3 * Len(b)
  BY <1>1
<1>3. k < 3 * Len(b) => k + 1 \in 1 .. 3 * Len(b)
  BY <1>1
<1> DEFINE P == Pieces(b)
           r == (k + 2) % 3
<1>4. /\ P[k][2] = "head" <=> r = 0
      /\ P[k][2] = "tail" <=> r = 1
      /\ P[k][2] = "end" <=> r = 2
      /\ P[k][1] = b[(k + 2) \div 3]
  BY PiecesShape
<1>5. ASSUME k > 1
      PROVE  /\ P[k - 1] = <<P[k - 1][1], P[k - 1][2]>>
             /\ P[k - 1][2] = "head" <=> (k + 1) % 3 = 0
             /\ P[k - 1][2] = "tail" <=> (k + 1) % 3 = 1
             /\ P[k - 1][2] = "end" <=> (k + 1) % 3 = 2
             /\ P[k - 1][1] = b[(k + 1) \div 3]
  <2>1. (k - 1) + 2 = k + 1
    OBVIOUS
  <2>2. P[k - 1] \in Piece
    BY <1>2, <1>5, PiecesShape
  <2> QED BY <1>2, <1>5, <2>1, <2>2, PiecesShape DEF Piece
<1>6. ASSUME k < 3 * Len(b)
      PROVE  /\ P[k + 1] = <<P[k + 1][1], P[k + 1][2]>>
             /\ P[k + 1][2] = "head" <=> (k + 3) % 3 = 0
             /\ P[k + 1][2] = "tail" <=> (k + 3) % 3 = 1
             /\ P[k + 1][2] = "end" <=> (k + 3) % 3 = 2
             /\ P[k + 1][1] = b[(k + 3) \div 3]
  <2>1. (k + 1) + 2 = k + 3
    OBVIOUS
  <2>2. P[k + 1] \in Piece
    BY <1>3, <1>6, PiecesShape
  <2> QED BY <1>3, <1>6, <2>1, <2>2, PiecesShape DEF Piece
<1>7. /\ r = 0 => (k + 1) % 3 = 2 /\ (k + 3) % 3 = 1 /\ (k + 3) \div 3 = (k + 2) \div 3
      /\ r = 1 => (k + 1) % 3 = 0 /\ (k + 3) % 3 = 2 /\ (k + 1) \div 3 = (k + 2) \div 3 /\ k > 1
      /\ r = 2 => (k + 1) % 3 = 1 /\ (k + 3) % 3 = 0 /\ k > 2
      /\ k = 1 => r = 0
  OBVIOUS
<1> HIDE DEF r
<1> QED BY <1>4, <1>5, <1>6, <1>7

-----------------------------------------------------------------------------
(* The last end of a text.                                                 *)

LEMMA GreatestExists ==
  ASSUME NEW n \in Nat, NEW T, T \subseteq 0 .. n, T # {}
  PROVE  \E x \in T : \A y \in T : y <= x
<1> DEFINE R == {ss \in Nat \X Nat : ss[1] < ss[2]}
           D == {n - x : x \in T}
<1>1. \A p, q \in Nat : p < q => <<p, q>> \in R
  OBVIOUS
<1>2. IsWellFoundedOn(R, Nat)
  BY NatLessThanWellFounded DEF OpToRel
<1> HIDE DEF R
<1>3. D \subseteq Nat /\ D # {}
  <2>1. \A x \in T : n - x \in Nat
    OBVIOUS
  <2>2. PICK x \in T : TRUE
    OBVIOUS
  <2> QED BY <2>1, <2>2
<1>4. PICK d \in D : \A e \in D : ~ (<<e, d>> \in R)
  <2> HIDE DEF D
  <2> QED BY <1>2, <1>3, WFMin
<1>5. PICK x \in T : d = n - x
  BY <1>4
<1>6. ASSUME NEW y \in T PROVE y <= x
  <2>1. n - y \in D /\ n - y \in Nat /\ d \in Nat
    BY <1>3, <1>4
  <2>2. ~ (n - y < d)
    BY <1>1, <1>4, <2>1
  <2> QED BY <1>5, <2>2
<1> QED BY <1>6

LEMMA LastEndIs ==
  ASSUME NEW text \in Seq(Piece)
  PROVE  /\ LastEnd(text) \in {0} \cup Ends(text)
         /\ LastEnd(text) \in 0 .. Len(text)
         /\ \A k \in Ends(text) : k <= LastEnd(text)
<1>1. {0} \cup Ends(text) \subseteq 0 .. Len(text)
  BY DEF Ends
<1>2. PICK x \in {0} \cup Ends(text) : \A y \in {0} \cup Ends(text) : y <= x
  <2> DEFINE T == {0} \cup Ends(text)
  <2>1. T # {} /\ T \subseteq 0 .. Len(text) /\ Len(text) \in Nat
    BY <1>1
  <2> HIDE DEF T
  <2>2. \E x \in T : \A y \in T : y <= x
    BY <2>1, GreatestExists
  <2> QED BY <2>2 DEF T
<1>3. LastEnd(text) \in {0} \cup Ends(text) /\ \A k \in Ends(text) : k <= LastEnd(text)
  BY <1>2 DEF LastEnd
<1> QED BY <1>1, <1>3

LEMMA LastEndIsUnique ==
  ASSUME NEW text \in Seq(Piece), NEW i \in {0} \cup Ends(text),
         \A k \in Ends(text) : k <= i
  PROVE  LastEnd(text) = i
<1>1. i \in Nat /\ \A k \in Ends(text) : k \in 1 .. Len(text)
  BY DEF Ends
<1> QED BY <1>1, LastEndIs

-----------------------------------------------------------------------------
(* The lines of a text do not depend on where it is cut.                   *)

LEMMA PartIs ==
  ASSUME NEW text \in Seq(Piece), NEW m \in Nat \ {0}, NEW n \in 0 .. Len(text)
  PROVE  /\ SubSeq(text, m, n) \in Seq(Piece)
         /\ Len(SubSeq(text, m, n)) = IF m <= n THEN n - m + 1 ELSE 0
         /\ \A i \in 1 .. n - m + 1 : SubSeq(text, m, n)[i] = text[m + i - 1]
<1>1. \A i \in m .. n : text[i] \in Piece
  OBVIOUS
<1>2. m \in Int /\ n \in Int
  OBVIOUS
<1> QED BY <1>1, <1>2, SubSeqProperties

LEMMA PartOfRest ==
  ASSUME NEW text \in Seq(Piece), NEW e \in 0 .. Len(text),
         NEW m \in Nat \ {0}, NEW n \in 0 .. Len(text) - e
  PROVE  SubSeq(SubSeq(text, e + 1, Len(text)), m, n) = SubSeq(text, e + m, e + n)
<1> DEFINE rest == SubSeq(text, e + 1, Len(text))
           x == SubSeq(rest, m, n)
           y == SubSeq(text, e + m, e + n)
<1>1. /\ rest \in Seq(Piece) /\ Len(rest) = Len(text) - e
      /\ \A i \in 1 .. Len(text) - e : rest[i] = text[e + i]
  <2>1. \A i \in e + 1 .. Len(text) : text[i] \in Piece
    OBVIOUS
  <2>2. /\ SubSeq(text, e + 1, Len(text)) \in Seq(Piece)
        /\ Len(SubSeq(text, e + 1, Len(text))) = IF e + 1 <= Len(text) THEN Len(text) - (e + 1) + 1 ELSE 0
        /\ \A i \in 1 .. Len(text) - (e + 1) + 1 : SubSeq(text, e + 1, Len(text))[i] = text[e + 1 + i - 1]
    BY <2>1, SubSeqProperties
  <2> QED BY <2>2
<1> HIDE DEF rest
<1>2. /\ x \in Seq(Piece) /\ Len(x) = (IF m <= n THEN n - m + 1 ELSE 0)
      /\ \A i \in 1 .. n - m + 1 : x[i] = rest[m + i - 1]
  <2>1. \A i \in m .. n : rest[i] \in Piece
    BY <1>1
  <2> QED BY <2>1, SubSeqProperties
<1>3. /\ y \in Seq(Piece) /\ Len(y) = (IF m <= n THEN n - m + 1 ELSE 0)
      /\ \A i \in 1 .. n - m + 1 : y[i] = text[e + m + i - 1]
  <2>1. \A i \in e + m .. e + n : text[i] \in Piece
    OBVIOUS
  <2>2. /\ y \in Seq(Piece) /\ Len(y) = (IF e + m <= e + n THEN e + n - (e + m) + 1 ELSE 0)
        /\ \A i \in 1 .. e + n - (e + m) + 1 : y[i] = text[e + m + i - 1]
    BY <2>1, SubSeqProperties
  <2> QED BY <2>2
<1>4. \A i \in 1 .. Len(x) : x[i] = y[i]
  <2>1. SUFFICES ASSUME NEW i \in 1 .. Len(x) PROVE x[i] = y[i]
    OBVIOUS
  <2>2. m <= n /\ i \in 1 .. n - m + 1
    BY <1>2
  <2>3. m + i - 1 \in 1 .. Len(text) - e
    BY <2>2
  <2>4. rest[m + i - 1] = text[e + (m + i - 1)]
    BY <1>1, <2>3
  <2>5. e + (m + i - 1) = e + m + i - 1
    BY <2>2
  <2> QED BY <1>2, <1>3, <2>2, <2>4, <2>5
<1> HIDE DEF x, y
<1>5. x = y
  BY <1>2, <1>3, <1>4, SeqEqual
<1> QED BY <1>5 DEF x, y, rest

LEMMA AfterAnEnd ==
  ASSUME NEW text \in Seq(Piece), NEW e \in {0} \cup Ends(text),
         NEW rest, rest = SubSeq(text, e + 1, Len(text))
  PROVE  /\ rest \in Seq(Piece)
         /\ Rest(rest) = Rest(text)
         /\ Lines(rest) = {SubSeq(text, g[1] + 1, g[2] - 1) : g \in {h \in Gaps(text) : h[2] > e}}
<1>1. e \in 0 .. Len(text) /\ \A k \in Ends(text) : k \in 1 .. Len(text)
  BY DEF Ends
<1>2. /\ rest \in Seq(Piece) /\ Len(rest) = Len(text) - e
      /\ \A i \in 1 .. Len(text) - e : rest[i] = text[e + i]
  <2>1. \A i \in e + 1 .. Len(text) : text[i] \in Piece
    BY <1>1
  <2>2. /\ rest \in Seq(Piece)
        /\ Len(rest) = IF e + 1 <= Len(text) THEN Len(text) - (e + 1) + 1 ELSE 0
        /\ \A i \in 1 .. Len(text) - (e + 1) + 1 : rest[i] = text[e + 1 + i - 1]
    BY <1>1, <2>1, SubSeqProperties
  <2> QED BY <1>1, <2>2
<1>3. \A k \in Nat : k \in Ends(rest) <=> k > 0 /\ e + k \in Ends(text)
  BY <1>1, <1>2 DEF Ends
<1>4. \A k \in Ends(rest) : k \in 1 .. Len(rest)
  BY <1>2 DEF Ends
<1>5. Rest(rest) = Rest(text)
  <2> DEFINE l == LastEnd(text)
  <2>1. l \in {0} \cup Ends(text) /\ l \in 0 .. Len(text) /\ \A k \in Ends(text) : k <= l
    BY LastEndIs
  <2>2. e <= l
    BY <1>1, <2>1
  <2>3. l - e \in {0} \cup Ends(rest)
    <3>1. l - e \in Nat /\ e + (l - e) = l
      BY <1>1, <2>1, <2>2
    <3>2. l = e \/ l \in Ends(text)
      BY <1>1, <2>1, <2>2
    <3> QED BY <1>1, <1>3, <2>1, <3>1, <3>2
  <2>4. \A k \in Ends(rest) : k <= l - e
    <3>1. SUFFICES ASSUME NEW k \in Ends(rest) PROVE k <= l - e
      OBVIOUS
    <3>2. k \in Nat /\ e + k \in Ends(text)
      BY <1>3, <1>4
    <3> QED BY <1>1, <2>1, <3>2
  <2>5. LastEnd(rest) = l - e
    BY <1>2, <2>3, <2>4, LastEndIsUnique
  <2>6. SubSeq(rest, l - e + 1, Len(rest)) = SubSeq(text, e + (l - e + 1), e + Len(rest))
    <3>1. l - e + 1 \in Nat \ {0} /\ Len(rest) \in 0 .. Len(text) - e
      BY <1>1, <1>2, <2>1, <2>2
    <3> QED BY <1>1, <3>1, PartOfRest
  <2>7. e + (l - e + 1) = l + 1 /\ e + Len(rest) = Len(text)
    BY <1>1, <1>2, <2>1
  <2> QED BY <2>5, <2>6, <2>7 DEF Rest
<1>6. \A i, j \in Nat : <<i, j>> \in Gaps(rest) <=> <<e + i, e + j>> \in Gaps(text)
  <2>1. SUFFICES ASSUME NEW i \in Nat, NEW j \in Nat
                 PROVE  <<i, j>> \in Gaps(rest) <=> <<e + i, e + j>> \in Gaps(text)
    OBVIOUS
  <2>2. ASSUME <<i, j>> \in Gaps(rest) PROVE <<e + i, e + j>> \in Gaps(text)
    <3>1. i \in {0} \cup Ends(rest) /\ j \in Ends(rest) /\ i < j
          /\ \A k \in Ends(rest) : k <= i \/ j <= k
      BY <2>2 DEF Gaps
    <3>2. e + i \in {0} \cup Ends(text) /\ e + j \in Ends(text) /\ e + i < e + j
      <4>1. i = 0 => e + i = e
        BY <1>1
      <4>2. i # 0 => e + i \in Ends(text)
        BY <1>3, <3>1
      <4>3. e + j \in Ends(text)
        BY <1>3, <3>1
      <4> QED BY <1>1, <3>1, <4>1, <4>2, <4>3
    <3>3. ASSUME NEW k \in Ends(text) PROVE k <= e + i \/ e + j <= k
      <4>1. CASE k <= e
        BY <1>1, <4>1
      <4>2. CASE k > e
        <5>1. k - e \in Nat /\ k - e > 0 /\ e + (k - e) = k
          BY <1>1, <4>2
        <5>2. k - e \in Ends(rest)
          BY <1>3, <5>1
        <5> QED BY <1>1, <3>1, <5>2
      <4> QED BY <1>1, <4>1, <4>2
    <3> QED BY <3>2, <3>3 DEF Gaps
  <2>3. ASSUME <<e + i, e + j>> \in Gaps(text) PROVE <<i, j>> \in Gaps(rest)
    <3>1. e + i \in {0} \cup Ends(text) /\ e + j \in Ends(text) /\ e + i < e + j
          /\ \A k \in Ends(text) : k <= e + i \/ e + j <= k
      BY <2>3 DEF Gaps
    <3>2. i < j /\ j > 0 /\ (i = 0 \/ (i > 0 /\ e + i \in Ends(text)))
      BY <1>1, <3>1
    <3>3. i \in {0} \cup Ends(rest) /\ j \in Ends(rest)
      BY <1>3, <3>1, <3>2
    <3>4. ASSUME NEW k \in Ends(rest) PROVE k <= i \/ j <= k
      <4>1. k \in Nat /\ e + k \in Ends(text)
        BY <1>3, <1>4
      <4> QED BY <1>1, <3>1, <4>1
    <3> QED BY <3>2, <3>3, <3>4 DEF Gaps
  <2> QED BY <2>2, <2>3
<1>7. \A g \in Gaps(rest) : g = <<g[1], g[2]>> /\ g[1] \in Nat /\ g[2] \in 1 .. Len(rest)
  BY <1>4 DEF Gaps
<1>8. \A g \in Gaps(text) : g = <<g[1], g[2]>> /\ g[1] \in Nat /\ g[2] \in 1 .. Len(text) /\ (g[2] > e => g[1] >= e)
  BY <1>1 DEF Gaps
<1>9. ASSUME NEW i \in Nat, NEW j \in 1 .. Len(rest)
      PROVE  SubSeq(rest, i + 1, j - 1) = SubSeq(text, e + i + 1, e + j - 1)
  <2>1. i + 1 \in Nat \ {0} /\ j - 1 \in 0 .. Len(text) - e
    BY <1>1, <1>2
  <2>2. SubSeq(rest, i + 1, j - 1) = SubSeq(text, e + (i + 1), e + (j - 1))
    BY <1>1, <2>1, PartOfRest
  <2>3. e + (i + 1) = e + i + 1 /\ e + (j - 1) = e + j - 1
    BY <1>1, <1>2
  <2> QED BY <2>2, <2>3
<1> DEFINE Later == {h \in Gaps(text) : h[2] > e}
<1>10. ASSUME NEW g \in Gaps(rest)
       PROVE  \E h \in Later : SubSeq(rest, g[1] + 1, g[2] - 1) = SubSeq(text, h[1] + 1, h[2] - 1)
  <2> DEFINE h == <<e + g[1], e + g[2]>>
  <2>1. g = <<g[1], g[2]>> /\ g[1] \in Nat /\ g[2] \in 1 .. Len(rest) /\ g[2] \in Nat
    <3>1. g = <<g[1], g[2]>> /\ g[1] \in Nat /\ g[2] \in 1 .. Len(rest)
      BY <1>7
    <3> QED BY <1>1, <1>2, <3>1
  <2>2. h \in Gaps(text)
    BY <1>6, <2>1
  <2>3. h[1] = e + g[1] /\ h[2] = e + g[2] /\ h[2] > e
    BY <1>1, <2>1
  <2>4. SubSeq(rest, g[1] + 1, g[2] - 1) = SubSeq(text, e + g[1] + 1, e + g[2] - 1)
    BY <1>9, <2>1
  <2>5. h \in Later
    BY <2>2, <2>3
  <2>6. SubSeq(rest, g[1] + 1, g[2] - 1) = SubSeq(text, h[1] + 1, h[2] - 1)
    <3> HIDE DEF h
    <3>1. e + g[1] + 1 = h[1] + 1 /\ e + g[2] - 1 = h[2] - 1
      BY <1>1, <2>1, <2>3
    <3> QED BY <2>4, <3>1
  <2> HIDE DEF h, Later
  <2> QED BY <2>5, <2>6
<1>11. ASSUME NEW h \in Later
       PROVE  \E g \in Gaps(rest) : SubSeq(rest, g[1] + 1, g[2] - 1) = SubSeq(text, h[1] + 1, h[2] - 1)
  <2> DEFINE g == <<h[1] - e, h[2] - e>>
  <2>1. h \in Gaps(text) /\ h[2] > e /\ h[1] >= e /\ h = <<h[1], h[2]>> /\ h[1] \in Nat /\ h[2] \in 1 .. Len(text)
    BY <1>8
  <2>2. h[1] - e \in Nat /\ h[2] - e \in 1 .. Len(rest) /\ e + (h[1] - e) = h[1] /\ e + (h[2] - e) = h[2]
    BY <1>1, <1>2, <2>1
  <2>3. g \in Gaps(rest)
    BY <1>6, <2>1, <2>2
  <2>4. SubSeq(rest, h[1] - e + 1, h[2] - e - 1) = SubSeq(text, e + (h[1] - e) + 1, e + (h[2] - e) - 1)
    BY <1>9, <2>2
  <2>6. g[1] = h[1] - e /\ g[2] = h[2] - e
    OBVIOUS
  <2>5. SubSeq(rest, g[1] + 1, g[2] - 1) = SubSeq(text, h[1] + 1, h[2] - 1)
    <3>1. SubSeq(rest, g[1] + 1, g[2] - 1) = SubSeq(rest, h[1] - e + 1, h[2] - e - 1)
      BY <2>6
    <3>2. SubSeq(text, e + (h[1] - e) + 1, e + (h[2] - e) - 1) = SubSeq(text, h[1] + 1, h[2] - 1)
      <4>1. e + (h[1] - e) + 1 = h[1] + 1 /\ e + (h[2] - e) - 1 = h[2] - 1
        BY <2>2
      <4> QED BY <4>1
    <3> QED BY <2>4, <3>1, <3>2
  <2> HIDE DEF g
  <2> QED BY <2>3, <2>5
<1> HIDE DEF Later
<1>12. Lines(rest) = {SubSeq(text, g[1] + 1, g[2] - 1) : g \in Later}
  <2>1. \A x \in Lines(rest) : x \in {SubSeq(text, g[1] + 1, g[2] - 1) : g \in Later}
    <3>1. SUFFICES ASSUME NEW g \in Gaps(rest)
                   PROVE  SubSeq(rest, g[1] + 1, g[2] - 1) \in {SubSeq(text, h[1] + 1, h[2] - 1) : h \in Later}
      BY DEF Lines
    <3>2. PICK h \in Later : SubSeq(rest, g[1] + 1, g[2] - 1) = SubSeq(text, h[1] + 1, h[2] - 1)
      BY <1>10
    <3> QED BY <3>2
  <2>2. \A x \in {SubSeq(text, g[1] + 1, g[2] - 1) : g \in Later} : x \in Lines(rest)
    <3>1. SUFFICES ASSUME NEW h \in Later PROVE SubSeq(text, h[1] + 1, h[2] - 1) \in Lines(rest)
      OBVIOUS
    <3>2. PICK g \in Gaps(rest) : SubSeq(rest, g[1] + 1, g[2] - 1) = SubSeq(text, h[1] + 1, h[2] - 1)
      BY <1>11
    <3> QED BY <3>2 DEF Lines
  <2> QED BY <2>1, <2>2
<1> QED BY <1>2, <1>5, <1>12 DEF Later

LEMMA PartOfFirst ==
  ASSUME NEW x \in Seq(Piece), NEW y \in Seq(Piece),
         NEW m \in Nat \ {0}, NEW n \in 0 .. Len(x)
  PROVE  SubSeq(x \o y, m, n) = SubSeq(x, m, n)
<1>1. CASE m <= n
  <2>1. m \in 1 .. Len(x) /\ n \in 1 .. Len(x)
    BY <1>1
  <2> QED BY <2>1, SubSeqOfConcat1
<1>2. CASE n < m
  <2>1. SubSeq(x \o y, m, n) = <<>> /\ SubSeq(x, m, n) = <<>>
    BY <1>2, SubSeqEmpty
  <2> QED BY <2>1
<1> QED BY <1>1, <1>2

LEMMA RestIsTyped ==
  ASSUME NEW text \in Seq(Piece)
  PROVE  Rest(text) \in Seq(Piece)
<1>1. LastEnd(text) \in {0} \cup Ends(text)
  BY LastEndIs
<1> QED BY <1>1, AfterAnEnd DEF Rest

LEMMA AllSayOfBoth ==
  ASSUME NEW A, NEW B
  PROVE  AllSay(A \cup B) = AllSay(A) \cup AllSay(B)
<1>1. ASSUME NEW C, NEW f PROVE f \in AllSay(C) <=> \E line \in C : f \in Says(line)
  BY DEF AllSay
<1>2. \A f : f \in AllSay(A \cup B) <=> f \in AllSay(A) \cup AllSay(B)
  BY <1>1
<1> QED BY <1>2

(* What has been read of a text, taken as a whole.                         *)
LEMMA IngestOfFresh ==
  ASSUME NEW x \in Seq(Piece)
  PROVE  /\ Ingest(Fresh, x).pending = Rest(x)
         /\ Ingest(Fresh, x).summary = AllSay(Lines(x))
         /\ Ingest(Fresh, x) \in [pending : Seq(Piece), summary : SUBSET Facts]
<1>1. <<>> \o x = x
  BY ConcatEmptySeq
<1>2. AllSay(Lines(x)) \subseteq Facts
  BY DEF Says, AllSay
<1> QED BY <1>1, <1>2, RestIsTyped DEF Ingest, Fresh

LEMMA CutsAddUp ==
  ASSUME NEW x \in Seq(Piece), NEW y \in Seq(Piece)
  PROVE  Ingest(Ingest(Fresh, x), y) = Ingest(Fresh, x \o y)
<1> DEFINE text == x \o y
           e == LastEnd(x)
           rest == Rest(x) \o y
           Later == {h \in Gaps(text) : h[2] > e}
<1>1. /\ text \in Seq(Piece) /\ Len(text) = Len(x) + Len(y) /\ Len(x) \in Nat /\ Len(y) \in Nat
      /\ \A i \in 1 .. Len(x) : text[i] = x[i]
  BY ConcatProperties
<1>2. e \in {0} \cup Ends(x) /\ e \in 0 .. Len(x) /\ \A k \in Ends(x) : k <= e
  BY LastEndIs
<1> HIDE DEF text, e
<1>3. /\ \A k \in 1 .. Len(x) : k \in Ends(text) <=> k \in Ends(x)
      /\ \A k \in Ends(x) : k \in 1 .. Len(x)
      /\ \A k \in Ends(text) : k \in 1 .. Len(text)
  BY <1>1 DEF Ends
<1>4. e \in {0} \cup Ends(text)
  BY <1>2, <1>3
<1>5. rest = SubSeq(text, e + 1, Len(text))
  <2>1. SubSeq(x, e + 1, Len(x)) = SubSeq(text, e + 1, Len(x))
    <3>1. e + 1 \in Nat \ {0} /\ Len(x) \in 0 .. Len(x)
      BY <1>1, <1>2
    <3> QED BY <3>1, PartOfFirst DEF text
  <2>2. y = SubSeq(text, Len(x) + 1, Len(text))
    <3>1. CASE y = <<>>
      <4>1. Len(text) < Len(x) + 1
        BY <1>1, <3>1
      <4> QED BY <1>1, <3>1, <4>1, SubSeqEmpty
    <3>2. CASE y # <<>>
      <4>1. Len(y) > 0
        BY <3>2
      <4>2. Len(x) + 1 \in Len(x) + 1 .. Len(x) + Len(y) /\ Len(text) \in Len(x) + 1 .. Len(x) + Len(y)
        BY <1>1, <4>1
      <4>3. SubSeq(text, Len(x) + 1, Len(text)) = SubSeq(y, Len(x) + 1 - Len(x), Len(text) - Len(x))
        BY <4>2, SubSeqOfConcat2 DEF text
      <4>4. Len(x) + 1 - Len(x) = 1 /\ Len(text) - Len(x) = Len(y)
        BY <1>1
      <4>5. SubSeq(y, 1, Len(y)) = y
        BY SubSeqFull
      <4> QED BY <4>3, <4>4, <4>5
    <3> QED BY <3>1, <3>2
  <2>3. SubSeq(text, e + 1, Len(x)) \o SubSeq(text, Len(x) + 1, Len(text)) = SubSeq(text, e + 1, Len(text))
    <3>1. /\ e + 1 \in 1 .. Len(text) + 1
          /\ Len(x) \in (e + 1) - 1 .. Len(text)
          /\ Len(text) \in Len(x) .. Len(text)
      BY <1>1, <1>2
    <3> QED BY <1>1, <3>1, ConcatAdjacentSubSeq
  <2>4. Rest(x) = SubSeq(x, e + 1, Len(x))
    BY DEF Rest, e
  <2> QED BY <2>1, <2>2, <2>3, <2>4
<1>6. /\ rest \in Seq(Piece) /\ Rest(rest) = Rest(text)
      /\ Lines(rest) = {SubSeq(text, g[1] + 1, g[2] - 1) : g \in Later}
  <2> HIDE DEF rest
  <2> QED BY <1>1, <1>4, <1>5, AfterAnEnd
<1> HIDE DEF Later
<1>7. \A g \in Gaps(x) : g \in Gaps(text) /\ g[2] <= e
  <2>1. SUFFICES ASSUME NEW g \in Gaps(x) PROVE g \in Gaps(text) /\ g[2] <= e
    OBVIOUS
  <2>2. /\ g \in ({0} \cup Ends(x)) \X Ends(x) /\ g[1] < g[2]
        /\ \A k \in Ends(x) : k <= g[1] \/ g[2] <= k
    BY DEF Gaps
  <2>3. g[2] <= e /\ g[2] \in 1 .. Len(x) /\ g[1] \in 0 .. Len(x)
    BY <1>1, <1>2, <1>3, <2>2
  <2>4. g \in ({0} \cup Ends(text)) \X Ends(text)
    BY <1>3, <2>2
  <2>5. ASSUME NEW k \in Ends(text) PROVE k <= g[1] \/ g[2] <= k
    BY <1>1, <1>3, <2>2, <2>3
  <2> QED BY <2>2, <2>3, <2>4, <2>5 DEF Gaps
<1>8. \A g \in Gaps(text) : g \in Later \/ g \in Gaps(x)
  <2>1. SUFFICES ASSUME NEW g \in Gaps(text), g \notin Later PROVE g \in Gaps(x)
    OBVIOUS
  <2>2. /\ g \in ({0} \cup Ends(text)) \X Ends(text) /\ g[1] < g[2]
        /\ \A k \in Ends(text) : k <= g[1] \/ g[2] <= k
    BY DEF Gaps
  <2>3. g[2] \in 1 .. Len(x) /\ (g[1] = 0 \/ g[1] \in 1 .. Len(x))
    BY <1>1, <1>2, <1>3, <2>1, <2>2 DEF Later
  <2>4. g \in ({0} \cup Ends(x)) \X Ends(x)
    BY <1>3, <2>2, <2>3
  <2>5. \A k \in Ends(x) : k <= g[1] \/ g[2] <= k
    BY <1>3, <2>2
  <2> QED BY <2>2, <2>4, <2>5 DEF Gaps
<1>9. \A g \in Gaps(x) : SubSeq(x, g[1] + 1, g[2] - 1) = SubSeq(text, g[1] + 1, g[2] - 1)
  <2>1. SUFFICES ASSUME NEW g \in Gaps(x)
                 PROVE  SubSeq(x, g[1] + 1, g[2] - 1) = SubSeq(text, g[1] + 1, g[2] - 1)
    OBVIOUS
  <2>2. g[2] \in 1 .. Len(x) /\ g[1] \in Nat
    BY <1>1, <1>3 DEF Gaps
  <2>3. g[1] + 1 \in Nat \ {0} /\ g[2] - 1 \in 0 .. Len(x)
    BY <2>2
  <2> QED BY <2>3, PartOfFirst DEF text
<1>10. Lines(text) = Lines(x) \cup Lines(rest)
  <2>1. ASSUME NEW g \in Gaps(text) PROVE SubSeq(text, g[1] + 1, g[2] - 1) \in Lines(x) \cup Lines(rest)
    <3>1. CASE g \in Later
      BY <1>6, <3>1
    <3>2. CASE g \in Gaps(x)
      BY <1>9, <3>2 DEF Lines
    <3> QED BY <1>8, <3>1, <3>2
  <2>2. ASSUME NEW g \in Gaps(x) PROVE SubSeq(x, g[1] + 1, g[2] - 1) \in Lines(text)
    BY <1>7, <1>9 DEF Lines
  <2>3. ASSUME NEW g \in Later PROVE SubSeq(text, g[1] + 1, g[2] - 1) \in Lines(text)
    BY DEF Lines, Later
  <2>4. Lines(text) \subseteq Lines(x) \cup Lines(rest)
    BY <2>1 DEF Lines
  <2>5. Lines(x) \subseteq Lines(text)
    BY <2>2 DEF Lines
  <2>6. Lines(rest) \subseteq Lines(text)
    BY <1>6, <2>3
  <2> QED BY <2>4, <2>5, <2>6
<1>11. AllSay(Lines(text))
         = AllSay(Lines(x)) \cup AllSay(Lines(rest))
  BY <1>10, AllSayOfBoth
<1>12. Ingest(Ingest(Fresh, x), y)
         = [pending |-> Rest(text), summary |-> AllSay(Lines(text))]
  <2> DEFINE z == Ingest(Fresh, x)
  <2>1. z.pending = Rest(x) /\ z.summary = AllSay(Lines(x))
    BY IngestOfFresh
  <2> HIDE DEF z
  <2>2. Ingest(z, y) = [pending |-> Rest(rest),
                        summary |-> z.summary \cup AllSay(Lines(rest))]
    BY <2>1 DEF Ingest
  <2> HIDE DEF rest
  <2>3. Ingest(z, y) = [pending |-> Rest(text), summary |-> AllSay(Lines(text))]
    <3>1. Rest(rest) = Rest(text)
      BY <1>6
    <3>2. z.summary \cup AllSay(Lines(rest)) = AllSay(Lines(text))
      BY <1>11, <2>1
    <3> QED BY <2>2, <3>1, <3>2
  <2> QED BY <2>3 DEF z
<1>13. Ingest(Fresh, text) = [pending |-> Rest(text), summary |-> AllSay(Lines(text))]
  BY <1>1, ConcatEmptySeq DEF Ingest, Fresh
<1> QED BY <1>12, <1>13 DEF text

-----------------------------------------------------------------------------
(* What the lines of a beginning of an answer say.                         *)

Said(text) == Lines(text) \cup (IF Rest(text) = <<>> THEN {} ELSE {Rest(text)})

LEMMA FinishSays ==
  ASSUME NEW x \in Seq(Piece)
  PROVE  Finish(Ingest(Fresh, x)) = AllSay(Said(x))
<1>1. /\ Ingest(Fresh, x).pending = Rest(x)
      /\ Ingest(Fresh, x).summary = AllSay(Lines(x))
  BY IngestOfFresh
<1>2. AllSay({}) = {} /\ AllSay({Rest(x)}) = Says(Rest(x))
  BY DEF AllSay
<1>3. AllSay(Said(x)) = AllSay(Lines(x)) \cup (IF Rest(x) = <<>> THEN {} ELSE Says(Rest(x)))
  <2>1. CASE Rest(x) = <<>>
    BY <1>2, <2>1, AllSayOfBoth DEF Said
  <2>2. CASE Rest(x) # <<>>
    BY <1>2, <2>2, AllSayOfBoth DEF Said
  <2> QED BY <2>1, <2>2
<1> QED BY <1>1, <1>3 DEF Finish

(* The pieces of an answer behind the i-th, up to the j-th.                *)
Part(b, i, j) == SubSeq(Pieces(b), i + 1, j)

LEMMA BeginningLayout ==
  ASSUME NEW b \in Seq(Events), NEW n \in 0 .. Len(Pieces(b)),
         NEW w, w = Part(b, 0, n)
  PROVE  /\ w \in Seq(Piece) /\ Len(w) = n
         /\ \A k \in 1 .. n :
              /\ w[k] = Pieces(b)[k] /\ w[k] \in Piece
              /\ w[k][2] = "head" /\ k > 1 => w[k - 1][2] = "end"
              /\ k = 1 => w[k][2] = "head"
              /\ w[k][2] = "tail" => k > 1 /\ w[k - 1] = <<w[k][1], "head">>
              /\ w[k][2] = "head" /\ k < n => w[k + 1] = <<w[k][1], "tail">>
              /\ w[k][2] = "tail" /\ k < n => w[k + 1][2] = "end"
              /\ w[k][2] = "end" /\ k < n => w[k + 1][2] = "head"
<1>1. Pieces(b) \in Seq(Piece) /\ Len(Pieces(b)) = 3 * Len(b) /\ Len(b) \in Nat
  BY PiecesShape
<1>2. \A i \in 1 .. n : Pieces(b)[i] \in Piece
  BY <1>1
<1>3. /\ w \in Seq(Piece) /\ Len(w) = n
      /\ \A i \in 1 .. n : w[i] = Pieces(b)[i]
  <2>1. /\ w \in Seq(Piece) /\ Len(w) = (IF 1 <= n THEN n - 1 + 1 ELSE 0)
        /\ \A i \in 1 .. n - 1 + 1 : w[i] = Pieces(b)[1 + i - 1]
    <3>1. w = SubSeq(Pieces(b), 1, n)
      BY DEF Part
    <3> QED BY <1>2, <3>1, SubSeqProperties
  <2>2. \A i \in 1 .. n : i \in 1 .. n - 1 + 1 /\ 1 + i - 1 = i
    OBVIOUS
  <2>3. Len(w) = n
    BY <2>1
  <2> QED BY <2>1, <2>2, <2>3
<1>4. ASSUME NEW k \in 1 .. n
      PROVE  /\ w[k] = Pieces(b)[k] /\ w[k] \in Piece
             /\ w[k][2] = "head" /\ k > 1 => w[k - 1][2] = "end"
             /\ k = 1 => w[k][2] = "head"
             /\ w[k][2] = "tail" => k > 1 /\ w[k - 1] = <<w[k][1], "head">>
             /\ w[k][2] = "head" /\ k < n => w[k + 1] = <<w[k][1], "tail">>
             /\ w[k][2] = "tail" /\ k < n => w[k + 1][2] = "end"
             /\ w[k][2] = "end" /\ k < n => w[k + 1][2] = "head"
  <2>1. k \in 1 .. 3 * Len(b) /\ (k < n => k < 3 * Len(b))
    BY <1>1
  <2>2. k > 1 => w[k - 1] = Pieces(b)[k - 1]
    BY <1>3
  <2>3. k < n => w[k + 1] = Pieces(b)[k + 1]
    BY <1>3
  <2> QED BY <1>2, <1>3, <2>1, <2>2, <2>3, PiecesLayout
<1> QED BY <1>3, <1>4

LEMMA WholeLinesAreSaid ==
  ASSUME NEW b \in Seq(Events), NEW n \in 0 .. Len(Pieces(b)),
         NEW w, w = Part(b, 0, n),
         NEW i \in 1 .. n, w[i][2] = "tail"
  PROVE  \E line \in Said(w) : Len(line) = 2 /\ line[1] = <<w[i][1], "head">>
<1>1. w \in Seq(Piece) /\ Len(w) = n /\ n \in Nat
  BY BeginningLayout, PiecesShape
<1>2. i > 1 /\ w[i - 1] = <<w[i][1], "head">> /\ (i < n => w[i + 1][2] = "end")
  BY BeginningLayout
<1>3. i - 1 > 1 => w[i - 2][2] = "end"
  <2>1. i - 1 \in 1 .. n /\ (i - 1) - 1 = i - 2
    BY <1>1, <1>2
  <2>2. w[i - 1][2] = "head"
    BY <1>2
  <2> QED BY <2>1, <2>2, BeginningLayout
<1>4. \A k \in Ends(w) : k \in 1 .. n /\ k # i /\ k # i - 1
  BY <1>1, <1>2 DEF Ends
<1>5. i - 2 \in {0} \cup Ends(w) /\ i - 2 \in Nat
  BY <1>1, <1>2, <1>3 DEF Ends
<1>6. LET line == SubSeq(w, i - 1, i) IN Len(line) = 2 /\ line[1] = <<w[i][1], "head">>
  <2>1. PICK m \in Int : m = i - 1
    BY <1>1
  <2>2. m \in Nat \ {0} /\ i \in 0 .. Len(w)
    BY <1>1, <1>2, <2>1
  <2>3. /\ Len(SubSeq(w, m, i)) = (IF m <= i THEN i - m + 1 ELSE 0)
        /\ \A k \in 1 .. i - m + 1 : SubSeq(w, m, i)[k] = w[m + k - 1]
    BY <1>1, <2>2, PartIs
  <2>4. 1 \in 1 .. i - m + 1 /\ m + 1 - 1 = i - 1 /\ i - m + 1 = 2 /\ m <= i
    BY <1>1, <2>1
  <2>5. Len(SubSeq(w, m, i)) = 2 /\ SubSeq(w, m, i)[1] = w[i - 1]
    BY <2>3, <2>4
  <2> QED BY <1>2, <2>1, <2>5
<1>7. SubSeq(w, i - 1, i) \in Said(w)
  <2>1. CASE i < n
    <3>1. i + 1 \in Ends(w)
      BY <1>1, <1>2, <2>1 DEF Ends
    <3>2. \A k \in Ends(w) : k <= i - 2 \/ i + 1 <= k
      BY <1>1, <1>4
    <3>3. <<i - 2, i + 1>> \in Gaps(w)
      BY <1>5, <3>1, <3>2 DEF Gaps
    <3>4. (i - 2) + 1 = i - 1 /\ (i + 1) - 1 = i
      OBVIOUS
    <3>5. SubSeq(w, i - 1, i) \in Lines(w)
      <4> DEFINE g == <<i - 2, i + 1>>
      <4>1. g \in Gaps(w) /\ g[1] + 1 = i - 1 /\ g[2] - 1 = i
        BY <3>3, <3>4
      <4> HIDE DEF g
      <4>2. SubSeq(w, g[1] + 1, g[2] - 1) \in Lines(w)
        BY <4>1 DEF Lines
      <4> QED BY <4>1, <4>2
    <3> QED BY <3>5 DEF Said
  <2>2. CASE i = n
    <3>1. \A k \in Ends(w) : k <= i - 2
      BY <1>1, <1>4, <2>2
    <3>2. LastEnd(w) = i - 2
      BY <1>1, <1>5, <3>1, LastEndIsUnique
    <3>3. (i - 2) + 1 = i - 1
      OBVIOUS
    <3>4. Rest(w) = SubSeq(w, i - 1, i)
      BY <1>1, <2>2, <3>2, <3>3 DEF Rest
    <3>5. Rest(w) # <<>>
      <4>1. Len(Rest(w)) = 2
        BY <1>6, <3>4
      <4>2. Len(<<>>) = 0
        OBVIOUS
      <4>3. ASSUME Rest(w) = <<>> PROVE FALSE
        BY <4>1, <4>2, <4>3
      <4> QED BY <4>3
    <3> QED BY <3>4, <3>5 DEF Said
  <2> QED BY <1>1, <2>1, <2>2
<1> QED BY <1>6, <1>7

LEMMA WhatIsSaidIsWritten ==
  ASSUME NEW b \in Seq(Events), NEW n \in 0 .. Len(Pieces(b)),
         NEW w, w = Part(b, 0, n)
  PROVE  \A line \in Said(w) : Len(line) = 2 => \E i \in 1 .. n : w[i][1] = line[1][1] /\ w[i][2] = "tail"
<1> SUFFICES ASSUME NEW line \in Said(w), Len(line) = 2
             PROVE  \E i \in 1 .. n : w[i][1] = line[1][1] /\ w[i][2] = "tail"
  OBVIOUS
<1>1. w \in Seq(Piece) /\ Len(w) = n /\ n \in Nat
  BY BeginningLayout, PiecesShape
<1>2. \A k \in Ends(w) : k \in 1 .. n
  BY <1>1 DEF Ends
<1>3. \E a \in {0} \cup Ends(w), c \in 0 .. n : line = SubSeq(w, a + 1, c)
  <2>1. CASE line \in Lines(w)
    <3>1. PICK g \in Gaps(w) : line = SubSeq(w, g[1] + 1, g[2] - 1)
      BY <2>1 DEF Lines
    <3>2. g[1] \in {0} \cup Ends(w) /\ g[2] \in 1 .. n
      BY <1>2 DEF Gaps
    <3>3. g[2] - 1 \in 0 .. n
      BY <1>1, <3>2
    <3> QED BY <3>1, <3>2, <3>3
  <2>2. CASE line = Rest(w)
    <3>1. LastEnd(w) \in {0} \cup Ends(w)
      BY <1>1, LastEndIs
    <3>3. n \in 0 .. n
      BY <1>1
    <3>2. line = SubSeq(w, LastEnd(w) + 1, n)
      BY <1>1, <2>2 DEF Rest
    <3> QED BY <3>1, <3>2, <3>3
  <2> QED BY <2>1, <2>2 DEF Said
<1>4. PICK a \in {0} \cup Ends(w), c \in 0 .. n : line = SubSeq(w, a + 1, c)
  BY <1>3
<1>5. a \in 0 .. n
  BY <1>1, <1>2
<1>6. \A k \in a + 1 .. c : w[k] \in Piece
  BY <1>1, <1>5
<1>7. /\ Len(line) = (IF a + 1 <= c THEN c - (a + 1) + 1 ELSE 0)
      /\ \A k \in 1 .. c - (a + 1) + 1 : line[k] = w[a + 1 + k - 1]
  BY <1>4, <1>5, <1>6, SubSeqProperties
<1>8. c = a + 2 /\ a + 1 \in 1 .. n /\ a + 1 < n /\ a + 2 \in 1 .. n
  <2>1. a \in Nat /\ c \in Nat /\ c <= n
    BY <1>1, <1>5
  <2>2. 2 = IF a + 1 <= c THEN c - (a + 1) + 1 ELSE 0
    BY <1>7
  <2>3. a + 1 <= c /\ c - (a + 1) + 1 = 2
    BY <2>1, <2>2
  <2> QED BY <1>1, <2>1, <2>3
<1>9. line[1] = w[a + 1]
  <2>1. 1 \in 1 .. c - (a + 1) + 1 /\ a + 1 + 1 - 1 = a + 1
    BY <1>5, <1>8
  <2> QED BY <1>7, <2>1
<1>10. w[a + 1][2] = "head"
  <2>1. CASE a = 0
    <3>1. a + 1 = 1
      BY <2>1
    <3> QED BY <1>8, <3>1, BeginningLayout
  <2>2. CASE a # 0
    <3>1. a \in 1 .. n /\ a < n /\ w[a][2] = "end"
      BY <1>1, <1>5, <1>8, <2>2 DEF Ends
    <3> QED BY <3>1, BeginningLayout
  <2> QED BY <2>1, <2>2
<1>11. w[a + 2] = <<w[a + 1][1], "tail">>
  <2>1. (a + 1) + 1 = a + 2
    BY <1>5
  <2> QED BY <1>8, <1>10, <2>1, BeginningLayout
<1> QED BY <1>8, <1>9, <1>11

(* The summary of a beginning of an answer, by the pieces it has.          *)
LEMMA SummaryOfTheBody ==
  ASSUME NEW b \in Seq(Events), NEW n \in 0 .. Len(Pieces(b)),
         NEW w, w = Part(b, 0, n),
         NEW summary, summary = Finish(Ingest(Fresh, w))
  PROVE  /\ summary \subseteq Facts
         /\ "error" \in summary <=> \E i \in 1 .. n : w[i] = <<"failed", "tail">>
         /\ (\E i \in 1 .. n : w[i] = <<"completed", "tail">>) => {"id", "usage"} \subseteq summary
         /\ (\E i \in 1 .. n : w[i] = <<"created", "tail">>) => "id" \in summary
<1>1. w \in Seq(Piece)
  BY BeginningLayout
<1>2. summary = AllSay(Said(w))
  BY <1>1, FinishSays
<1>3. \A f : f \in summary <=> \E line \in Said(w) : f \in Says(line)
  BY <1>2 DEF AllSay
<1>4. summary \subseteq Facts
  BY <1>3 DEF Says
<1>5. ASSUME NEW i \in 1 .. n, NEW event, w[i] = <<event, "tail">>
      PROVE  \E line \in Said(w) : Len(line) = 2 /\ line[1][1] = event
  <2>1. w[i][2] = "tail" /\ w[i][1] = event
    BY <1>5
  <2>2. PICK line \in Said(w) : Len(line) = 2 /\ line[1] = <<w[i][1], "head">>
    BY <2>1, WholeLinesAreSaid
  <2> QED BY <2>1, <2>2
<1>6. "error" \in summary => \E i \in 1 .. n : w[i] = <<"failed", "tail">>
  <2>1. SUFFICES ASSUME "error" \in summary PROVE \E i \in 1 .. n : w[i] = <<"failed", "tail">>
    OBVIOUS
  <2>2. PICK line \in Said(w) : "error" \in Says(line)
    BY <1>3, <2>1
  <2>3. Len(line) = 2 /\ line[1][1] = "failed"
    BY <2>2 DEF Says
  <2>4. PICK i \in 1 .. n : w[i][1] = line[1][1] /\ w[i][2] = "tail"
    BY <2>2, <2>3, WhatIsSaidIsWritten
  <2>5. w[i] \in Piece
    BY BeginningLayout
  <2> QED BY <2>3, <2>4, <2>5 DEF Piece
<1>7. ASSUME NEW i \in 1 .. n, w[i] = <<"failed", "tail">> PROVE "error" \in summary
  <2>1. PICK line \in Said(w) : Len(line) = 2 /\ line[1][1] = "failed"
    BY <1>5, <1>7
  <2>2. "error" \in Says(line)
    BY <2>1 DEF Says, Facts
  <2> QED BY <1>3, <2>2
<1>8. ASSUME NEW i \in 1 .. n, w[i] = <<"completed", "tail">> PROVE {"id", "usage"} \subseteq summary
  <2>1. PICK line \in Said(w) : Len(line) = 2 /\ line[1][1] = "completed"
    BY <1>5, <1>8
  <2>2. "id" \in Says(line) /\ "usage" \in Says(line)
    BY <2>1 DEF Says, Facts
  <2> QED BY <1>3, <2>2
<1>9. ASSUME NEW i \in 1 .. n, w[i] = <<"created", "tail">> PROVE "id" \in summary
  <2>1. PICK line \in Said(w) : Len(line) = 2 /\ line[1][1] = "created"
    BY <1>5, <1>9
  <2>2. "id" \in Says(line)
    BY <2>1 DEF Says, Facts
  <2> QED BY <1>3, <2>2
<1> QED BY <1>4, <1>6, <1>7, <1>8, <1>9

-----------------------------------------------------------------------------
(* What of the answer is where.                                            *)

Cut(i, j) == Part(body, i, j)
Before == relay.taken - Len(relay.chunk)   \* what the relay has read the events of
Body == {"reading", "sending", "observing"}
Taught == {"prefix", "recording", "caching", "done"}
Over == {"rejecting", "storing"} \cup Taught
Reasons == {"upstream_stream_error", "upstream_sse_error", "upstream_eof"}

RelayTypes ==
  /\ body \in Streams
  /\ Len(written) \in 0 .. Len(Pieces(body)) /\ written = Cut(0, Len(written))
  /\ ending \in {None, "eof", "broken"}
  /\ relay \in [pc : Body \cup Over, taken : 0 .. Len(written), chunk : Seq(Piece), gone : BOOLEAN,
                end : {None} \cup Reasons, state : [pending : Seq(Piece), summary : SUBSET Facts]]
  /\ reader \in {"reading", "stalled", "gone"}
  /\ channel \in Seq(Seq(Piece))

(* The relay has read the events of a beginning of the answer and has the  *)
(* piece behind it in its hand.                                            *)
ReadsInOrder ==
  relay.pc \in Body =>
    /\ Before \in 0 .. relay.taken
    /\ relay.chunk = Cut(Before, relay.taken)
    /\ relay.chunk = <<>> <=> relay.pc = "reading"
    /\ relay.state = Ingest(Fresh, Cut(0, Before))

(* Once the body is over, nothing of it is left unread, and what is known  *)
(* of it does not depend on the chunks it came in.                         *)
KnowsTheWholeBody ==
  relay.pc \in Over =>
    /\ ending # None
    /\ relay.taken = Len(written)
    /\ relay.state.summary = Finish(Ingest(Fresh, written))
    /\ relay.end = IF ending = "broken" THEN "upstream_stream_error"
                   ELSE IF "error" \in relay.state.summary THEN "upstream_sse_error" ELSE "upstream_eof"

Lessons ==
  /\ taught \cap {"session", "usage", "affinity", "prefix", "cache"} # {} => relay.pc \in Taught /\ Succeeded
  /\ relay.pc \in Taught /\ Succeeded =>
       /\ "id" \in relay.state.summary => "session" \in taught
       /\ "usage" \in relay.state.summary => "usage" \in taught

(* What a client that has not left has read, what waits for it in the      *)
(* channel and what the relay is about to send are the beginning of the    *)
(* answer the relay has taken, cut somewhere.                              *)
Cuts(cut) ==
  /\ got = Cut(0, cut[0])
  /\ \A i \in 1 .. Len(channel) : cut[i - 1] < cut[i] /\ channel[i] = Cut(cut[i - 1], cut[i])
  /\ cut[Len(channel)] = IF relay.pc = "sending" THEN Before ELSE relay.taken

OnTheWay ==
  reader # "gone" => ~relay.gone /\ \E cut \in [0 .. Len(channel) -> 0 .. relay.taken] : Cuts(cut)

RelayInv == RelayTypes /\ ReadsInOrder /\ KnowsTheWholeBody /\ Lessons

LEMMA CutIs ==
  ASSUME NEW b \in Seq(Events), NEW i \in Nat, NEW j \in i .. Len(Pieces(b))
  PROVE  Part(b, i, j) \in Seq(Piece) /\ Len(Part(b, i, j)) = j - i
<1>1. Pieces(b) \in Seq(Piece) /\ Len(Pieces(b)) \in Nat
  BY PiecesShape
<1>2. i + 1 \in Nat \ {0} /\ j \in 0 .. Len(Pieces(b))
  BY <1>1
<1>3. /\ SubSeq(Pieces(b), i + 1, j) \in Seq(Piece)
      /\ Len(SubSeq(Pieces(b), i + 1, j)) = IF i + 1 <= j THEN j - (i + 1) + 1 ELSE 0
  BY <1>1, <1>2, PartIs
<1>4. (IF i + 1 <= j THEN j - (i + 1) + 1 ELSE 0) = j - i
  BY <1>1
<1> QED BY <1>3, <1>4 DEF Part

LEMMA CutsJoin ==
  ASSUME NEW b \in Seq(Events), NEW i \in Nat, NEW j \in Nat, NEW k \in Nat,
         i <= j, j <= k, k <= Len(Pieces(b))
  PROVE  Part(b, i, j) \o Part(b, j, k) = Part(b, i, k)
<1>1. Pieces(b) \in Seq(Piece) /\ Len(Pieces(b)) \in Nat
  BY PiecesShape
<1>2. i + 1 \in 1 .. Len(Pieces(b)) + 1 /\ j \in (i + 1) - 1 .. Len(Pieces(b)) /\ k \in j .. Len(Pieces(b))
  BY <1>1
<1> QED BY <1>1, <1>2, ConcatAdjacentSubSeq DEF Part

LEMMA CutOfBeginning ==
  ASSUME NEW b \in Seq(Events), NEW n \in 0 .. Len(Pieces(b)), NEW i \in Nat, NEW j \in 0 .. n
  PROVE  SubSeq(Part(b, 0, n), i + 1, j) = Part(b, i, j)
<1> DEFINE P == Pieces(b)
           w == SubSeq(P, 1, n)
           v == SubSeq(P, n + 1, Len(P))
<1>1. P \in Seq(Piece) /\ Len(P) \in Nat
  BY PiecesShape
<1>2. w \in Seq(Piece) /\ Len(w) = n
  <2>1. 1 \in Nat \ {0} /\ n \in 0 .. Len(P)
    OBVIOUS
  <2>2. Len(w) = IF 1 <= n THEN n - 1 + 1 ELSE 0
    BY <1>1, <2>1, PartIs
  <2>3. w \in Seq(Piece)
    BY <1>1, <2>1, PartIs
  <2> QED BY <2>1, <2>2, <2>3
<1>3. v \in Seq(Piece)
  <2>1. n \in Nat /\ Len(P) \in n .. Len(P)
    BY <1>1
  <2> QED BY <1>1, <2>1, CutIs DEF Part
<1>4. w \o v = P
  <2>1. w \o v = SubSeq(P, 1, Len(P))
    <3>1. 1 \in 1 .. Len(P) + 1 /\ n \in 1 - 1 .. Len(P) /\ Len(P) \in n .. Len(P)
      BY <1>1
    <3> QED BY <1>1, <3>1, ConcatAdjacentSubSeq
  <2>2. SubSeq(P, 1, Len(P)) = P
    BY <1>1, SubSeqFull
  <2> QED BY <2>1, <2>2
<1> HIDE DEF w, v
<1>5. i + 1 \in Nat \ {0} /\ j \in 0 .. Len(w)
  BY <1>2
<1>6. SubSeq(w \o v, i + 1, j) = SubSeq(w, i + 1, j)
  BY <1>2, <1>3, <1>5, PartOfFirst
<1>7. 0 + 1 = 1
  OBVIOUS
<1> QED BY <1>4, <1>6, <1>7 DEF w, Part

LEMMA BodyIsAnAnswer ==
  ASSUME body \in Streams
  PROVE  /\ body \in Seq(Events)
         /\ Pieces(body) \in Seq(Piece) /\ Len(Pieces(body)) \in Nat
  BY StreamAssumption, PiecesShape

LEMMA NothingIsCut ==
  ASSUME body \in Streams, NEW i \in Nat, i <= Len(Pieces(body))
  PROVE  Cut(i, i) = <<>>
<1>1. i < i + 1 /\ i + 1 \in Int /\ i \in Int
  OBVIOUS
<1> QED BY <1>1, SubSeqEmpty DEF Cut, Part

LEMMA RelayInvInit == RelayInit => RelayInv /\ OnTheWay
<1> SUFFICES ASSUME RelayInit PROVE RelayInv /\ OnTheWay
  OBVIOUS
<1> USE DEF RelayInit
<1>1. Len(Pieces(body)) \in Nat /\ Cut(0, 0) = <<>>
  BY BodyIsAnAnswer, NothingIsCut
<1>2. <<>> \in Seq(Piece) /\ Len(<<>>) = 0 /\ <<>> \in Seq(Seq(Piece))
  OBVIOUS
<1>3. RelayTypes
  BY <1>1, <1>2 DEF RelayTypes, Body
<1>4. ReadsInOrder
  <2>1. Before = 0
    BY <1>2 DEF Before
  <2>2. relay.state = Fresh
    BY DEF Fresh
  <2>3. Ingest(Fresh, <<>>) = Fresh
    <3>1. Ends(<<>>) = {}
      BY DEF Ends
    <3>2. Lines(<<>>) = {}
      BY <3>1 DEF Lines, Gaps
    <3>3. LastEnd(<<>>) = 0
      BY <1>2, <3>1, LastEndIs
    <3>4. Rest(<<>>) = <<>>
      BY <1>2, <3>3, SubSeqEmpty DEF Rest
    <3>5. AllSay({}) = {}
      BY DEF AllSay
    <3>6. /\ Ingest(Fresh, <<>>).pending = <<>>
          /\ Ingest(Fresh, <<>>).summary = {}
          /\ Ingest(Fresh, <<>>) \in [pending : Seq(Piece), summary : SUBSET Facts]
      BY <1>2, <3>2, <3>4, <3>5, IngestOfFresh
    <3> QED BY <3>6 DEF Fresh
  <2> QED BY <1>1, <2>1, <2>2, <2>3 DEF ReadsInOrder
<1>5. KnowsTheWholeBody /\ Lessons
  BY DEF KnowsTheWholeBody, Lessons, Over, Taught
<1>6. OnTheWay
  <2> DEFINE cut == [i \in 0 .. 0 |-> 0]
  <2>1. cut \in [0 .. Len(channel) -> 0 .. relay.taken] /\ cut[0] = 0 /\ Len(channel) = 0
    BY <1>2
  <2> HIDE DEF cut
  <2>2. Cuts(cut)
    BY <1>1, <2>1 DEF Cuts
  <2> QED BY <2>1, <2>2 DEF OnTheWay
<1> QED BY <1>3, <1>4, <1>5, <1>6 DEF RelayInv

(* The upstream.                                                           *)
LEMMA RelayInvUpstream ==
  ASSUME RelayInv, UpstreamWrites \/ UpstreamEnds
  PROVE  RelayInv'
<1> USE DEF RelayInv
<1>1. Len(Pieces(body)) \in Nat /\ body \in Seq(Events)
  BY BodyIsAnAnswer DEF RelayTypes
<1>2. CASE UpstreamWrites
  <2>1. PICK n \in Len(written) + 1 .. Len(Pieces(body)) : written' = SubSeq(Pieces(body), 1, n)
    BY <1>2 DEF UpstreamWrites
  <2>2. Len(written) \in Nat /\ n \in Nat /\ n \in 0 .. Len(Pieces(body)) /\ Len(written) < n
    BY <1>1, <2>1 DEF RelayTypes
  <2>3. written' = Cut(0, n)
    BY <2>1 DEF Cut, Part
  <2>4. Len(written') = n
    BY <1>1, <2>2, <2>3, CutIs DEF Cut
  <2>5. ending = None /\ UNCHANGED <<body, ending, relay, channel, got, reader, taught>>
    BY <1>2 DEF UpstreamWrites
  <2>6. RelayTypes'
    <3>1. (written = Cut(0, Len(written)))' /\ Len(written') \in 0 .. Len(Pieces(body'))
      BY <2>2, <2>3, <2>4, <2>5 DEF Cut
    <3>2. 0 .. Len(written) \subseteq 0 .. Len(written')
      BY <2>2, <2>4
    <3>3. relay.taken \in 0 .. Len(written')
      BY <3>2 DEF RelayTypes
    <3>4. relay \in [pc : Body \cup Over, taken : 0 .. Len(written'), chunk : Seq(Piece), gone : BOOLEAN,
                     end : {None} \cup Reasons, state : [pending : Seq(Piece), summary : SUBSET Facts]]
      BY <3>3 DEF RelayTypes
    <3> QED BY <2>5, <3>1, <3>4 DEF RelayTypes
  <2>7. ReadsInOrder'
    BY <2>5 DEF ReadsInOrder, Before, Cut
  <2>8. KnowsTheWholeBody' /\ Lessons'
    BY <2>5 DEF KnowsTheWholeBody, Lessons, Succeeded, Over, Taught
  <2> QED BY <2>6, <2>7, <2>8
<1>3. CASE UpstreamEnds
  <2>1. ending = None /\ ending' \in {"eof", "broken"} /\ UNCHANGED <<body, written, relay, channel, got, reader, taught>>
    BY <1>3 DEF UpstreamEnds
  <2>2. RelayTypes'
    BY <2>1 DEF RelayTypes, Cut
  <2>3. ReadsInOrder'
    BY <2>1 DEF ReadsInOrder, Before, Cut
  <2>4. KnowsTheWholeBody' /\ Lessons'
    BY <2>1 DEF KnowsTheWholeBody, Lessons, Succeeded, Over, Taught
  <2> QED BY <2>2, <2>3, <2>4
<1> QED BY <1>2, <1>3

(* The client.                                                             *)
LEMMA RelayInvClient ==
  ASSUME RelayInv, ClientReads \/ ClientTurns
  PROVE  RelayInv'
<1> USE DEF RelayInv
<1>1. UNCHANGED <<body, written, ending, relay, taught>>
  BY DEF ClientReads, ClientTurns
<1>2. channel' \in Seq(Seq(Piece)) /\ reader' \in {"reading", "stalled", "gone"}
  <2>1. CASE ClientReads
    BY <2>1, HeadTailProperties DEF ClientReads, RelayTypes
  <2>2. CASE ClientTurns
    BY <2>2 DEF ClientTurns, RelayTypes
  <2> QED BY <2>1, <2>2
<1>3. RelayTypes'
  BY <1>1, <1>2 DEF RelayTypes, Cut
<1>4. ReadsInOrder'
  BY <1>1 DEF ReadsInOrder, Before, Cut
<1>5. KnowsTheWholeBody' /\ Lessons'
  BY <1>1 DEF KnowsTheWholeBody, Lessons, Succeeded
<1> QED BY <1>3, <1>4, <1>5

(* A chunk of the body on its way through the relay.                       *)
LEMMA RelayInvTake ==
  ASSUME RelayInv, Take
  PROVE  RelayInv'
<1> USE DEF RelayInv
<1> DEFINE n == Len(written)
           c == SubSeq(written, relay.taken + 1, n)
<1>1. Len(Pieces(body)) \in Nat /\ body \in Seq(Events)
  BY BodyIsAnAnswer DEF RelayTypes
<1>2. /\ relay.pc = "reading" /\ relay.taken < n
      /\ relay' = [relay EXCEPT !.pc = IF relay.gone THEN "observing" ELSE "sending", !.chunk = c, !.taken = n]
      /\ UNCHANGED <<body, written, ending, channel, got, reader, taught>>
  BY DEF Take
<1>3. n \in 0 .. Len(Pieces(body)) /\ n \in Nat /\ relay.taken \in Nat /\ written = Part(body, 0, n)
  BY <1>1 DEF RelayTypes, Cut
<1> HIDE DEF n
<1>4. c = Cut(relay.taken, n)
  <2>1. n \in 0 .. n
    BY <1>3
  <2>2. SubSeq(Part(body, 0, n), relay.taken + 1, n) = Part(body, relay.taken, n)
    BY <1>1, <1>3, <2>1, CutOfBeginning
  <2> QED BY <1>3, <2>2 DEF Cut
<1>5. c \in Seq(Piece) /\ Len(c) = n - relay.taken
  <2>1. n \in relay.taken .. Len(Pieces(body))
    BY <1>2, <1>3
  <2> QED BY <1>1, <1>3, <1>4, <2>1, CutIs DEF Cut
<1> HIDE DEF c
<1>6. /\ relay'.pc = (IF relay.gone THEN "observing" ELSE "sending")
      /\ relay'.chunk = c /\ relay'.taken = n /\ relay'.state = relay.state /\ relay'.end = relay.end
      /\ relay'.gone = relay.gone
  BY <1>2 DEF RelayTypes
<1>7. RelayTypes'
  <2>1. n \in 0 .. n
    BY <1>3
  <2> QED BY <1>2, <1>5, <2>1 DEF RelayTypes, Cut, Body, n
<1>8. ReadsInOrder'
  <2>1. Before = relay.taken /\ relay.state = Ingest(Fresh, Cut(0, relay.taken))
    <3>1. relay.chunk = <<>> /\ Len(<<>>) = 0
      BY <1>2 DEF ReadsInOrder, Body
    <3>2. Before = relay.taken
      BY <1>3, <3>1 DEF Before
    <3> QED BY <1>2, <3>2 DEF ReadsInOrder, Body
  <2>2. Before' = relay.taken
    BY <1>3, <1>5, <1>6 DEF Before
  <2>3. c # <<>>
    <3>1. Len(c) # 0
      BY <1>2, <1>3, <1>5
    <3> QED BY <3>1
  <2>4. relay'.pc # "reading"
    BY <1>6
  <2>5. Cut(relay.taken, n)' = Cut(relay.taken, n)' /\ body' = body
    BY <1>2
  <2>6. relay'.chunk = Cut(Before, relay.taken)'
    BY <1>2, <1>4, <1>6, <2>2 DEF Cut
  <2>7. relay'.state = Ingest(Fresh, Cut(0, Before)')
    BY <1>2, <1>6, <2>1, <2>2 DEF Cut
  <2>8. Before' \in 0 .. relay'.taken
    BY <1>2, <1>3, <1>6, <2>2
  <2> QED BY <1>6, <2>3, <2>4, <2>6, <2>7, <2>8 DEF ReadsInOrder
<1>9. KnowsTheWholeBody' /\ Lessons'
  <2>1. relay'.pc \notin Over /\ relay'.pc \notin Taught /\ relay.pc \notin Taught
    BY <1>2, <1>6 DEF Over, Taught
  <2> QED BY <1>2, <2>1 DEF KnowsTheWholeBody, Lessons
<1> QED BY <1>7, <1>8, <1>9

LEMMA RelayInvSend ==
  ASSUME RelayInv, Send \/ SendFails
  PROVE  RelayInv'
<1> USE DEF RelayInv
<1>1. /\ relay.pc = "sending"
      /\ \E gone \in BOOLEAN : relay' = [relay EXCEPT !.pc = "observing", !.gone = gone]
      /\ UNCHANGED <<body, written, ending, got, reader, taught>>
  <2>1. relay = [relay EXCEPT !.gone = relay.gone] /\ relay.gone \in BOOLEAN
    BY DEF RelayTypes
  <2>2. CASE Send
    BY <2>1, <2>2 DEF Send, RelayTypes
  <2>3. CASE SendFails
    BY <2>3 DEF SendFails, RelayTypes
  <2> QED BY <2>2, <2>3
<1>2. /\ relay'.pc = "observing" /\ relay'.taken = relay.taken /\ relay'.chunk = relay.chunk
      /\ relay'.state = relay.state /\ relay'.end = relay.end
  BY <1>1 DEF RelayTypes
<1>3. channel' \in Seq(Seq(Piece))
  <2>1. relay.chunk \in Seq(Piece)
    BY DEF RelayTypes
  <2>2. CASE Send
    BY <2>1, <2>2, AppendProperties DEF Send, RelayTypes
  <2>3. CASE SendFails
    BY <2>3 DEF SendFails, RelayTypes
  <2> QED BY <2>2, <2>3
<1>4. RelayTypes'
  BY <1>1, <1>3 DEF RelayTypes, Cut, Body
<1>5. ReadsInOrder'
  <2>1. Before' = Before
    BY <1>2 DEF Before
  <2> QED BY <1>1, <1>2, <2>1 DEF ReadsInOrder, Body, Cut
<1>6. KnowsTheWholeBody' /\ Lessons'
  <2>1. relay'.pc \notin Over /\ relay'.pc \notin Taught /\ relay.pc \notin Taught
    BY <1>1, <1>2 DEF Over, Taught
  <2> QED BY <1>1, <2>1 DEF KnowsTheWholeBody, Lessons
<1> QED BY <1>4, <1>5, <1>6

LEMMA RelayInvObserve ==
  ASSUME RelayInv, Observe
  PROVE  RelayInv'
<1> USE DEF RelayInv
<1>1. body \in Seq(Events) /\ Len(Pieces(body)) \in Nat
  BY BodyIsAnAnswer DEF RelayTypes
<1>2. /\ relay.pc = "observing"
      /\ relay' = [relay EXCEPT !.pc = "reading", !.state = Ingest(relay.state, relay.chunk), !.chunk = <<>>]
      /\ UNCHANGED <<body, written, ending, channel, got, reader, taught>>
  BY DEF Observe, RelayTypes
<1>3. /\ Before \in 0 .. relay.taken /\ relay.chunk = Cut(Before, relay.taken)
      /\ relay.state = Ingest(Fresh, Cut(0, Before)) /\ relay.taken \in Nat /\ relay.taken <= Len(Pieces(body))
  BY <1>1, <1>2 DEF ReadsInOrder, RelayTypes, Body
<1>4. Ingest(relay.state, relay.chunk) = Ingest(Fresh, Cut(0, relay.taken))
  <2> DEFINE m == Before
  <2>0. /\ m \in Nat /\ m \in 0 .. Len(Pieces(body)) /\ relay.taken \in m .. Len(Pieces(body))
        /\ relay.taken \in Nat /\ 0 \in Nat /\ 0 <= m /\ m <= relay.taken
    BY <1>1, <1>3
  <2> HIDE DEF m
  <2>1. Cut(0, m) \in Seq(Piece) /\ Cut(m, relay.taken) \in Seq(Piece)
    BY <1>1, <2>0, CutIs DEF Cut
  <2>2. Cut(0, m) \o Cut(m, relay.taken) = Cut(0, relay.taken)
    BY <1>1, <1>3, <2>0, CutsJoin DEF Cut
  <2>3. relay.state = Ingest(Fresh, Cut(0, m)) /\ relay.chunk = Cut(m, relay.taken)
    BY <1>3 DEF m
  <2> QED BY <2>1, <2>2, <2>3, CutsAddUp
<1>5. Cut(0, relay.taken) \in Seq(Piece)
  <2>1. relay.taken \in 0 .. Len(Pieces(body)) /\ 0 \in Nat
    BY <1>1, <1>3
  <2> QED BY <1>1, <2>1, CutIs DEF Cut
<1>6. Ingest(Fresh, Cut(0, relay.taken)) \in [pending : Seq(Piece), summary : SUBSET Facts]
  BY <1>5, IngestOfFresh
<1>7. /\ relay'.pc = "reading" /\ relay'.taken = relay.taken /\ relay'.chunk = <<>> /\ Len(<<>>) = 0
      /\ relay'.state = Ingest(Fresh, Cut(0, relay.taken)) /\ relay'.end = relay.end
  BY <1>2, <1>4 DEF RelayTypes
<1>8. RelayTypes'
  <2> DEFINE state == Ingest(relay.state, relay.chunk)
  <2>1. state \in [pending : Seq(Piece), summary : SUBSET Facts] /\ <<>> \in Seq(Piece)
    BY <1>4, <1>6
  <2>2. relay' = [relay EXCEPT !.pc = "reading", !.state = state, !.chunk = <<>>]
    BY <1>2
  <2> HIDE DEF state
  <2>3. relay' \in [pc : Body \cup Over, taken : 0 .. Len(written), chunk : Seq(Piece), gone : BOOLEAN,
                   end : {None} \cup Reasons, state : [pending : Seq(Piece), summary : SUBSET Facts]]
    BY <2>1, <2>2 DEF RelayTypes, Body
  <2> QED BY <1>2, <2>3 DEF RelayTypes, Cut
<1>9. ReadsInOrder'
  <2>1. Before' = relay.taken
    BY <1>3, <1>7 DEF Before
  <2>2. Cut(relay.taken, relay.taken) = <<>>
    BY <1>3, NothingIsCut DEF RelayTypes
  <2> QED BY <1>2, <1>3, <1>7, <2>1, <2>2 DEF ReadsInOrder, Cut
<1>10. KnowsTheWholeBody' /\ Lessons'
  <2>1. relay'.pc \notin Over /\ relay'.pc \notin Taught /\ relay.pc \notin Taught
    BY <1>2, <1>7 DEF Over, Taught
  <2> QED BY <1>2, <2>1 DEF KnowsTheWholeBody, Lessons
<1> QED BY <1>8, <1>9, <1>10

(* The body is over.                                                       *)
LEMMA RelayInvConclude ==
  ASSUME RelayInv, Conclude
  PROVE  RelayInv'
<1> USE DEF RelayInv
<1> DEFINE summary == Finish(relay.state)
           reason == IF ending = "broken" THEN "upstream_stream_error"
                     ELSE IF "error" \in summary THEN "upstream_sse_error" ELSE "upstream_eof"
<1>1. body \in Seq(Events) /\ Len(Pieces(body)) \in Nat
  BY BodyIsAnAnswer DEF RelayTypes
<1>2. /\ relay.pc = "reading" /\ ending # None /\ relay.taken = Len(written)
      /\ relay' = [relay EXCEPT !.pc = "rejecting", !.state = [pending |-> <<>>, summary |-> summary], !.end = reason]
      /\ UNCHANGED <<body, written, ending, channel, got, reader, taught>>
  BY DEF Conclude
<1>3. relay.state = Ingest(Fresh, written)
  <2>1. relay.chunk = <<>> /\ Len(<<>>) = 0 /\ relay.taken \in Nat
    BY <1>1, <1>2 DEF ReadsInOrder, Body, RelayTypes
  <2>2. Before = relay.taken
    BY <2>1 DEF Before
  <2> QED BY <1>2, <2>2 DEF ReadsInOrder, Body, RelayTypes
<1>4. summary \subseteq Facts
  <2>1. Len(written) \in 0 .. Len(Pieces(body)) /\ written = Part(body, 0, Len(written))
    BY DEF RelayTypes, Cut
  <2> QED BY <1>1, <1>3, <2>1, SummaryOfTheBody
<1> HIDE DEF summary
<1>5. /\ relay'.pc = "rejecting" /\ relay'.taken = relay.taken /\ relay'.state.summary = summary
      /\ relay'.end = reason
  BY <1>2 DEF RelayTypes
<1>6. reason \in Reasons
  BY DEF Reasons
<1> HIDE DEF reason
<1>7. RelayTypes'
  <2> DEFINE state == [pending |-> <<>>, summary |-> summary]
  <2>1. state \in [pending : Seq(Piece), summary : SUBSET Facts]
    BY <1>4
  <2>2. relay' = [relay EXCEPT !.pc = "rejecting", !.state = state, !.end = reason]
    BY <1>2
  <2> HIDE DEF state
  <2>3. relay' \in [pc : Body \cup Over, taken : 0 .. Len(written), chunk : Seq(Piece), gone : BOOLEAN,
                   end : {None} \cup Reasons, state : [pending : Seq(Piece), summary : SUBSET Facts]]
    BY <1>6, <2>1, <2>2 DEF RelayTypes, Over
  <2> QED BY <1>2, <2>3 DEF RelayTypes, Cut
<1>8. ReadsInOrder'
  BY <1>5 DEF ReadsInOrder, Body
<1>9. KnowsTheWholeBody'
  BY <1>2, <1>3, <1>5 DEF KnowsTheWholeBody, summary, reason
<1>10. Lessons'
  <2>1. relay'.pc \notin Taught /\ relay.pc \notin Taught
    BY <1>2, <1>5 DEF Taught
  <2> QED BY <1>2, <2>1 DEF Lessons
<1> QED BY <1>7, <1>8, <1>9, <1>10

(* What the turn leaves behind, one thing after another.                   *)
LEMMA RelayInvSettles ==
  ASSUME RelayInv,
         NEW from \in Over, NEW to \in Over, NEW what,
         Settles(from, to, what),
         from \in Taught => to \in Taught,
         what \cap {"session", "usage", "affinity", "prefix", "cache"} # {} => Succeeded /\ to \in Taught,
         from \notin Taught /\ to \in Taught /\ Succeeded =>
           /\ "id" \in relay.state.summary => "session" \in what
           /\ "usage" \in relay.state.summary => "usage" \in what
  PROVE  RelayInv'
<1> USE DEF RelayInv
<1>1. /\ relay.pc = from /\ relay' = [relay EXCEPT !.pc = to] /\ taught' = taught \cup what
      /\ UNCHANGED <<body, written, ending, channel, got, reader>>
  BY DEF Settles
<1>2. /\ relay'.pc = to /\ relay'.taken = relay.taken /\ relay'.state = relay.state
      /\ relay'.end = relay.end
  BY <1>1 DEF RelayTypes
<1>3. RelayTypes'
  BY <1>1 DEF RelayTypes, Cut
<1>4. ReadsInOrder'
  BY <1>2 DEF ReadsInOrder, Body, Over, Taught
<1>5. KnowsTheWholeBody'
  BY <1>1, <1>2 DEF KnowsTheWholeBody
<1>6. Lessons'
  <2> DEFINE Learned == {"session", "usage", "affinity", "prefix", "cache"}
  <2>1. Succeeded' <=> Succeeded
    BY <1>2 DEF Succeeded
  <2>2. taught' \cap Learned # {} => taught \cap Learned # {} \/ what \cap Learned # {}
    BY <1>1
  <2>3. taught' \cap Learned # {} => to \in Taught /\ Succeeded
    BY <1>1, <2>2 DEF Lessons
  <2>4. to \in Taught /\ Succeeded =>
          /\ "id" \in relay.state.summary => "session" \in taught'
          /\ "usage" \in relay.state.summary => "usage" \in taught'
    BY <1>1 DEF Lessons
  <2> QED BY <1>2, <2>1, <2>3, <2>4 DEF Lessons
<1> QED BY <1>3, <1>4, <1>5, <1>6

LEMMA RelayInvOver ==
  ASSUME RelayInv, RejectDelta \/ StoreSession \/ LearnPrefix \/ Record \/ Cache
  PROVE  RelayInv'
<1> USE DEF Over, Taught
<1>1. CASE RejectDelta
  <2>1. PICK delta \in BOOLEAN :
          Settles("rejecting", "storing", IF delta /\ "error" \in relay.state.summary THEN {"rejection"} ELSE {})
    BY <1>1 DEF RejectDelta
  <2> DEFINE what == IF delta /\ "error" \in relay.state.summary THEN {"rejection"} ELSE {}
  <2>2. what \cap {"session", "usage", "affinity", "prefix", "cache"} = {}
    OBVIOUS
  <2>3. Settles("rejecting", "storing", what)
    BY <2>1
  <2> HIDE DEF what
  <2> QED BY <2>2, <2>3, RelayInvSettles
<1>2. CASE StoreSession
  <2> DEFINE what == (IF Succeeded /\ "id" \in relay.state.summary THEN {"session"} ELSE {})
                     \cup (IF Succeeded /\ "usage" \in relay.state.summary THEN {"usage"} ELSE {})
  <2>1. Settles("storing", "prefix", what)
    BY <1>2 DEF StoreSession
  <2>2. /\ what # {} => Succeeded
        /\ Succeeded /\ "id" \in relay.state.summary => "session" \in what
        /\ Succeeded /\ "usage" \in relay.state.summary => "usage" \in what
    OBVIOUS
  <2> HIDE DEF what
  <2> QED BY <2>1, <2>2, RelayInvSettles
<1>3. CASE LearnPrefix
  <2> DEFINE what == IF ~Succeeded THEN {}
                     ELSE {"affinity"} \cup (IF "usage" \in relay.state.summary THEN {"prefix"} ELSE {})
  <2>1. Settles("prefix", "recording", what) /\ (what # {} => Succeeded)
    BY <1>3 DEF LearnPrefix
  <2> HIDE DEF what
  <2> QED BY <2>1, RelayInvSettles
<1>4. CASE Record
  BY <1>4, RelayInvSettles DEF Record
<1>5. CASE Cache
  <2> DEFINE what == IF Succeeded THEN {"cache"} ELSE {}
  <2>1. Settles("caching", "done", what) /\ (what # {} => Succeeded)
    BY <1>5 DEF Cache
  <2> HIDE DEF what
  <2> QED BY <2>1, RelayInvSettles
<1> QED BY <1>1, <1>2, <1>3, <1>4, <1>5

LEMMA RelayInvNext ==
  ASSUME RelayInv, [RelayNext]_relayVars
  PROVE  RelayInv'
<1>1. CASE RelayStep
  BY <1>1, RelayInvTake, RelayInvSend, RelayInvObserve, RelayInvConclude, RelayInvOver DEF RelayStep
<1>2. CASE UNCHANGED relayVars
  BY <1>2 DEF relayVars, RelayInv, RelayTypes, ReadsInOrder, KnowsTheWholeBody, Lessons, Succeeded, Before, Cut
<1> QED BY <1>1, <1>2, RelayInvUpstream, RelayInvClient DEF RelayNext

(* At every moment of every exchange, whatever the answer, the chunks it   *)
(* comes in and the client.                                                *)
THEOREM RelayIsConsistent == RelaySpec => []RelayInv
<1>1. RelayInit => RelayInv
  BY RelayInvInit
<1>2. RelayInv /\ [RelayNext]_relayVars => RelayInv'
  BY RelayInvNext
<1> QED BY <1>1, <1>2, PTL DEF RelaySpec

LEMMA RelayInvTeaches ==
  ASSUME RelayInv
  PROVE  LearnsFromTheWholeBody
<1> USE DEF RelayInv
<1>1. body \in Seq(Events) /\ Len(written) \in 0 .. Len(Pieces(body)) /\ written = Part(body, 0, Len(written))
  BY BodyIsAnAnswer DEF RelayTypes, Cut
<1>2. DOMAIN written = 1 .. Len(written)
  <2>1. written \in Seq(Piece)
    BY <1>1, BeginningLayout
  <2> QED BY <2>1
<1> DEFINE summary == Finish(Ingest(Fresh, written))
<1>3. /\ "error" \in summary <=> Whole("failed")
      /\ Whole("completed") => {"id", "usage"} \subseteq summary
      /\ Whole("created") => "id" \in summary
  BY <1>1, <1>2, SummaryOfTheBody DEF Whole
<1> HIDE DEF summary
<1>4. relay.pc \in Over =>
        /\ relay.state.summary = summary
        /\ Succeeded <=> ending = "eof" /\ ~Whole("failed")
  <2>1. SUFFICES ASSUME relay.pc \in Over
                 PROVE  relay.state.summary = summary /\ (Succeeded <=> ending = "eof" /\ ~Whole("failed"))
    OBVIOUS
  <2>2. /\ ending \in {"eof", "broken"} /\ relay.state.summary = summary
        /\ relay.end = IF ending = "broken" THEN "upstream_stream_error"
                       ELSE IF "error" \in relay.state.summary THEN "upstream_sse_error" ELSE "upstream_eof"
    BY <2>1 DEF KnowsTheWholeBody, RelayTypes, summary
  <2> QED BY <1>3, <2>2 DEF Succeeded
<1>5. Taught \subseteq Over /\ "done" \in Taught
  BY DEF Over, Taught
<1> QED BY <1>3, <1>4, <1>5 DEF Lessons, LearnsFromTheWholeBody

(* However the body is cut and whatever the client does: only what a body  *)
(* that came to its end without an error event says is learned, and of     *)
(* such a body the id and the usage are not missed.                        *)
THEOREM OnlyWholeBodiesTeach == RelaySpec => []LearnsFromTheWholeBody
<1>1. RelayInv => LearnsFromTheWholeBody
  BY RelayInvTeaches
<1> QED BY <1>1, RelayIsConsistent, PTL

-----------------------------------------------------------------------------
(* What the client gets.                                                   *)

LEMMA OnTheWayKept ==
  ASSUME RelayInv, OnTheWay, UNCHANGED <<body, channel, got>>,
         reader' # "gone" => reader # "gone",
         relay'.gone = relay.gone, relay.taken <= relay'.taken, relay'.taken \in Nat,
         (IF relay'.pc = "sending" THEN Before' ELSE relay'.taken)
           = (IF relay.pc = "sending" THEN Before ELSE relay.taken)
  PROVE  OnTheWay'
<1> SUFFICES ASSUME reader' # "gone" PROVE OnTheWay'
  BY DEF OnTheWay
<1>1. PICK cut \in [0 .. Len(channel) -> 0 .. relay.taken] : Cuts(cut)
  BY DEF OnTheWay
<1>2. cut \in [0 .. Len(channel') -> 0 .. relay'.taken]
  <2>1. relay.taken \in Nat
    BY BodyIsAnAnswer DEF RelayInv, RelayTypes
  <2>2. 0 .. relay.taken \subseteq 0 .. relay'.taken
    BY <2>1
  <2> QED BY <1>1, <2>2
<1>3. Cuts(cut)'
  BY <1>1 DEF Cuts, Cut
<1> QED BY <1>2, <1>3 DEF OnTheWay

LEMMA OnTheWaySend ==
  ASSUME RelayInv, OnTheWay, Send
  PROVE  OnTheWay'
<1> DEFINE k == Len(channel)
<1>1. /\ relay.pc = "sending" /\ reader # "gone" /\ channel' = Append(channel, relay.chunk)
      /\ relay' = [relay EXCEPT !.pc = "observing"]
      /\ UNCHANGED <<body, written, ending, got, reader, taught>>
  BY DEF Send
<1>2. /\ relay'.pc = "observing" /\ relay'.taken = relay.taken /\ relay'.gone = relay.gone
      /\ relay.taken \in Nat /\ relay.chunk \in Seq(Piece)
  BY <1>1, BodyIsAnAnswer DEF RelayInv, RelayTypes
<1>3. Before \in 0 .. relay.taken /\ relay.chunk = Cut(Before, relay.taken) /\ Before < relay.taken
  <2>1. /\ Before \in 0 .. relay.taken /\ relay.chunk = Cut(Before, relay.taken) /\ relay.chunk # <<>>
    BY <1>1 DEF RelayInv, ReadsInOrder, Body
  <2>2. Len(relay.chunk) > 0
    BY <1>2, <2>1
  <2> QED BY <1>2, <2>1, <2>2 DEF Before
<1>4. /\ channel' \in Seq(Seq(Piece)) /\ Len(channel') = k + 1 /\ k \in Nat
      /\ \A i \in 1 .. k : channel'[i] = channel[i]
      /\ channel'[k + 1] = relay.chunk
  BY <1>1, <1>2, AppendProperties DEF RelayInv, RelayTypes
<1> HIDE DEF k
<1>5. PICK cut \in [0 .. k -> 0 .. relay.taken] : Cuts(cut)
  BY <1>1 DEF OnTheWay, k
<1>6. /\ got = Cut(0, cut[0]) /\ cut[k] = Before
      /\ \A i \in 1 .. k : cut[i - 1] < cut[i] /\ channel[i] = Cut(cut[i - 1], cut[i])
  BY <1>1, <1>5 DEF Cuts, k
<1>7. PICK next \in [0 .. k + 1 -> 0 .. relay.taken] :
        next[k + 1] = relay.taken /\ \A i \in 0 .. k : next[i] = cut[i]
  <2> DEFINE longer == [i \in 0 .. k + 1 |-> IF i <= k THEN cut[i] ELSE relay.taken]
  <2>1. \A i \in 0 .. k + 1 : i <= k => i \in 0 .. k
    BY <1>4
  <2>2. k + 1 \in 0 .. k + 1 /\ ~(k + 1 <= k) /\ relay.taken \in 0 .. relay.taken
    BY <1>2, <1>4
  <2>3. \A i \in 0 .. k : i \in 0 .. k + 1 /\ i <= k
    BY <1>4
  <2>4. /\ longer \in [0 .. k + 1 -> 0 .. relay.taken] /\ longer[k + 1] = relay.taken
        /\ \A i \in 0 .. k : longer[i] = cut[i]
    BY <1>5, <2>1, <2>2, <2>3
  <2> HIDE DEF longer
  <2> QED BY <2>4
<1>8. ASSUME NEW i \in 1 .. Len(channel')
      PROVE  next[i - 1] < next[i] /\ channel'[i] = Cut(next[i - 1], next[i])
  <2>1. i \in 1 .. k \/ i = k + 1
    BY <1>4
  <2>2. CASE i \in 1 .. k
    <3>1. i \in 0 .. k /\ i - 1 \in 0 .. k
      BY <1>4, <2>2
    <3> QED BY <1>4, <1>6, <1>7, <2>2, <3>1
  <2>3. CASE i = k + 1
    <3>1. i - 1 = k /\ k \in 0 .. k
      <4>1. k \in Nat
        BY <1>4
      <4> QED BY <2>3, <4>1
    <3>2. next[i - 1] = Before /\ next[i] = relay.taken
      BY <1>6, <1>7, <2>3, <3>1
    <3> QED BY <1>3, <1>4, <2>3, <3>2
  <2> QED BY <2>1, <2>2, <2>3
<1>9. next \in [0 .. Len(channel') -> 0 .. relay'.taken]
  BY <1>2, <1>4, <1>7
<1>10. got' = Cut(0, next[0])' /\ next[Len(channel')] = relay'.taken
  <2>1. 0 \in 0 .. k
    BY <1>4
  <2> QED BY <1>1, <1>2, <1>4, <1>6, <1>7, <2>1 DEF Cut
<1>11. Cuts(next)'
  <2>1. \A i \in 1 .. Len(channel') : channel'[i] = Cut(next[i - 1], next[i])'
    BY <1>1, <1>8 DEF Cut
  <2> QED BY <1>2, <1>8, <1>10, <2>1 DEF Cuts
<1>12. ~relay'.gone
  BY <1>1, <1>2 DEF OnTheWay
<1> QED BY <1>9, <1>11, <1>12 DEF OnTheWay

LEMMA OnTheWayReads ==
  ASSUME RelayInv, OnTheWay, ClientReads
  PROVE  /\ OnTheWay'
         /\ \E i, j \in 0 .. Len(written) : i < j /\ got = Cut(0, i) /\ got' = Cut(0, j)
<1> DEFINE k == Len(channel)
<1>1. /\ reader = "reading" /\ channel # <<>> /\ got' = got \o Head(channel) /\ channel' = Tail(channel)
      /\ UNCHANGED <<body, written, ending, relay, reader, taught>>
  BY DEF ClientReads
<1>2. /\ body \in Seq(Events) /\ Len(Pieces(body)) \in Nat
      /\ relay.taken \in 0 .. Len(written) /\ Len(written) \in 0 .. Len(Pieces(body))
      /\ channel \in Seq(Seq(Piece))
  BY BodyIsAnAnswer DEF RelayInv, RelayTypes
<1>3. /\ k \in Nat /\ k > 0 /\ Len(channel') = k - 1 /\ Head(channel) = channel[1]
      /\ \A i \in 1 .. k - 1 : channel'[i] = channel[i + 1]
  BY <1>1, <1>2, HeadTailProperties
<1> HIDE DEF k
<1>4. PICK cut \in [0 .. k -> 0 .. relay.taken] : Cuts(cut)
  BY <1>1 DEF OnTheWay, k
<1>5. /\ got = Cut(0, cut[0]) /\ cut[k] = (IF relay.pc = "sending" THEN Before ELSE relay.taken)
      /\ \A i \in 1 .. k : cut[i - 1] < cut[i] /\ channel[i] = Cut(cut[i - 1], cut[i])
  BY <1>4 DEF Cuts, k
<1>6. /\ cut[0] \in 0 .. Len(written) /\ cut[1] \in 0 .. Len(written) /\ cut[0] < cut[1]
      /\ channel[1] = Cut(cut[0], cut[1])
  <2>1. 0 \in 0 .. k /\ 1 \in 0 .. k /\ 1 \in 1 .. k /\ 1 - 1 = 0
    BY <1>3
  <2>2. 0 .. relay.taken \subseteq 0 .. Len(written)
    BY <1>2
  <2> QED BY <1>4, <1>5, <2>1, <2>2
<1>7. got' = Cut(0, cut[1])
  <2>1. 0 \in Nat /\ cut[0] \in Nat /\ cut[1] \in Nat /\ 0 <= cut[0] /\ cut[0] <= cut[1] /\ cut[1] <= Len(Pieces(body))
    BY <1>2, <1>6
  <2>2. Cut(0, cut[0]) \o Cut(cut[0], cut[1]) = Cut(0, cut[1])
    BY <1>2, <2>1, CutsJoin DEF Cut
  <2> QED BY <1>1, <1>3, <1>5, <1>6, <2>2
<1>8. PICK next \in [0 .. k - 1 -> 0 .. relay.taken] : \A i \in 0 .. k - 1 : next[i] = cut[i + 1]
  <2> DEFINE shorter == [i \in 0 .. k - 1 |-> cut[i + 1]]
  <2>1. \A i \in 0 .. k - 1 : i + 1 \in 0 .. k
    BY <1>3
  <2>2. shorter \in [0 .. k - 1 -> 0 .. relay.taken] /\ \A i \in 0 .. k - 1 : shorter[i] = cut[i + 1]
    BY <1>4, <2>1
  <2> HIDE DEF shorter
  <2> QED BY <2>2
<1>9. ASSUME NEW i \in 1 .. Len(channel')
      PROVE  next[i - 1] < next[i] /\ channel'[i] = Cut(next[i - 1], next[i])
  <2>1. /\ i \in 1 .. k - 1 /\ i \in 0 .. k - 1 /\ i - 1 \in 0 .. k - 1 /\ i + 1 \in 1 .. k
        /\ (i - 1) + 1 = i /\ (i + 1) - 1 = i
    BY <1>3
  <2>2. next[i - 1] = cut[i] /\ next[i] = cut[i + 1]
    BY <1>8, <2>1
  <2>3. cut[i] < cut[i + 1] /\ channel[i + 1] = Cut(cut[i], cut[i + 1])
    BY <1>5, <2>1
  <2> QED BY <1>3, <2>1, <2>2, <2>3
<1>10. next[0] = cut[1] /\ next[k - 1] = cut[k]
  <2>1. 0 \in 0 .. k - 1 /\ k - 1 \in 0 .. k - 1 /\ (k - 1) + 1 = k /\ 0 + 1 = 1
    BY <1>3
  <2> QED BY <1>8, <2>1
<1>11. Cuts(next)'
  <2>1. \A i \in 1 .. Len(channel') : channel'[i] = Cut(next[i - 1], next[i])'
    BY <1>1, <1>9 DEF Cut
  <2>2. got' = Cut(0, next[0])' /\ Before' = Before
    BY <1>1, <1>7, <1>10 DEF Cut, Before
  <2> QED BY <1>1, <1>3, <1>5, <1>9, <1>10, <2>1, <2>2 DEF Cuts
<1>12. OnTheWay'
  BY <1>1, <1>3, <1>8, <1>11 DEF OnTheWay
<1> QED BY <1>5, <1>6, <1>7, <1>12

LEMMA OnTheWayNext ==
  ASSUME RelayInv, OnTheWay, [RelayNext]_relayVars
  PROVE  OnTheWay'
<1>1. relay.taken \in Nat /\ RelayTypes
  BY BodyIsAnAnswer DEF RelayInv, RelayTypes
<1>2. CASE UpstreamWrites \/ UpstreamEnds
  BY <1>1, <1>2, OnTheWayKept DEF UpstreamWrites, UpstreamEnds, Before
<1>3. CASE Take
  <2>1. /\ relay.pc = "reading" /\ relay.taken < Len(written)
        /\ relay' = [relay EXCEPT !.pc = IF relay.gone THEN "observing" ELSE "sending",
                                 !.chunk = SubSeq(written, relay.taken + 1, Len(written)), !.taken = Len(written)]
        /\ UNCHANGED <<body, written, ending, channel, got, reader, taught>>
    BY <1>3 DEF Take
  <2>2. RelayInv'
    BY <1>3, RelayInvTake
  <2>3. relay'.taken = Len(written) /\ relay'.gone = relay.gone /\ Len(written) \in Nat
    BY <1>1, <2>1, BodyIsAnAnswer DEF RelayTypes
  <2>4. CASE reader = "gone"
    BY <2>1, <2>4 DEF OnTheWay
  <2>5. CASE reader # "gone"
    <3>1. ~relay.gone
      BY <2>5 DEF OnTheWay
    <3>2. relay'.pc = "sending"
      BY <1>1, <2>1, <3>1 DEF RelayTypes
    <3>3. Before' = relay.taken
      <4>1. relay'.chunk = SubSeq(written, relay.taken + 1, Len(written))
        BY <1>1, <2>1 DEF RelayTypes
      <4>2. written \in Seq(Piece)
        BY <1>1, BodyIsAnAnswer, CutIs DEF RelayTypes, Cut
      <4>3. relay.taken + 1 \in Nat \ {0} /\ Len(written) \in 0 .. Len(written)
        BY <1>1, <2>3
      <4>4. Len(relay'.chunk) = IF relay.taken + 1 <= Len(written) THEN Len(written) - (relay.taken + 1) + 1 ELSE 0
        BY <4>1, <4>2, <4>3, PartIs
      <4> QED BY <1>1, <2>1, <2>3, <4>4 DEF Before
    <3> QED BY <1>1, <2>1, <2>3, <3>2, <3>3, OnTheWayKept
  <2> QED BY <2>4, <2>5
<1>4. CASE Send
  BY <1>4, OnTheWaySend
<1>5. CASE SendFails
  BY <1>5 DEF SendFails, OnTheWay
<1>6. CASE Observe
  <2>1. /\ relay.pc = "observing" /\ relay'.pc = "reading" /\ relay'.taken = relay.taken /\ relay'.gone = relay.gone
        /\ UNCHANGED <<body, channel, got, reader>>
    BY <1>1, <1>6 DEF Observe, RelayTypes
  <2> QED BY <1>1, <2>1, OnTheWayKept
<1>7. CASE Conclude
  <2>1. /\ relay.pc = "reading" /\ relay'.pc = "rejecting" /\ relay'.taken = relay.taken /\ relay'.gone = relay.gone
        /\ UNCHANGED <<body, channel, got, reader>>
    BY <1>1, <1>7 DEF Conclude, RelayTypes
  <2> QED BY <1>1, <2>1, OnTheWayKept
<1>8. CASE RejectDelta \/ StoreSession \/ LearnPrefix \/ Record \/ Cache
  <2>1. \E from, to \in Over : \E what : Settles(from, to, what)
    BY <1>8 DEF RejectDelta, StoreSession, LearnPrefix, Record, Cache, Over, Taught
  <2>2. PICK from \in Over, to \in Over : \E what : Settles(from, to, what)
    BY <2>1
  <2>3. /\ relay.pc = from /\ relay'.pc = to /\ relay'.taken = relay.taken /\ relay'.gone = relay.gone
        /\ UNCHANGED <<body, channel, got, reader>>
    BY <1>1, <2>2 DEF Settles, RelayTypes
  <2>4. relay.pc # "sending" /\ relay'.pc # "sending"
    BY <2>3 DEF Over, Taught
  <2> QED BY <1>1, <2>3, <2>4, OnTheWayKept
<1>9. CASE ClientReads
  BY <1>9, OnTheWayReads
<1>10. CASE ClientTurns
  <2>1. /\ reader # "gone" /\ UNCHANGED <<body, relay, got>>
        /\ channel' = IF reader' = "gone" THEN <<>> ELSE channel
    BY <1>10 DEF ClientTurns
  <2>2. CASE reader' = "gone"
    BY <2>2 DEF OnTheWay
  <2>3. CASE reader' # "gone"
    BY <1>1, <2>1, <2>3, OnTheWayKept DEF Before
  <2> QED BY <2>2, <2>3
<1>11. CASE UNCHANGED relayVars
  BY <1>1, <1>11, OnTheWayKept DEF relayVars, Before
<1> QED BY <1>2, <1>3, <1>4, <1>5, <1>6, <1>7, <1>8, <1>9, <1>10, <1>11 DEF RelayNext, RelayStep

LEMMA BeginningsOrdered ==
  ASSUME body \in Streams, NEW i \in Nat, NEW j \in Nat, i < j, j <= Len(Pieces(body))
  PROVE  IsStrictPrefix(Cut(0, i), Cut(0, j))
<1>1. body \in Seq(Events) /\ Len(Pieces(body)) \in Nat
  BY BodyIsAnAnswer
<1>2. i \in 0 .. Len(Pieces(body)) /\ j \in 0 .. Len(Pieces(body)) /\ 0 \in Nat /\ i \in 0 .. j /\ i \in 0 .. i
  BY <1>1
<1>3. Len(Cut(0, i)) = i /\ Len(Cut(0, j)) = j
  BY <1>1, <1>2, CutIs DEF Cut
<1>4. SubSeq(Cut(0, i), 0 + 1, i) = Cut(0, i) /\ SubSeq(Cut(0, j), 0 + 1, i) = Cut(0, i)
  BY <1>1, <1>2, CutOfBeginning DEF Cut
<1>5. IsPrefix(Cut(0, i), Cut(0, j))
  BY <1>3, <1>4 DEF IsPrefix
<1>6. Cut(0, i) # Cut(0, j)
  BY <1>3
<1> QED BY <1>5, <1>6 DEF IsStrictPrefix

LEMMA BeginningsPrefix ==
  ASSUME body \in Streams, NEW i \in Nat, NEW j \in Nat, i <= j, j <= Len(Pieces(body))
  PROVE  IsPrefix(Cut(0, i), Cut(0, j))
<1>1. CASE i < j
  BY <1>1, BeginningsOrdered DEF IsStrictPrefix
<1>2. CASE i = j
  BY <1>2 DEF IsPrefix
<1> QED BY <1>1, <1>2

LEMMA RelayStepOfPipe ==
  ASSUME RelayInv, OnTheWay, [RelayNext]_relayVars
  PROVE  [Pipe!PipeNext]_(Pipe!pipeVars)
<1> USE DEF Pipe!pipeVars
<1>1. /\ body \in Streams /\ Len(Pieces(body)) \in Nat /\ Len(written) \in Nat
      /\ Len(written) <= Len(Pieces(body)) /\ written = Cut(0, Len(written))
  BY BodyIsAnAnswer DEF RelayInv, RelayTypes
<1>2. CASE UpstreamWrites
  <2>1. PICK n \in Len(written) + 1 .. Len(Pieces(body)) : written' = SubSeq(Pieces(body), 1, n)
    BY <1>2 DEF UpstreamWrites
  <2>2. n \in Nat /\ Len(written) < n /\ n <= Len(Pieces(body)) /\ written' = Cut(0, n)
    BY <1>1, <2>1 DEF Cut, Part
  <2>3. IsStrictPrefix(written, written')
    BY <1>1, <2>2, BeginningsOrdered
  <2>4. ending = None /\ UNCHANGED <<ending, got, reader>>
    BY <1>2 DEF UpstreamWrites
  <2>5. Pipe!IsStrictPrefix(written, written')
    BY <2>3 DEF IsStrictPrefix, IsPrefix, Pipe!IsStrictPrefix, Pipe!IsPrefix
  <2> QED BY <2>4, <2>5 DEF Pipe!PipeNext, Pipe!Write
<1>3. CASE UpstreamEnds
  <2>1. ending = None /\ ending' \in {"eof", "broken"} /\ UNCHANGED <<written, got, reader>>
    BY <1>3 DEF UpstreamEnds
  <2>2. ending' # None
    BY <2>1, NoneAssumption
  <2> QED BY <2>1, <2>2 DEF Pipe!PipeNext, Pipe!Over
<1>4. CASE RelayStep
  <2>1. UNCHANGED <<written, ending, got, reader>>
    BY <1>4 DEF RelayStep, Take, Send, SendFails, Observe, Conclude, RejectDelta, StoreSession, LearnPrefix,
                Record, Cache, Settles
  <2> QED BY <2>1
<1>5. CASE ClientReads
  <2>1. PICK i \in 0 .. Len(written), j \in 0 .. Len(written) : i < j /\ got = Cut(0, i) /\ got' = Cut(0, j)
    BY <1>5, OnTheWayReads
  <2>2. i \in Nat /\ j \in Nat /\ j <= Len(written) /\ j <= Len(Pieces(body))
    BY <1>1
  <2>3. IsStrictPrefix(got, got')
    BY <1>1, <2>1, <2>2, BeginningsOrdered
  <2>4. IsPrefix(got', written)
    BY <1>1, <2>1, <2>2, BeginningsPrefix
  <2>5. reader = "reading" /\ UNCHANGED <<written, ending, reader>>
    BY <1>5 DEF ClientReads
  <2>6. Pipe!IsStrictPrefix(got, got') /\ Pipe!IsPrefix(got', written)
    BY <2>3, <2>4 DEF IsStrictPrefix, IsPrefix, Pipe!IsStrictPrefix, Pipe!IsPrefix
  <2> QED BY <2>5, <2>6 DEF Pipe!PipeNext, Pipe!Read
<1>6. CASE ClientTurns
  <2>1. /\ reader # "gone" /\ reader' \in {"reading", "stalled", "gone"} \ {reader}
        /\ UNCHANGED <<written, ending, got>>
    BY <1>6 DEF ClientTurns
  <2> QED BY <2>1 DEF Pipe!PipeNext, Pipe!Turn
<1>7. CASE UNCHANGED relayVars
  BY <1>7 DEF relayVars
<1> QED BY <1>2, <1>3, <1>4, <1>5, <1>6, <1>7 DEF RelayNext

(* The relay implements the steps of the pipe for a channel of any size:   *)
(* what a client reads is always the beginning of what the upstream wrote, *)
(* in order and without a gap.                                             *)
THEOREM RelayKeepsThePipe == RelaySpec => Pipe!PipeSteps
<1>1. RelayInit => Pipe!PipeInit
  BY DEF RelayInit, Pipe!PipeInit
<1>2. RelayInit => OnTheWay
  BY RelayInvInit
<1>3. RelayInv /\ OnTheWay /\ [RelayNext]_relayVars => OnTheWay'
  BY OnTheWayNext
<1>4. RelayInv /\ OnTheWay /\ [RelayNext]_relayVars => [Pipe!PipeNext]_(Pipe!pipeVars)
  BY RelayStepOfPipe
<1> QED BY <1>1, <1>2, <1>3, <1>4, RelayIsConsistent, PTL DEF RelaySpec, Pipe!PipeSteps
=============================================================================
