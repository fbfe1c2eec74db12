--------------------------- MODULE ChatStreamProofs ---------------------------
(***************************************************************************)
(* Proofs about ChatStream, for any chunks and any number of calls.        *)
(*                                                                         *)
(* A function of the converter returns a state and events.  The books are  *)
(* what is said of a state and of all the events sent so far: the events   *)
(* name the items the state has added, under its indexes (Trail); the      *)
(* texts of the open items are what was shown (Shows); the calls have the  *)
(* names and ids that came (Named); and the output lists the items that    *)
(* are done, each with what was shown of it (Books).  Every function of a  *)
(* chunk keeps the books (Kept), those of the end close them, and what     *)
(* comes after the end changes nothing that was said (Over).               *)
(***************************************************************************)
EXTENDS ChatStream, SequenceTheorems, WellFoundedInduction, TLAPS

(* A set of numbers has a least one, which is its Min.                     *)
LEMMA LeastOf ==
  ASSUME NEW T \in SUBSET Nat, T # {}
  PROVE  Min(T) \in T /\ \A y \in T : Min(T) <= y
<1> DEFINE R == {ss \in Nat \X Nat : ss[1] < ss[2]}
<1>1. \A x, y \in Nat : y < x => <<y, x>> \in R
  OBVIOUS
<1>2. IsWellFoundedOn(R, Nat)
  BY NatLessThanWellFounded DEF OpToRel
<1> HIDE DEF R
<1>3. PICK x \in T : \A y \in T : ~ (<<y, x>> \in R)
  BY <1>2, WFMin
<1>4. ASSUME NEW y \in T PROVE x <= y
  <2>1. x \in Nat /\ y \in Nat /\ <<y, x>> \notin R
    BY <1>3
  <2>2. ~ (y < x)
    BY <1>1, <2>1
  <2> QED BY <2>1, <2>2
<1> QED BY <1>4 DEF Min

(* Induction up to a number.                                               *)
LEMMA UpTo ==
  ASSUME NEW n \in Nat, NEW P,
         0 \in P, \A k \in 0 .. n - 1 : k \in P => k + 1 \in P
  PROVE  0 .. n \subseteq P
<1> DEFINE T == (0 .. n) \ P
<1>1. CASE T = {}
  BY <1>1
<1>2. CASE T # {}
  <2>1. Min(T) \in T /\ \A y \in T : Min(T) <= y
    BY <1>2, LeastOf
  <2>2. Min(T) # 0 /\ Min(T) - 1 \in 0 .. n - 1 /\ Min(T) - 1 \notin T
    BY <2>1
  <2> QED BY <2>1, <2>2
<1> QED BY <1>1, <1>2

-----------------------------------------------------------------------------
(* Lists.                                                                  *)

(* A list is the function of its places.                                   *)
LEMMA ListIs ==
  ASSUME NEW x, IsList(x)
  PROVE  /\ Len(x) \in Nat /\ DOMAIN x = 1 .. Len(x)
         /\ x = [i \in 1 .. Len(x) |-> x[i]] /\ \A i \in 1 .. Len(x) : x[i] \in Range(x)
BY DEF IsList, Range

LEMMA ListFrom ==
  ASSUME NEW S, NEW x \in Seq(S)
  PROVE  IsList(x)
<1>1. Len(x) \in Nat /\ DOMAIN x = 1 .. Len(x) /\ x = [i \in 1 .. Len(x) |-> x[i]]
  OBVIOUS
<1>2. \A i \in 1 .. Len(x) : x[i] \in Range(x)
  BY <1>1 DEF Range
<1> QED BY <1>1, <1>2 DEF IsList

(* The places of two lists that are joined.                                *)
LEMMA Joined ==
  ASSUME NEW x, IsList(x), NEW y, IsList(y)
  PROVE  /\ IsList(x \o y) /\ Len(x \o y) = Len(x) + Len(y)
         /\ DOMAIN (x \o y) = 1 .. Len(x) + Len(y)
         /\ \A i \in 1 .. Len(x) : (x \o y)[i] = x[i]
         /\ \A i \in 1 .. Len(y) : (x \o y)[Len(x) + i] = y[i]
<1> DEFINE S == Range(x) \cup Range(y)
<1>1. x \in Seq(S) /\ y \in Seq(S)
  BY DEF IsList
<1> HIDE DEF S
<1>2. /\ x \o y \in Seq(S) /\ Len(x \o y) = Len(x) + Len(y)
      /\ \A i \in 1 .. Len(x) + Len(y) :
           (x \o y)[i] = IF i <= Len(x) THEN x[i] ELSE y[i - Len(x)]
  BY <1>1, ConcatProperties
<1>3. IsList(x \o y)
  BY <1>2, ListFrom
<1>4. Len(x) \in Nat /\ Len(y) \in Nat
  BY <1>1
<1>5. \A i \in 1 .. Len(x) : (x \o y)[i] = x[i]
  BY <1>2, <1>4
<1>6. \A i \in 1 .. Len(y) : (x \o y)[Len(x) + i] = y[i]
  <2> TAKE i \in 1 .. Len(y)
  <2>1. Len(x) + i \in 1 .. Len(x) + Len(y) /\ ~ (Len(x) + i <= Len(x)) /\ (Len(x) + i) - Len(x) = i
    BY <1>4
  <2> QED BY <1>2, <2>1
<1>7. DOMAIN (x \o y) = 1 .. Len(x) + Len(y)
  BY <1>2, <1>3, ListIs
<1> QED BY <1>2, <1>3, <1>5, <1>6, <1>7

LEMMA JoinedThrice ==
  ASSUME NEW x, IsList(x), NEW y, IsList(y), NEW z, IsList(z)
  PROVE  (x \o y) \o z = x \o (y \o z)
<1> DEFINE S == Range(x) \cup Range(y) \cup Range(z)
<1>1. x \in Seq(S) /\ y \in Seq(S) /\ z \in Seq(S)
  BY DEF IsList
<1> HIDE DEF S
<1> QED BY <1>1, ConcatAssociative

LEMMA Lists ==
  /\ IsList(<<>>) /\ Len(<<>>) = 0
  /\ \A e : IsList(<<e>>) /\ Len(<<e>>) = 1 /\ <<e>>[1] = e
  /\ \A x : IsList(x) => x \o <<>> = x /\ <<>> \o x = x
  /\ \A x, e : IsList(x) => Append(x, e) = x \o <<e>>
<1>1. IsList(<<>>) /\ Len(<<>>) = 0
  BY DEF IsList
<1>2. ASSUME NEW e PROVE IsList(<<e>>) /\ Len(<<e>>) = 1 /\ <<e>>[1] = e
  <2>1. <<e>> \in Seq({e})
    OBVIOUS
  <2> QED BY <2>1, ListFrom
<1>3. ASSUME NEW x, IsList(x) PROVE x \o <<>> = x /\ <<>> \o x = x
  BY <1>3, ConcatEmptySeq DEF IsList
<1>4. ASSUME NEW x, NEW e, IsList(x) PROVE Append(x, e) = x \o <<e>>
  <2>1. x \in Seq(Range(x) \cup {e}) /\ e \in Range(x) \cup {e}
    BY <1>4 DEF IsList
  <2> QED BY <2>1
<1> QED BY <1>1, <1>2, <1>3, <1>4

LEMMA LastOne ==
  ASSUME NEW x, IsList(x), NEW e
  PROVE  LET y == x \o <<e>>
         IN  /\ IsList(y) /\ Len(y) = Len(x) + 1 /\ DOMAIN y = 1 .. Len(x) + 1
             /\ \A i \in 1 .. Len(x) : y[i] = x[i]
             /\ y[Len(x) + 1] = e
<1>1. IsList(<<e>>) /\ Len(<<e>>) = 1 /\ <<e>>[1] = e
  BY Lists
<1> QED BY <1>1, Joined

-----------------------------------------------------------------------------
(* What is shown of an item.                                               *)

(* The texts of an item after each of the first n events.                  *)
Texts(evs, item, n, text) ==
  text = [k \in 0 .. n |->
            IF k = 0 THEN <<>>
            ELSE IF evs[k].type = "delta" /\ evs[k].item = item THEN text[k - 1] \o evs[k].text
            ELSE text[k - 1]]

(* Shown is built event by event: its recursive function exists.           *)
LEMMA ShownByEvent ==
  ASSUME NEW evs, NEW N \in Nat, Len(evs) = N, NEW item
  PROVE  \E f : Texts(evs, item, N, f) /\ Shown(evs, item) = f[N]
<1> DEFINE More(old, n) == IF evs[n].type = "delta" /\ evs[n].item = item THEN old \o evs[n].text ELSE old
           Rows(f, m) == f = [k \in 0 .. m |-> IF k = 0 THEN <<>> ELSE More(f[k - 1], k)]
           P == {m \in 0 .. N : \E f : Rows(f, m)}
<1>1. 0 \in P
  <2> DEFINE g == [k \in 0 .. 0 |-> <<>>]
  <2>1. Rows(g, 0)
    <3>1. \A k \in 0 .. 0 : k = 0 /\ g[k] = <<>>
      OBVIOUS
    <3>2. g = [k \in 0 .. 0 |-> g[k]]
      OBVIOUS
    <3> HIDE DEF g, More
    <3>3. ASSUME NEW k \in 0 .. 0
          PROVE  g[k] = IF k = 0 THEN <<>> ELSE More(g[k - 1], k)
      BY <3>1
    <3> QED BY <3>2, <3>3
  <2> HIDE DEF Rows, g
  <2> QED BY <2>1
<1>2. ASSUME NEW m \in 0 .. N - 1, m \in P PROVE m + 1 \in P
  <2>1. PICK f : Rows(f, m)
    BY <1>2
  <2> DEFINE g == [k \in 0 .. m + 1 |-> IF k = m + 1 THEN More(f[m], m + 1) ELSE f[k]]
  <2>2. Rows(g, m + 1)
    <3> HIDE DEF More
    <3>1. ASSUME NEW k \in 0 .. m + 1
          PROVE  g[k] = IF k = 0 THEN <<>> ELSE More(g[k - 1], k)
      <4>1. CASE k = m + 1
        <5>1. g[k - 1] = f[m]
          BY <4>1
        <5> QED BY <4>1, <5>1
      <4>2. CASE k \in 0 .. m
        <5>1. g[k] = f[k] /\ (k # 0 => g[k - 1] = f[k - 1])
          BY <4>2
        <5>2. f[k] = IF k = 0 THEN <<>> ELSE More(f[k - 1], k)
          BY <2>1, <4>2
        <5> QED BY <5>1, <5>2
      <4> QED BY <4>1, <4>2
    <3>2. g = [k \in 0 .. m + 1 |-> g[k]]
      OBVIOUS
    <3> HIDE DEF g
    <3> QED BY <3>1, <3>2
  <2> HIDE DEF Rows, g
  <2> QED BY <2>2
<1>3. \E f : Rows(f, N)
  <2> HIDE DEF P
  <2>1. 0 .. N \subseteq P
    BY <1>1, <1>2, UpTo
  <2>2. N \in P
    BY <2>1
  <2> QED BY <2>2 DEF P
<1> DEFINE t == CHOOSE f : Rows(f, N)
<1>4. Rows(t, N)
  <2> HIDE DEF Rows
  <2> QED BY <1>3
<1>5. Shown(evs, item) = t[N]
  BY DEF Shown
<1> HIDE DEF t
<1> QED BY <1>4, <1>5 DEF Texts

LEMMA ShownNothing ==
  ASSUME NEW item
  PROVE  Shown(<<>>, item) = <<>>
<1>1. Len(<<>>) = 0 /\ 0 \in Nat
  OBVIOUS
<1>2. PICK f : Texts(<<>>, item, 0, f) /\ Shown(<<>>, item) = f[0]
  BY <1>1, ShownByEvent
<1> QED BY <1>2 DEF Texts

(* One event more shows the text of a delta more.                          *)
LEMMA ShownMore ==
  ASSUME NEW evs, IsList(evs), NEW e, NEW item
  PROVE  Shown(evs \o <<e>>, item) =
           IF e.type = "delta" /\ e.item = item THEN Shown(evs, item) \o e.text
           ELSE Shown(evs, item)
<1> DEFINE more == evs \o <<e>>
           N == Len(evs)
<1>2. /\ N \in Nat /\ Len(more) = N + 1 /\ N + 1 \in Nat /\ Len(evs) = N
      /\ \A i \in 1 .. N : more[i] = evs[i]
      /\ more[N + 1] = e
  BY LastOne, ListIs
<1> HIDE DEF more, N
<1>3. PICK f : Texts(evs, item, N, f) /\ Shown(evs, item) = f[N]
  BY <1>2, ShownByEvent
<1>4. PICK g : Texts(more, item, N + 1, g) /\ Shown(more, item) = g[N + 1]
  BY <1>2, ShownByEvent
<1> DEFINE P == {n \in 0 .. N : f[n] = g[n]}
<1>5. 0 \in P
  BY <1>2, <1>3, <1>4 DEF Texts
<1>6. ASSUME NEW n \in 0 .. N - 1, n \in P PROVE n + 1 \in P
  <2>1. n + 1 \in 0 .. N /\ n + 1 # 0 /\ (n + 1) - 1 = n /\ n + 1 \in 0 .. N + 1
    BY <1>2
  <2>2. f[n + 1] = IF evs[n + 1].type = "delta" /\ evs[n + 1].item = item
                   THEN f[n] \o evs[n + 1].text ELSE f[n]
    BY <1>3, <2>1 DEF Texts
  <2>3. g[n + 1] = IF more[n + 1].type = "delta" /\ more[n + 1].item = item
                   THEN g[n] \o more[n + 1].text ELSE g[n]
    BY <1>4, <2>1 DEF Texts
  <2>4. more[n + 1] = evs[n + 1] /\ f[n] = g[n]
    BY <1>2, <1>6, <2>1
  <2> QED BY <2>1, <2>2, <2>3, <2>4
<1>7. f[N] = g[N]
  <2> HIDE DEF P
  <2>1. 0 .. N \subseteq P
    BY <1>2, <1>5, <1>6, UpTo
  <2>2. N \in P
    BY <1>2, <2>1
  <2> QED BY <2>2 DEF P
<1>8. g[N + 1] = IF e.type = "delta" /\ e.item = item THEN g[N] \o e.text ELSE g[N]
  <2>1. N + 1 \in 0 .. N + 1 /\ N + 1 # 0 /\ (N + 1) - 1 = N
    BY <1>2
  <2> QED BY <1>2, <1>4, <2>1 DEF Texts
<1> QED BY <1>3, <1>4, <1>7, <1>8 DEF more

-----------------------------------------------------------------------------
(* Texts.                                                                  *)

WordsOf(c) ==
  Range(c.why) \cup Range(c.content) \cup UNION {Range(d.args) : d \in Range(c.calls)}
Atoms == {"{}"} \cup UNION {WordsOf(c) : c \in Chunks}
Text == Seq(Atoms)

Deltas == UNION {Range(c.calls) : c \in Chunks}

(* What the fields of a chunk hold.                                        *)
LEMMA ChunkTypes ==
  /\ \A c \in Chunks : /\ c.why \in Text /\ c.content \in Text
                       /\ c.calls \in Seq(Deltas) /\ IsList(c.calls)
  /\ \A d \in Deltas : d.key \in 0 .. MaxCalls - 1 /\ d.id \in BOOLEAN /\ d.args \in Text
  /\ MaxCalls \in Nat
<1>1. ASSUME NEW c \in Chunks
      PROVE  c.why \in Text /\ c.content \in Text /\ c.calls \in Seq(Deltas) /\ IsList(c.calls)
  <2>1. IsList(c.why) /\ IsList(c.content) /\ IsList(c.calls)
    BY SoundChunks
  <2>2. /\ Range(c.why) \subseteq Atoms /\ Range(c.content) \subseteq Atoms
        /\ Range(c.calls) \subseteq Deltas
    <3>1. WordsOf(c) \subseteq Atoms
      BY DEF Atoms
    <3>2. Range(c.why) \subseteq WordsOf(c) /\ Range(c.content) \subseteq WordsOf(c)
      BY Zenon DEF WordsOf
    <3>3. Range(c.calls) \subseteq Deltas
      BY DEF Deltas
    <3> QED BY <3>1, <3>2, <3>3
  <2> QED BY <2>1, <2>2, SeqMonotonic DEF IsList, Text
<1>2. ASSUME NEW d \in Deltas
      PROVE  d.key \in 0 .. MaxCalls - 1 /\ d.id \in BOOLEAN /\ d.args \in Text
  <2>1. PICK c \in Chunks : d \in Range(c.calls)
    BY DEF Deltas
  <2>2. d.key \in 0 .. MaxCalls - 1 /\ d.id \in BOOLEAN /\ IsList(d.args)
    BY <2>1, SoundChunks
  <2>3. Range(d.args) \subseteq Atoms
    <3>1. Range(d.args) \subseteq UNION {Range(e.args) : e \in Range(c.calls)}
      BY <2>1
    <3>2. WordsOf(c) \subseteq Atoms
      BY DEF Atoms
    <3> QED BY <3>1, <3>2, Zenon DEF WordsOf
  <2> QED BY <2>2, <2>3, SeqMonotonic DEF IsList, Text
<1> QED BY <1>1, <1>2, SoundChunks

-----------------------------------------------------------------------------
(* Texts.                                                                  *)

LEMMA FirstOf ==
  ASSUME NEW n \in Nat, NEW I \in SUBSET (1 .. n), I # {}
  PROVE  Min(I) \in I /\ Min(I) \in 1 .. n /\ \A y \in I : Min(I) <= y
<1>1. I \in SUBSET Nat
  OBVIOUS
<1> QED BY <1>1, LeastOf

(* A text without its leading blanks begins with an atom that is not.      *)
LEMMA TrimmedStart ==
  ASSUME NEW t \in Text
  PROVE  \/ TrimStart(t) = <<>> /\ IsBlank(t)
         \/ \E i \in 1 .. Len(t) :
              /\ TrimStart(t) = SubSeq(t, i, Len(t)) /\ t[i] # "sp"
              /\ \A j \in 1 .. i - 1 : t[j] = "sp"
<1> DEFINE I == {i \in 1 .. Len(t) : t[i] # "sp"}
           i == SelectInSeq(t, LAMBDA a : a # "sp")
<1>1. Len(t) \in Nat /\ I \in SUBSET (1 .. Len(t)) /\ DOMAIN t = 1 .. Len(t)
  BY DEF Text
<1>2. i = IF I # {} THEN Min(I) ELSE 0
  BY DEF SelectInSeq
<1>3. TrimStart(t) = IF i = 0 THEN <<>> ELSE SubSeq(t, i, Len(t))
  BY DEF TrimStart
<1>4. CASE I = {}
  <2>1. \A j \in 1 .. Len(t) : t[j] = "sp"
    BY <1>4
  <2> HIDE DEF i
  <2> QED BY <1>1, <1>2, <1>3, <1>4, <2>1 DEF IsBlank
<1>5. CASE I # {}
  <2>1. Min(I) \in I /\ Min(I) \in 1 .. Len(t) /\ \A y \in I : Min(I) <= y
    BY <1>1, <1>5, FirstOf
  <2>2. i = Min(I) /\ i # 0
    BY <1>2, <1>5, <2>1
  <2>3. ASSUME NEW j \in 1 .. i - 1 PROVE t[j] = "sp"
    <3>1. j \in 1 .. Len(t) /\ ~ (Min(I) <= j)
      BY <1>1, <2>1, <2>2
    <3> QED BY <2>1, <3>1
  <2> HIDE DEF i
  <2> QED BY <1>1, <1>3, <2>1, <2>2, <2>3
<1> QED BY <1>4, <1>5

LEMMA NoText ==
  <<>> \in Text
BY DEF Text

(* The operators on texts return texts.                                    *)
LEMMA TextOps ==
  ASSUME NEW t \in Text
  PROVE  /\ TrimStart(t) \in Text /\ Reverse(t) \in Text /\ Trim(t) \in Text
         /\ StripOpenTag(t) \in Text /\ Canonical(t) \in Text
         /\ \A n \in Nat \ {0} : From(t, n) \in Text
         /\ \A u \in Text : t \o u \in Text
         /\ <<>> \in Text
<1>1. \A u \in Text : Reverse(u) \in Text
  BY DEF Text, Reverse
<1>2. ASSUME NEW u \in Text, NEW n \in Nat \ {0}, NEW m \in Nat, m <= Len(u)
      PROVE  SubSeq(u, n, m) \in Text
  BY <1>2, SubSeqProperties DEF Text
<1>3. \A u \in Text : TrimStart(u) \in Text
  <2> TAKE u \in Text
  <2>1. <<>> \in Text /\ Len(u) \in Nat
    BY DEF Text
  <2>2. CASE \E i \in 1 .. Len(u) : TrimStart(u) = SubSeq(u, i, Len(u))
    BY <1>2, <2>1, <2>2
  <2> QED BY <2>1, <2>2, TrimmedStart
<1>4. \A u \in Text : Trim(u) \in Text
  BY <1>1, <1>3 DEF Trim
<1>5. \A u \in Text, n \in Nat \ {0} : From(u, n) \in Text
  <2> TAKE u \in Text, n \in Nat \ {0}
  <2>1. Len(u) \in Nat /\ Len(u) <= Len(u)
    BY DEF Text
  <2> QED BY <1>2, <2>1 DEF From
<1>6. StripOpenTag(t) \in Text
  <2>1. Len(Open) + 1 \in Nat \ {0}
    BY DEF Open
  <2> QED BY <1>3, <1>4, <1>5, <2>1 DEF StripOpenTag
<1>7. Canonical(t) \in Text
  <2>1. <<"{}">> \in Text
    <3>1. "{}" \in Atoms
      BY DEF Atoms
    <3>2. \A e \in Atoms : <<e>> \in Seq(Atoms)
      OBVIOUS
    <3> QED BY <3>1, <3>2 DEF Text
  <2> QED BY <1>4, <2>1 DEF Canonical
<1>8. \A u \in Text : t \o u \in Text
  BY DEF Text
<1>9. <<>> \in Text
  BY DEF Text
<1> QED BY <1>1, <1>3, <1>4, <1>5, <1>6, <1>7, <1>8, <1>9

Thought == [why : Text, answer : Text]

(* Both parts of a thought and an answer are texts.                        *)
LEMMA SplitTypes ==
  ASSUME NEW t \in Text, SplitThink(t) # Absent
  PROVE  SplitThink(t) \in Thought
<1> DEFINE b == TrimStart(t)
           I == {i \in 1 .. Len(b) : b[i] = "</think>"}
           close == SelectInSeq(b, LAMBDA a : a = "</think>")
<1>1. b \in Text
  BY TextOps
<1> HIDE DEF b
<1>2. Len(b) \in Nat /\ I \in SUBSET (1 .. Len(b))
  BY <1>1 DEF Text
<1>3. close = IF I # {} THEN Min(I) ELSE 0
  BY DEF SelectInSeq
<1>4. SplitThink(t) =
        IF ~IsPrefix(Open, b) \/ close = 0 THEN Absent
        ELSE [why |-> Trim(SubSeq(b, Len(Open) + 1, close - 1)),
              answer |-> TrimStart(From(b, close + 1))]
  BY DEF SplitThink, b
<1> HIDE DEF close
<1>5. close # 0
  BY <1>4
<1>6. close \in 1 .. Len(b)
  BY <1>2, <1>3, <1>5, FirstOf
<1>7. Len(Open) + 1 \in Nat \ {0} /\ close - 1 \in Nat /\ close - 1 <= Len(b) /\ close + 1 \in Nat \ {0}
  BY <1>2, <1>6 DEF Open
<1>8. SubSeq(b, Len(Open) + 1, close - 1) \in Text
  BY <1>1, <1>7, SubSeqProperties DEF Text
<1>9. From(b, close + 1) \in Text
  BY <1>1, <1>7, TextOps
<1>10. /\ Trim(SubSeq(b, Len(Open) + 1, close - 1)) \in Text
       /\ TrimStart(From(b, close + 1)) \in Text
  BY <1>8, <1>9, TextOps
<1> HIDE DEF Thought
<1> QED BY <1>4, <1>10 DEF Thought

(* The items of a response, and the types of what the functions work on.   *)
AllItems == {Reasoning, Message} \cup {Tool(k) : k \in 0 .. MaxCalls - 1}
Indexes == Nat \cup {Absent}
Names == {Absent} \cup {d.name : d \in Deltas}

ItemState ==
  {i \in [index : Indexes, text : Text, added : BOOLEAN, done : BOOLEAN] :
     (i.added => i.index \in Nat) /\ (i.done => i.added)}
ToolState ==
  {t \in [index : Indexes, call : {Absent, "given", "made"}, name : Names, args : Text,
          why : Text, added : BOOLEAN, done : BOOLEAN] : t.added => t.index \in Nat}
ToolMaps == UNION {[D -> ToolState] : D \in SUBSET (0 .. MaxCalls - 1)}
Entry == [index : Nat, item : AllItems, text : Text]
Finishes == {Absent, "length"} \cup {c.finish : c \in Chunks}

State ==
  [started : BOOLEAN, completed : BOOLEAN, next : Nat, reasoning : ItemState, message : ItemState,
   mode : {"Detecting", "Reasoning", "Text"}, buffer : Text, tools : ToolMaps,
   output : Seq(Entry), finish : Finishes]

OfAnItem == {"item.added", "part.added", "delta", "text.done", "part.done", "item.done"}
Says ==
  [type : {"created", "in_progress"}, item : {Response}, index : Nat, text : Text]
  \cup [type : OfAnItem, item : AllItems, index : Nat, text : Text]

(* The items differ, and the response is not one of them.                  *)
LEMMA Distinct ==
  /\ Reasoning # Message /\ Reasoning # Response /\ Message # Response
  /\ \A k \in 0 .. MaxCalls - 1 :
       Tool(k) # Reasoning /\ Tool(k) # Message /\ Tool(k) # Response /\ Tool(k)[2] = k
       /\ Tool(k) \in AllItems
  /\ Reasoning \in AllItems /\ Message \in AllItems /\ Response \notin AllItems
<1>1. Reasoning # Message /\ Reasoning # Response /\ Message # Response
  BY DEF Reasoning, Message, Response
<1>2. ASSUME NEW k \in 0 .. MaxCalls - 1
      PROVE  Tool(k) # Reasoning /\ Tool(k) # Message /\ Tool(k) # Response /\ Tool(k)[2] = k
  <2>1. Len(Tool(k)) = 2 /\ Len(Reasoning) = 1 /\ Len(Message) = 1 /\ Len(Response) = 1
    BY DEF Tool, Reasoning, Message, Response
  <2>2. Tool(k)[2] = k
    BY DEF Tool
  <2> QED BY <2>1, <2>2
<1> QED BY <1>1, <1>2 DEF AllItems

-----------------------------------------------------------------------------
(* The marks of the items, and events that agree with them.                *)

Marking ==
  {m \in [added : BOOLEAN, done : BOOLEAN, index : Indexes] : m.added => m.index \in Nat}
Mark(i) == [added |-> i.added, done |-> i.done, index |-> i.index]
Unmarked == [added |-> FALSE, done |-> FALSE, index |-> Absent]
MarkOf(z, x) ==
  IF x = Reasoning THEN Mark(z.reasoning)
  ELSE IF x = Message THEN Mark(z.message)
  ELSE IF x[2] \in DOMAIN z.tools THEN Mark(z.tools[x[2]])
  ELSE Unmarked
Marks(z) == [x \in AllItems |-> MarkOf(z, x)]
Markings == [AllItems -> Marking]

Trail(m, next, evs) ==
  /\ \A x \in AllItems : m[x].added =>
       /\ m[x].index \in 0 .. next - 1
       /\ \E a \in DOMAIN evs :
            evs[a].type = "item.added" /\ evs[a].item = x /\ evs[a].index = m[x].index
  /\ \A i \in DOMAIN evs : evs[i].item # Response =>
       /\ m[evs[i].item].added /\ evs[i].index = m[evs[i].item].index
       /\ \E a \in 1 .. i : /\ evs[a].type = "item.added" /\ evs[a].item = evs[i].item
                           /\ evs[a].index = evs[i].index
       /\ evs[i].type = "item.done" => m[evs[i].item].done
  /\ \A i, j \in DOMAIN evs : i # j /\ evs[i].type = evs[j].type =>
       /\ evs[i].type = "item.added" =>
            evs[i].item # evs[j].item /\ evs[i].index # evs[j].index
       /\ evs[i].type = "item.done" => evs[i].item # evs[j].item

LEMMA SaysTypes ==
  ASSUME NEW e \in Says
  PROVE  /\ e.index \in Nat /\ e.text \in Text
         /\ e.item \in AllItems => e.type \in OfAnItem
         /\ e.item \notin AllItems => e.item = Response /\ e.type \in {"created", "in_progress"}
         /\ e.type \notin Terminal
         /\ e.item # Response => e.item \in AllItems
BY Distinct DEF Says, OfAnItem, Terminal

LEMMA SaysNext ==
  ASSUME NEW evs \in Seq(Says), NEW e \in Says
  PROVE  LET new == evs \o <<e>>
             n == Len(evs)
         IN  /\ new \in Seq(Says) /\ n \in Nat
             /\ DOMAIN new = 1 .. n + 1 /\ DOMAIN evs = 1 .. n
             /\ \A i \in 1 .. n : new[i] = evs[i] /\ evs[i] \in Says
             /\ new[n + 1] = e
<1>1. IsList(evs)
  BY ListFrom
<1>2. evs \o <<e>> \in Seq(Says) /\ \A i \in 1 .. Len(evs) : evs[i] \in Says
  OBVIOUS
<1> QED BY <1>1, <1>2, LastOne, ListIs

(* Marks may change for the worse only in what no event has said yet.      *)
LEMMA TrailMarks ==
  ASSUME NEW m \in Markings, NEW q \in Markings, NEW next \in Nat, NEW evs \in Seq(Says),
         Trail(m, next, evs),
         \A x \in AllItems : /\ q[x].added = m[x].added /\ (m[x].done => q[x].done)
                             /\ m[x].added => q[x].index = m[x].index
  PROVE  Trail(q, next, evs)
<1>1. \A i \in DOMAIN evs : evs[i].item # Response => evs[i].item \in AllItems
  BY SaysTypes
<1> QED BY <1>1 DEF Trail

(* An item that was added is spoken of again.                              *)
LEMMA TrailSays ==
  ASSUME NEW m \in Markings, NEW next \in Nat, NEW evs \in Seq(Says), Trail(m, next, evs),
         NEW e \in Says, e.type \notin {"item.added", "item.done"},
         e.item \in AllItems => m[e.item].added /\ e.index = m[e.item].index
  PROVE  Trail(m, next, evs \o <<e>>)
<1> DEFINE new == evs \o <<e>>
           n == Len(evs)
<1>1. /\ n \in Nat /\ DOMAIN new = 1 .. n + 1 /\ DOMAIN evs = 1 .. n
      /\ \A i \in 1 .. n : new[i] = evs[i] /\ evs[i] \in Says
      /\ new[n + 1] = e
  BY SaysNext
<1> HIDE DEF new, n
<1>2. \A i \in DOMAIN new : i \in DOMAIN evs \/ i = n + 1
  BY <1>1
<1>3. ASSUME NEW x \in AllItems, m[x].added
      PROVE  /\ m[x].index \in 0 .. next - 1
             /\ \E a \in DOMAIN new :
                  new[a].type = "item.added" /\ new[a].item = x /\ new[a].index = m[x].index
  BY <1>1, <1>3 DEF Trail
<1>4. ASSUME NEW i \in DOMAIN new, new[i].item # Response
      PROVE  /\ m[new[i].item].added /\ new[i].index = m[new[i].item].index
             /\ \E a \in 1 .. i : /\ new[a].type = "item.added" /\ new[a].item = new[i].item
                                 /\ new[a].index = new[i].index
             /\ new[i].type = "item.done" => m[new[i].item].done
  <2>1. CASE i \in DOMAIN evs
    BY <1>1, <1>4, <2>1 DEF Trail
  <2>2. CASE i = n + 1
    <3>1. e.item \in AllItems
      BY <1>1, <1>4, <2>2, SaysTypes
    <3> QED BY <1>1, <1>3, <2>2, <3>1
  <2> QED BY <1>2, <2>1, <2>2
<1>5. ASSUME NEW i \in DOMAIN new, NEW j \in DOMAIN new, i # j, new[i].type = new[j].type
      PROVE  /\ new[i].type = "item.added" =>
                  new[i].item # new[j].item /\ new[i].index # new[j].index
             /\ new[i].type = "item.done" => new[i].item # new[j].item
  <2>1. CASE i \in DOMAIN evs /\ j \in DOMAIN evs
    BY <1>1, <1>5, <2>1 DEF Trail
  <2>2. CASE i = n + 1 \/ j = n + 1
    BY <1>1, <1>5, <2>2
  <2> QED BY <1>2, <2>1, <2>2
<1>6. Trail(m, next, new)
  BY <1>3, <1>4, <1>5 DEF Trail
<1> QED BY <1>6 DEF new

(* An item is added under the next index.                                  *)
LEMMA TrailAdds ==
  ASSUME NEW m \in Markings, NEW q \in Markings, NEW next \in Nat, NEW evs \in Seq(Says),
         Trail(m, next, evs),
         NEW e \in Says, e.type = "item.added", e.item \in AllItems, e.index = next,
         ~m[e.item].added, q[e.item].added, q[e.item].index = next,
         \A x \in AllItems : x # e.item => q[x] = m[x]
  PROVE  Trail(q, next + 1, evs \o <<e>>)
<1> DEFINE new == evs \o <<e>>
           n == Len(evs)
<1>1. /\ n \in Nat /\ DOMAIN new = 1 .. n + 1 /\ DOMAIN evs = 1 .. n
      /\ \A i \in 1 .. n : new[i] = evs[i] /\ evs[i] \in Says
      /\ new[n + 1] = e
  BY SaysNext
<1> HIDE DEF new, n
<1>2. \A i \in DOMAIN new : i \in DOMAIN evs \/ i = n + 1
  BY <1>1
<1>3. ASSUME NEW x \in AllItems, q[x].added
      PROVE  /\ q[x].index \in 0 .. (next + 1) - 1
             /\ \E a \in DOMAIN new :
                  new[a].type = "item.added" /\ new[a].item = x /\ new[a].index = q[x].index
  <2>1. CASE x = e.item
    BY <1>1, <2>1
  <2>2. CASE x # e.item
    <3>1. m[x].added /\ m[x] = q[x]
      BY <1>3, <2>2
    <3>2. /\ m[x].index \in 0 .. next - 1
          /\ \E a \in DOMAIN evs :
               evs[a].type = "item.added" /\ evs[a].item = x /\ evs[a].index = m[x].index
      BY <3>1 DEF Trail
    <3> QED BY <1>1, <3>1, <3>2
  <2> QED BY <2>1, <2>2
<1>4. \A i \in DOMAIN evs : evs[i].item # e.item
  <2>1. \A i \in DOMAIN evs : evs[i].item # Response => m[evs[i].item].added
    BY DEF Trail
  <2> QED BY <2>1, Distinct
<1>5. \A i \in DOMAIN evs : evs[i].item \in AllItems =>
        m[evs[i].item] = q[evs[i].item] /\ m[evs[i].item].added
  BY <1>4, Distinct DEF Trail
<1>6. ASSUME NEW i \in DOMAIN new, new[i].item # Response
      PROVE  /\ q[new[i].item].added /\ new[i].index = q[new[i].item].index
             /\ \E a \in 1 .. i : /\ new[a].type = "item.added" /\ new[a].item = new[i].item
                                 /\ new[a].index = new[i].index
             /\ new[i].type = "item.done" => q[new[i].item].done
  <2>1. CASE i \in DOMAIN evs
    <3>1. new[i] = evs[i] /\ evs[i].item \in AllItems
      BY <1>1, <1>6, <2>1, SaysTypes
    <3>2. /\ m[evs[i].item].added /\ evs[i].index = m[evs[i].item].index
          /\ \E a \in 1 .. i : /\ evs[a].type = "item.added" /\ evs[a].item = evs[i].item
                              /\ evs[a].index = evs[i].index
          /\ evs[i].type = "item.done" => m[evs[i].item].done
      BY <1>6, <2>1, <3>1, Distinct DEF Trail
    <3> QED BY <1>1, <1>5, <2>1, <3>1, <3>2
  <2>2. CASE i = n + 1
    BY <1>1, <2>2
  <2> QED BY <1>2, <2>1, <2>2
<1>7. ASSUME NEW i \in DOMAIN evs, evs[i].type = "item.added" PROVE evs[i].index # next
  <2>1. evs[i] \in Says
    BY <1>1
  <2>2. evs[i].item \in AllItems
    BY <1>7, <2>1, SaysTypes
  <2>3. m[evs[i].item].added /\ evs[i].index = m[evs[i].item].index
    BY <2>2, Distinct DEF Trail
  <2>4. m[evs[i].item].index \in 0 .. next - 1
    BY <2>2, <2>3 DEF Trail
  <2> QED BY <2>3, <2>4
<1>8. ASSUME NEW i \in DOMAIN new, NEW j \in DOMAIN new, i # j, new[i].type = new[j].type
      PROVE  /\ new[i].type = "item.added" =>
                  new[i].item # new[j].item /\ new[i].index # new[j].index
             /\ new[i].type = "item.done" => new[i].item # new[j].item
  <2>1. CASE i \in DOMAIN evs /\ j \in DOMAIN evs
    BY <1>1, <1>8, <2>1 DEF Trail
  <2>2. CASE i = n + 1 /\ j \in DOMAIN evs
    BY <1>1, <1>4, <1>7, <1>8, <2>2
  <2>3. CASE j = n + 1 /\ i \in DOMAIN evs
    BY <1>1, <1>4, <1>7, <1>8, <2>3
  <2> QED BY <1>2, <1>8, <2>1, <2>2, <2>3
<1>9. Trail(q, next + 1, new)
  BY <1>3, <1>6, <1>8 DEF Trail
<1> QED BY <1>9 DEF new

(* An item that was added is done.                                         *)
LEMMA TrailEnds ==
  ASSUME NEW m \in Markings, NEW q \in Markings, NEW next \in Nat, NEW evs \in Seq(Says),
         Trail(m, next, evs),
         NEW e \in Says, e.type = "item.done", e.item \in AllItems,
         m[e.item].added, e.index = m[e.item].index, ~m[e.item].done,
         q[e.item].added, q[e.item].done, q[e.item].index = e.index,
         \A x \in AllItems : x # e.item => q[x] = m[x]
  PROVE  Trail(q, next, evs \o <<e>>)
<1> DEFINE new == evs \o <<e>>
           n == Len(evs)
<1>1. /\ n \in Nat /\ DOMAIN new = 1 .. n + 1 /\ DOMAIN evs = 1 .. n
      /\ \A i \in 1 .. n : new[i] = evs[i] /\ evs[i] \in Says
      /\ new[n + 1] = e
  BY SaysNext
<1> HIDE DEF new, n
<1>2. \A i \in DOMAIN new : i \in DOMAIN evs \/ i = n + 1
  BY <1>1
<1>3. \A x \in AllItems : /\ q[x].added = m[x].added /\ q[x].index = m[x].index
                          /\ m[x].done => q[x].done
  BY DEF Markings, Marking
<1>4. q[e.item].done
  BY DEF Markings, Marking
<1>5. ASSUME NEW x \in AllItems, q[x].added
      PROVE  /\ q[x].index \in 0 .. next - 1
             /\ \E a \in DOMAIN new :
                  new[a].type = "item.added" /\ new[a].item = x /\ new[a].index = q[x].index
  BY <1>1, <1>3, <1>5 DEF Trail
<1>6. ASSUME NEW i \in DOMAIN new, new[i].item # Response
      PROVE  /\ q[new[i].item].added /\ new[i].index = q[new[i].item].index
             /\ \E a \in 1 .. i : /\ new[a].type = "item.added" /\ new[a].item = new[i].item
                                 /\ new[a].index = new[i].index
             /\ new[i].type = "item.done" => q[new[i].item].done
  <2>1. CASE i \in DOMAIN evs
    <3>1. new[i] = evs[i] /\ evs[i].item \in AllItems
      BY <1>1, <1>6, <2>1, SaysTypes
    <3>2. /\ m[evs[i].item].added /\ evs[i].index = m[evs[i].item].index
          /\ \E a \in 1 .. i : /\ evs[a].type = "item.added" /\ evs[a].item = evs[i].item
                              /\ evs[a].index = evs[i].index
          /\ evs[i].type = "item.done" => m[evs[i].item].done
      BY <1>6, <2>1, <3>1, Distinct DEF Trail
    <3> QED BY <1>1, <1>3, <2>1, <3>1, <3>2
  <2>2. CASE i = n + 1
    <3>1. new[i] = e /\ q[e.item].added /\ q[e.item].index = e.index
      BY <1>1, <1>3, <2>2
    <3>2. \A x \in AllItems : q[x].added =>
            \E a \in DOMAIN new :
              new[a].type = "item.added" /\ new[a].item = x /\ new[a].index = q[x].index
      BY <1>5
    <3>3. e.item \in AllItems
      OBVIOUS
    <3>4. PICK a \in DOMAIN new : 
            new[a].type = "item.added" /\ new[a].item = e.item /\ new[a].index = q[e.item].index
      BY <3>1, <3>2, <3>3
    <3>5. a \in 1 .. i
      BY <1>1, <2>2
    <3> QED BY <1>4, <3>1, <3>4, <3>5
  <2> QED BY <1>2, <2>1, <2>2
<1>7. ASSUME NEW i \in DOMAIN evs, evs[i].type = "item.done" PROVE evs[i].item # e.item
  BY <1>7, Distinct DEF Trail
<1>8. ASSUME NEW i \in DOMAIN new, NEW j \in DOMAIN new, i # j, new[i].type = new[j].type
      PROVE  /\ new[i].type = "item.added" =>
                  new[i].item # new[j].item /\ new[i].index # new[j].index
             /\ new[i].type = "item.done" => new[i].item # new[j].item
  <2>1. CASE i \in DOMAIN evs /\ j \in DOMAIN evs
    BY <1>1, <1>8, <2>1 DEF Trail
  <2>2. CASE i = n + 1 /\ j \in DOMAIN evs
    BY <1>1, <1>7, <1>8, <2>2
  <2>3. CASE j = n + 1 /\ i \in DOMAIN evs
    BY <1>1, <1>7, <1>8, <2>3
  <2> QED BY <1>2, <1>8, <2>1, <2>2, <2>3
<1>9. Trail(q, next, new)
  BY <1>5, <1>6, <1>8 DEF Trail
<1> QED BY <1>9 DEF new

-----------------------------------------------------------------------------
(* The books: what the state says of what was shown.                       *)

(* What was shown of each call that was not renamed.                       *)
CallShows(z, k, shown) ==
  IF k \notin DOMAIN z.tools THEN shown = <<>>
  ELSE LET t == z.tools[k]
       IN /\ ~t.added => shown = <<>>
          /\ t.added /\ ~t.done => shown = IF t.name \in CustomTools THEN <<>> ELSE t.args

Shows(z, evs, G) ==
  /\ Shown(evs, Reasoning) = z.reasoning.text
  /\ Shown(evs, Message) = z.message.text
  /\ \A k \in 0 .. MaxCalls - 1 : Renamed(G, k) \/ CallShows(z, k, Shown(evs, Tool(k)))

(* Names and ids come from the deltas G, and a call that has both is an    *)
(* item.                                                                   *)
CallNamed(z, k, G) ==
  IF k \notin DOMAIN z.tools THEN \A d \in G : d.key # k
  ELSE LET t == z.tools[k]
       IN /\ t.name # Absent => \E d \in G : d.key = k /\ d.name = t.name
          /\ t.call = Absent => \A d \in G : d.key = k => ~d.id
          /\ t.added => t.name # Absent
          /\ t.call # Absent /\ t.name # Absent => t.added

Named(z, G) == \A k \in 0 .. MaxCalls - 1 : CallNamed(z, k, G)

(* The output lists the items that are done, with what was shown of them.  *)
EntryHolds(z, e, evs, G) ==
  /\ Marks(z)[e.item].added /\ Marks(z)[e.item].done /\ e.index = Marks(z)[e.item].index
  /\ SaysTheSame(e, Shown(evs, e.item), G)

Books(z, evs, G) ==
  /\ \A e \in Range(z.output) : EntryHolds(z, e, evs, G)
  /\ \A x \in AllItems : Marks(z)[x].added /\ Marks(z)[x].done =>
       \E e \in Range(z.output) : e.item = x

Good(z, evs, G) ==
  Trail(Marks(z), z.next, evs) /\ Shows(z, evs, G) /\ Named(z, G) /\ Books(z, evs, G)

AllOpen(z) == ~z.message.done /\ \A k \in DOMAIN z.tools : ~z.tools[k].done

(* The types of the parts of a state.                                      *)
LEMMA StateOf ==
  ASSUME NEW z \in State
  PROVE  /\ z.reasoning \in ItemState /\ z.message \in ItemState /\ z.next \in Nat
         /\ z.buffer \in Text /\ z.tools \in ToolMaps /\ z.output \in Seq(Entry)
         /\ z.finish \in Finishes /\ z.completed \in BOOLEAN /\ z.started \in BOOLEAN
         /\ z.mode \in {"Detecting", "Reasoning", "Text"}
BY DEF State

LEMMA ToolsOf ==
  ASSUME NEW f \in ToolMaps
  PROVE  /\ DOMAIN f \subseteq 0 .. MaxCalls - 1 /\ f \in [DOMAIN f -> ToolState]
         /\ \A k \in DOMAIN f : f[k] \in ToolState
BY DEF ToolMaps

LEMMA MarkTypes ==
  /\ \A i \in ItemState : Mark(i) \in Marking
  /\ \A t \in ToolState : Mark(t) \in Marking
  /\ Unmarked \in Marking
<1>1. ASSUME NEW i \in ItemState PROVE Mark(i) \in Marking
  BY DEF ItemState, Marking, Mark
<1>2. ASSUME NEW t \in ToolState PROVE Mark(t) \in Marking
  BY DEF ToolState, Marking, Mark
<1>3. Unmarked \in Marking
  BY DEF Marking, Unmarked, Indexes
<1> QED BY <1>1, <1>2, <1>3

(* The marks of each item, as the state has them.                          *)
LEMMA MarksOf ==
  ASSUME NEW z \in State
  PROVE  /\ Marks(z) \in Markings
         /\ Marks(z)[Reasoning] = Mark(z.reasoning)
         /\ Marks(z)[Message] = Mark(z.message)
         /\ \A k \in 0 .. MaxCalls - 1 :
              Marks(z)[Tool(k)] = IF k \in DOMAIN z.tools THEN Mark(z.tools[k]) ELSE Unmarked
<1>1. \A x \in AllItems : Marks(z)[x] = MarkOf(z, x)
  BY DEF Marks
<1>2. ASSUME NEW x \in AllItems PROVE MarkOf(z, x) \in Marking
  <2>1. x[2] \in DOMAIN z.tools => z.tools[x[2]] \in ToolState
    BY StateOf, ToolsOf
  <2> QED BY <2>1, StateOf, MarkTypes DEF MarkOf
<1>3. Marks(z) \in Markings
  BY <1>2 DEF Marks, Markings
<1>4. MarkOf(z, Reasoning) = Mark(z.reasoning) /\ MarkOf(z, Message) = Mark(z.message)
  BY Distinct DEF MarkOf
<1>5. ASSUME NEW k \in 0 .. MaxCalls - 1
      PROVE  MarkOf(z, Tool(k)) = IF k \in DOMAIN z.tools THEN Mark(z.tools[k]) ELSE Unmarked
  BY Distinct DEF MarkOf
<1> QED BY <1>1, <1>3, <1>4, <1>5, Distinct

LEMMA EntryOf ==
  ASSUME NEW z \in State, NEW en \in Range(z.output)
  PROVE  en \in Entry /\ en.item \in AllItems /\ en.text \in Text /\ en.index \in Nat
<1>1. z.output \in Seq(Entry)
  BY StateOf
<1>2. PICK i \in DOMAIN z.output : en = z.output[i]
  BY DEF Range
<1>3. en \in Entry
  BY <1>1, <1>2
<1> QED BY <1>3 DEF Entry

LEMMA MarkFields ==
  ASSUME NEW i
  PROVE  Mark(i).added = i.added /\ Mark(i).done = i.done /\ Mark(i).index = i.index
BY DEF Mark

LEMMA SameMarks ==
  ASSUME NEW m \in Markings, NEW x \in AllItems
  PROVE  /\ m[x] \in Marking /\ m[x].added \in BOOLEAN /\ m[x].done \in BOOLEAN
         /\ m[x].added => m[x].index \in Nat
BY DEF Markings, Marking

-----------------------------------------------------------------------------
(* Texts that grow.                                                        *)

(* A prefix stays one when the text goes on.                               *)
LEMMA PrefixGrows ==
  ASSUME NEW a \in Text, NEW b \in Text, NEW c \in Text, IsPrefix(a, b)
  PROVE  IsPrefix(a, b \o c)
<1>1. Len(a) <= Len(b) /\ SubSeq(a, 1, Len(a)) = SubSeq(b, 1, Len(a))
  BY DEF IsPrefix
<1>2. Len(a) \in Nat /\ Len(b) \in Nat /\ Len(c) \in Nat /\ Len(b \o c) = Len(b) + Len(c)
  BY DEF Text
<1>3. SubSeq(b \o c, 1, Len(a)) = SubSeq(b, 1, Len(a))
  BY <1>1, <1>2, SubSeqOfConcat1 DEF Text
<1> QED BY <1>1, <1>2, <1>3 DEF IsPrefix

LEMMA PrefixOfItself ==
  ASSUME NEW a \in Text
  PROVE  IsPrefix(a, a)
BY DEF IsPrefix, Text

LEMMA ShownSays ==
  ASSUME NEW evs \in Seq(Says), NEW e, NEW x
  PROVE  Shown(evs \o <<e>>, x) =
           IF e.type = "delta" /\ e.item = x THEN Shown(evs, x) \o e.text ELSE Shown(evs, x)
<1>1. IsList(evs)
  BY ListFrom
<1> QED BY <1>1, ShownMore

-----------------------------------------------------------------------------
(* One event more.                                                         *)

(* Something is said of an item that is no delta.                          *)
LEMMA GoodSays ==
  ASSUME NEW z \in State, NEW evs \in Seq(Says), NEW G, Good(z, evs, G),
         NEW e \in Says, e.type \notin {"item.added", "item.done", "delta"},
         e.item \in AllItems => Marks(z)[e.item].added /\ e.index = Marks(z)[e.item].index
  PROVE  evs \o <<e>> \in Seq(Says) /\ Good(z, evs \o <<e>>, G)
<1>1. Trail(Marks(z), z.next, evs \o <<e>>)
  BY TrailSays, MarksOf, StateOf DEF Good
<1>2. \A x : Shown(evs \o <<e>>, x) = Shown(evs, x)
  BY ShownSays
<1>3. Shows(z, evs \o <<e>>, G)
  BY <1>2 DEF Good, Shows
<1>4. Books(z, evs \o <<e>>, G)
  BY <1>2 DEF Good, Books, EntryHolds
<1> QED BY <1>1, <1>3, <1>4 DEF Good

(* An item is added.                                                       *)
LEMMA GoodAdds ==
  ASSUME NEW z \in State, NEW y \in State, NEW evs \in Seq(Says), NEW G, Good(z, evs, G),
         NEW e \in Says, e.type = "item.added", e.item \in AllItems, e.index = z.next,
         ~Marks(z)[e.item].added, Marks(y)[e.item].added, ~Marks(y)[e.item].done,
         Marks(y)[e.item].index = z.next, y.next = z.next + 1, y.output = z.output,
         \A x \in AllItems : x # e.item => Marks(y)[x] = Marks(z)[x],
         Shows(y, evs, G), Named(y, G)
  PROVE  evs \o <<e>> \in Seq(Says) /\ Good(y, evs \o <<e>>, G)
<1>1. Trail(Marks(y), z.next + 1, evs \o <<e>>)
  BY TrailAdds, MarksOf, StateOf DEF Good
<1>2. \A x : Shown(evs \o <<e>>, x) = Shown(evs, x)
  BY ShownSays
<1>3. Shows(y, evs \o <<e>>, G)
  BY <1>2 DEF Shows
<1>4. Books(y, evs \o <<e>>, G)
  <2>1. ASSUME NEW en \in Range(z.output) PROVE EntryHolds(y, en, evs \o <<e>>, G)
    <3>1. EntryHolds(z, en, evs, G)
      BY DEF Good, Books
    <3>2. en.item \in AllItems
      BY EntryOf
    <3>3. en.item # e.item
      BY <3>1 DEF EntryHolds
    <3> QED BY <1>2, <3>1, <3>2, <3>3 DEF EntryHolds
  <2>2. ASSUME NEW x \in AllItems, Marks(y)[x].added, Marks(y)[x].done
        PROVE  \E en \in Range(y.output) : en.item = x
    <3>1. Marks(z)[x].added /\ Marks(z)[x].done
      BY <2>2
    <3> QED BY <3>1 DEF Good, Books
  <2> QED BY <2>1, <2>2 DEF Books
<1> QED BY <1>1, <1>3, <1>4 DEF Good

(* A text goes on: that of a tool or of the message only while it is not   *)
(* done.                                                                   *)
LEMMA GoodDelta ==
  ASSUME NEW z \in State, NEW y \in State, NEW evs \in Seq(Says), NEW G, Good(z, evs, G),
         NEW e \in Says, e.type = "delta", e.item \in AllItems,
         Marks(z)[e.item].added, e.index = Marks(z)[e.item].index,
         e.item # Reasoning => ~Marks(z)[e.item].done,
         Marks(y) = Marks(z), y.next = z.next, y.output = z.output,
         Shows(y, evs \o <<e>>, G), Named(y, G)
  PROVE  evs \o <<e>> \in Seq(Says) /\ Good(y, evs \o <<e>>, G)
<1>1. Trail(Marks(y), y.next, evs \o <<e>>)
  BY TrailSays, MarksOf, StateOf DEF Good
<1>2. \A x : x # e.item => Shown(evs \o <<e>>, x) = Shown(evs, x)
  BY ShownSays
<1>3. Books(y, evs \o <<e>>, G)
  <2>1. ASSUME NEW en \in Range(z.output) PROVE EntryHolds(y, en, evs \o <<e>>, G)
    <3>1. EntryHolds(z, en, evs, G)
      BY DEF Good, Books
    <3>2. en.item \in AllItems /\ en.text \in Text
      BY EntryOf
    <3>3. CASE en.item # e.item
      BY <1>2, <3>1, <3>3 DEF EntryHolds
    <3>4. CASE en.item = e.item
      <4>1. e.item = Reasoning
        BY <3>1, <3>4 DEF EntryHolds
      <4>2. IsPrefix(en.text, Shown(evs, Reasoning)) /\ Shown(evs, Reasoning) \in Text
        BY <3>1, <3>4, <4>1, StateOf DEF EntryHolds, SaysTheSame, Good, Shows, ItemState
      <4>3. Shown(evs \o <<e>>, Reasoning) = Shown(evs, Reasoning) \o e.text /\ e.text \in Text
        BY <4>1, ShownSays, SaysTypes
      <4>4. IsPrefix(en.text, Shown(evs \o <<e>>, Reasoning))
        BY <3>2, <4>2, <4>3, PrefixGrows
      <4> QED BY <3>1, <3>4, <4>1, <4>4 DEF EntryHolds, SaysTheSame
    <3> QED BY <3>3, <3>4
  <2> QED BY <2>1 DEF Good, Books
<1> QED BY <1>1, <1>3 DEF Good

(* An item is done, and listed with what was shown of it.                  *)
LEMMA GoodEnds ==
  ASSUME NEW z \in State, NEW y \in State, NEW evs \in Seq(Says), NEW G, Good(z, evs, G),
         NEW e \in Says, e.type = "item.done", e.item \in AllItems,
         Marks(z)[e.item].added, e.index = Marks(z)[e.item].index, ~Marks(z)[e.item].done,
         Marks(y)[e.item].added, Marks(y)[e.item].done, Marks(y)[e.item].index = e.index,
         \A x \in AllItems : x # e.item => Marks(y)[x] = Marks(z)[x],
         NEW en \in Entry, en.item = e.item, en.index = e.index,
         SaysTheSame(en, Shown(evs, e.item), G),
         y.next = z.next, y.output = Append(z.output, en),
         Shows(y, evs, G), Named(y, G)
  PROVE  evs \o <<e>> \in Seq(Says) /\ Good(y, evs \o <<e>>, G)
<1>1. Trail(Marks(y), y.next, evs \o <<e>>)
  BY TrailEnds, MarksOf, StateOf DEF Good
<1>2. \A x : Shown(evs \o <<e>>, x) = Shown(evs, x)
  BY ShownSays
<1>3. Shows(y, evs \o <<e>>, G)
  BY <1>2 DEF Shows
<1>4. Marks(y)[e.item].added /\ Marks(y)[e.item].done /\ Marks(y)[e.item].index = e.index
  BY MarksOf, SameMarks DEF Marking
<1>5. Range(y.output) = Range(z.output) \cup {en}
  <2>1. z.output \in Seq(Entry) /\ Len(z.output) \in Nat
    BY StateOf
  <2>2. /\ DOMAIN z.output = 1 .. Len(z.output) /\ DOMAIN y.output = 1 .. Len(z.output) + 1
        /\ \A i \in 1 .. Len(z.output) : y.output[i] = z.output[i]
        /\ y.output[Len(z.output) + 1] = en
    BY <2>1
  <2>3. Range(y.output) \subseteq Range(z.output) \cup {en}
    BY <2>1, <2>2 DEF Range
  <2>4. Range(z.output) \cup {en} \subseteq Range(y.output)
    BY <2>1, <2>2 DEF Range
  <2> QED BY <2>3, <2>4
<1>6. Books(y, evs \o <<e>>, G)
  <2>1. ASSUME NEW old \in Range(z.output) PROVE EntryHolds(y, old, evs \o <<e>>, G)
    <3>1. EntryHolds(z, old, evs, G)
      BY DEF Good, Books
    <3>2. old.item \in AllItems
      BY EntryOf
    <3>3. old.item # e.item
      BY <3>1 DEF EntryHolds
    <3> QED BY <1>2, <3>1, <3>2, <3>3 DEF EntryHolds
  <2>2. EntryHolds(y, en, evs \o <<e>>, G)
    BY <1>2, <1>4 DEF EntryHolds
  <2>3. ASSUME NEW x \in AllItems, Marks(y)[x].added, Marks(y)[x].done
        PROVE  \E w \in Range(y.output) : w.item = x
    <3>1. CASE x = e.item
      BY <1>5, <3>1
    <3>2. CASE x # e.item
      BY <1>5, <2>3, <3>2 DEF Good, Books
    <3> QED BY <3>1, <3>2
  <2> QED BY <1>5, <2>1, <2>2, <2>3 DEF Books
<1> QED BY <1>1, <1>3, <1>6 DEF Good

-----------------------------------------------------------------------------
(* Functions that keep the books.                                          *)

(* A function of the state keeps the books, and takes the deltas D.        *)
Kept(z, r, D) ==
  /\ r.s \in State /\ r.out \in Seq(Says)
  /\ r.s.completed = z.completed /\ r.s.finish = z.finish
  /\ \A evs \in Seq(Says), G \in SUBSET Deltas :
       AllOpen(z) /\ Good(z, evs, G) => AllOpen(r.s) /\ Good(r.s, evs \o r.out, G \cup D)

LEMMA Rejoined ==
  ASSUME NEW a \in Seq(Says), NEW b \in Seq(Says), NEW c \in Seq(Says)
  PROVE  (a \o b) \o c = a \o (b \o c)
BY ConcatAssociative

(* Two functions in a row keep the books, and take the deltas of both.     *)
LEMMA KeptThen ==
  ASSUME NEW z \in State, NEW r, NEW n, NEW D \in SUBSET Deltas, NEW E \in SUBSET Deltas,
         Kept(z, r, D), Kept(r.s, n, E)
  PROVE  Kept(z, Step(n.s, r.out \o n.out), D \cup E)
<1> DEFINE t == Step(n.s, r.out \o n.out)
<1>1. t.s = n.s /\ t.out = r.out \o n.out
  BY DEF Step
<1>2. t.s \in State /\ t.s.completed = z.completed /\ t.s.finish = z.finish
  BY <1>1 DEF Kept
<1>3. r.out \in Seq(Says) /\ n.out \in Seq(Says) /\ t.out \in Seq(Says)
  BY <1>1 DEF Kept
<1> HIDE DEF t
<1>4. ASSUME NEW evs \in Seq(Says), NEW G \in SUBSET Deltas, AllOpen(z), Good(z, evs, G)
      PROVE  AllOpen(t.s) /\ Good(t.s, evs \o t.out, G \cup (D \cup E))
  <2>1. AllOpen(r.s) /\ Good(r.s, evs \o r.out, G \cup D)
    BY <1>4 DEF Kept
  <2>2. evs \o r.out \in Seq(Says) /\ G \cup D \in SUBSET Deltas
    BY <1>3
  <2>3. AllOpen(n.s) /\ Good(n.s, (evs \o r.out) \o n.out, (G \cup D) \cup E)
    BY <2>1, <2>2 DEF Kept
  <2>4. (evs \o r.out) \o n.out = evs \o t.out
    <3>1. (evs \o r.out) \o n.out = evs \o (r.out \o n.out)
      BY <1>3, Rejoined
    <3> QED BY <1>1, <3>1
  <2>5. (G \cup D) \cup E = G \cup (D \cup E)
    OBVIOUS
  <2> QED BY <1>1, <2>3, <2>4, <2>5
<1>5. Kept(z, t, D \cup E)
  BY <1>2, <1>3, <1>4 DEF Kept
<1> QED BY <1>5 DEF t

LEMMA Nothing ==
  \A evs \in Seq(Says) : evs \o <<>> = evs /\ <<>> \o evs = evs /\ <<>> \in Seq(Says)
BY ConcatEmptySeq

(* A step that touches nothing the books are about.                        *)
LEMMA KeptAside ==
  ASSUME NEW z \in State, NEW y \in State,
         y.completed = z.completed, y.finish = z.finish, y.next = z.next,
         y.reasoning = z.reasoning, y.message = z.message, y.output = z.output,
         DOMAIN y.tools = DOMAIN z.tools,
         \A k \in DOMAIN z.tools :
           /\ y.tools[k].index = z.tools[k].index /\ y.tools[k].call = z.tools[k].call
           /\ y.tools[k].name = z.tools[k].name /\ y.tools[k].args = z.tools[k].args
           /\ y.tools[k].added = z.tools[k].added /\ y.tools[k].done = z.tools[k].done
  PROVE  Kept(z, Step(y, <<>>), {})
<1>1. Marks(y) = Marks(z)
  <2>1. ASSUME NEW x \in AllItems PROVE MarkOf(y, x) = MarkOf(z, x)
    BY DEF MarkOf, Mark
  <2> QED BY <2>1 DEF Marks
<1>2. ASSUME NEW evs \in Seq(Says), NEW G \in SUBSET Deltas, AllOpen(z), Good(z, evs, G)
      PROVE  AllOpen(y) /\ Good(y, evs, G)
  <2>1. AllOpen(y)
    BY <1>2 DEF AllOpen
  <2>2. Trail(Marks(y), y.next, evs)
    BY <1>1, <1>2 DEF Good
  <2>3. Shows(y, evs, G)
    <3>1. \A k \in 0 .. MaxCalls - 1 : \A shown : CallShows(z, k, shown) => CallShows(y, k, shown)
      BY DEF CallShows
    <3> QED BY <1>2, <3>1 DEF Good, Shows
  <2>4. Named(y, G)
    <3>1. \A k \in 0 .. MaxCalls - 1 : CallNamed(z, k, G) => CallNamed(y, k, G)
      BY DEF CallNamed
    <3> QED BY <1>2, <3>1 DEF Good, Named
  <2>5. Books(y, evs, G)
    BY <1>1, <1>2 DEF Good, Books, EntryHolds
  <2> QED BY <2>1, <2>2, <2>3, <2>4, <2>5 DEF Good
<1> QED BY <1>2, Nothing DEF Kept, Step

LEMMA KeptStill ==
  ASSUME NEW z \in State
  PROVE  Kept(z, Step(z, <<>>), {})
BY KeptAside

-----------------------------------------------------------------------------
(* The reasoning and the message.                                          *)

IsSlot(field, item) ==
  \/ field = "reasoning" /\ item = Reasoning
  \/ field = "message" /\ item = Message

WithSlot(z, field, i, n, o) == [z EXCEPT ![field] = i, !.next = n, !.output = o]

(* What changes with the reasoning or the message of a state.              *)
LEMMA SlotSet ==
  ASSUME NEW z \in State, NEW field, NEW item, IsSlot(field, item),
         NEW i \in ItemState, NEW n \in Nat, NEW o \in Seq(Entry)
  PROVE  LET y == WithSlot(z, field, i, n, o)
         IN  /\ y \in State /\ y[field] = i /\ y.next = n /\ y.output = o /\ y.tools = z.tools
             /\ y.completed = z.completed /\ y.finish = z.finish
             /\ field = "reasoning" => y.reasoning = i /\ y.message = z.message
             /\ field = "message" => y.message = i /\ y.reasoning = z.reasoning
             /\ item \in AllItems /\ Marks(z)[item] = Mark(z[field]) /\ Marks(y)[item] = Mark(i)
             /\ \A x \in AllItems : x # item => Marks(y)[x] = Marks(z)[x]
<1> DEFINE y == WithSlot(z, field, i, n, o)
<1>1. /\ y \in State /\ y[field] = i /\ y.next = n /\ y.output = o /\ y.tools = z.tools
      /\ y.completed = z.completed /\ y.finish = z.finish
      /\ field = "reasoning" => y.reasoning = i /\ y.message = z.message /\ z[field] = z.reasoning
      /\ field = "message" => y.message = i /\ y.reasoning = z.reasoning /\ z[field] = z.message
  <2>1. CASE field = "reasoning"
    BY <2>1 DEF State, WithSlot
  <2>2. CASE field = "message"
    BY <2>2 DEF State, WithSlot
  <2> QED BY <2>1, <2>2 DEF IsSlot
<1> HIDE DEF y
<1>2. /\ item \in AllItems /\ Marks(z)[item] = Mark(z[field]) /\ Marks(y)[item] = Mark(i)
  BY <1>1, MarksOf, Distinct DEF IsSlot
<1>3. ASSUME NEW x \in AllItems, x # item PROVE Marks(y)[x] = Marks(z)[x]
  <2>1. MarkOf(y, x) = MarkOf(z, x)
    BY <1>1, <1>3, Distinct DEF IsSlot, MarkOf
  <2> QED BY <2>1 DEF Marks
<1> QED BY <1>1, <1>2, <1>3 DEF y

LEMMA SlotFacts ==
  ASSUME NEW z \in State, NEW field, NEW item, IsSlot(field, item)
  PROVE  /\ z[field] \in ItemState /\ z[field].text \in Text /\ z[field].index \in Indexes
         /\ z[field].added \in BOOLEAN /\ z[field].done \in BOOLEAN
         /\ z[field].added => z[field].index \in Nat
         /\ z[field].done => z[field].added
<1>1. z[field] \in ItemState
  BY StateOf DEF IsSlot
<1> QED BY <1>1 DEF ItemState

(* Shows of a state whose slot has the text that is shown.                 *)
LEMMA SlotShows ==
  ASSUME NEW z \in State, NEW y \in State, NEW evs, NEW new, NEW G, Shows(z, evs, G),
         NEW field, NEW item, IsSlot(field, item), y.tools = z.tools,
         field = "reasoning" => y.message = z.message,
         field = "message" => y.reasoning = z.reasoning,
         Shown(new, item) = y[field].text,
         \A x \in AllItems : x # item => Shown(new, x) = Shown(evs, x)
  PROVE  Shows(y, new, G)
<1>1. \A k \in 0 .. MaxCalls - 1 : \A shown : CallShows(z, k, shown) => CallShows(y, k, shown)
  BY DEF CallShows
<1>2. \A k \in 0 .. MaxCalls - 1 : Shown(new, Tool(k)) = Shown(evs, Tool(k))
  BY Distinct DEF IsSlot
<1>3. Shown(new, Reasoning) = y.reasoning.text /\ Shown(new, Message) = y.message.text
  BY Distinct DEF IsSlot, Shows
<1> QED BY <1>1, <1>2, <1>3 DEF Shows

LEMMA SameNames ==
  ASSUME NEW z, NEW y, NEW G, Named(z, G), y.tools = z.tools
  PROVE  Named(y, G)
BY DEF Named, CallNamed

-----------------------------------------------------------------------------
(* push_* of the reasoning and the message.                                *)

LEMMA EvTypes ==
  ASSUME NEW type \in OfAnItem, NEW item \in AllItems, NEW i \in Nat, NEW t \in Text
  PROVE  LET e == Ev(type, item, i, t)
         IN  e \in Says /\ e.type = type /\ e.item = item /\ e.index = i /\ e.text = t
BY DEF Says, Ev

LEMMA SaysLists ==
  /\ <<>> \in Seq(Says)
  /\ \A a \in Says : <<a>> \in Seq(Says)
  /\ \A a, b \in Says : <<a, b>> \in Seq(Says) /\ <<a>> \o <<b>> = <<a, b>>
  /\ \A a, b, c \in Says : <<a, b, c>> \in Seq(Says) /\ <<a, b>> \o <<c>> = <<a, b, c>>
<1>1. <<>> \in Seq(Says) /\ \A a \in Says : <<a>> \in Seq(Says)
  OBVIOUS
<1>2. ASSUME NEW a \in Says, NEW b \in Says
      PROVE  <<a, b>> \in Seq(Says) /\ <<a>> \o <<b>> = <<a, b>>
  <2> DEFINE t == <<a, b>>
             u == <<a>> \o <<b>>
  <2>1. t \in Seq(Says) /\ Len(t) = 2 /\ t[1] = a /\ t[2] = b
    OBVIOUS
  <2>2. <<a>> \in Seq(Says) /\ Len(<<a>>) = 1 /\ <<a>>[1] = a
    OBVIOUS
  <2>3. u \in Seq(Says) /\ Len(u) = 2 /\ u[1] = a /\ u[2] = b
    BY <2>2, SaysNext
  <2> HIDE DEF t, u
  <2>4. t = u
    BY <2>1, <2>3
  <2> QED BY <2>1, <2>4 DEF t, u
<1>3. ASSUME NEW a \in Says, NEW b \in Says, NEW c \in Says
      PROVE  <<a, b, c>> \in Seq(Says) /\ <<a, b>> \o <<c>> = <<a, b, c>>
  <2> DEFINE t == <<a, b, c>>
             u == <<a, b>> \o <<c>>
  <2>1. t \in Seq(Says) /\ Len(t) = 3 /\ t[1] = a /\ t[2] = b /\ t[3] = c
    OBVIOUS
  <2>2. <<a, b>> \in Seq(Says) /\ Len(<<a, b>>) = 2 /\ <<a, b>>[1] = a /\ <<a, b>>[2] = b
    OBVIOUS
  <2>3. u \in Seq(Says) /\ Len(u) = 3 /\ u[1] = a /\ u[2] = b /\ u[3] = c
    BY <2>2, SaysNext
  <2> HIDE DEF t, u
  <2>4. t = u
    BY <2>1, <2>3
  <2> QED BY <2>1, <2>4 DEF t, u
<1> QED BY <1>1, <1>2, <1>3

(* push_reasoning_delta and push_text_delta add the item the first time.   *)
LEMMA PushItemKept ==
  ASSUME NEW z \in State, NEW field, NEW item, IsSlot(field, item), NEW d \in Text
  PROVE  Kept(z, PushItem(z, field, item, d), {})
<1> DEFINE old == z[field]
           new == ~old.added
           i == IF new THEN z.next ELSE old.index
           n == IF new THEN z.next + 1 ELSE z.next
           a == [old EXCEPT !.index = i, !.added = TRUE]
           b == [a EXCEPT !.text = old.text \o d]
           y == WithSlot(z, field, a, n, z.output)
           w == WithSlot(z, field, b, n, z.output)
           e1 == Ev("item.added", item, i, <<>>)
           e2 == Ev("part.added", item, i, <<>>)
           e3 == Ev("delta", item, i, d)
           out == (IF new THEN <<e1, e2>> ELSE <<>>) \o <<e3>>
<1>1. /\ old \in ItemState /\ old.text \in Text /\ old.added \in BOOLEAN /\ old.done \in BOOLEAN
      /\ (old.added => old.index \in Nat) /\ (old.done => old.added)
  BY SlotFacts
<1>2. z.next \in Nat /\ z.output \in Seq(Entry)
  BY StateOf
<1>3. i \in Nat /\ n \in Nat
  BY <1>1, <1>2
<1>4. a \in ItemState /\ a.added /\ a.index = i /\ a.text = old.text /\ a.done = old.done
  BY <1>1, <1>3 DEF ItemState, Indexes
<1>5. /\ b \in ItemState /\ b.added /\ b.index = i /\ b.done = old.done
      /\ b.text = old.text \o d /\ b.text \in Text
  <2>1. old.text \o d \in Text
    BY <1>1, TextOps
  <2> QED BY <1>1, <1>3, <2>1 DEF ItemState, Indexes
<1>6. PushItem(z, field, item, d) = Step(w, out)
  <2>1. CASE field = "reasoning"
    <3>1. [z EXCEPT !["reasoning"].index = i, !["reasoning"].added = TRUE, !["reasoning"].text = @ \o d,
                    !.next = IF new THEN @ + 1 ELSE @] = w
      BY <1>1, <1>2, <2>1 DEF State, ItemState, WithSlot
    <3> QED BY <2>1, <3>1 DEF PushItem
  <2>2. CASE field = "message"
    <3>1. [z EXCEPT !["message"].index = i, !["message"].added = TRUE, !["message"].text = @ \o d,
                    !.next = IF new THEN @ + 1 ELSE @] = w
      BY <1>1, <1>2, <2>2 DEF State, ItemState, WithSlot
    <3> QED BY <2>2, <3>1 DEF PushItem
  <2> QED BY <2>1, <2>2 DEF IsSlot
<1>10. Mark(old).added = old.added /\ Mark(old).done = old.done /\ Mark(old).index = old.index
  BY DEF Mark
<1>11. /\ Mark(a).added /\ Mark(a).done = old.done /\ Mark(a).index = i /\ Mark(b) = Mark(a)
  BY <1>4, <1>5 DEF Mark
<1>0. (new => i = z.next /\ n = z.next + 1) /\ (~new => i = old.index /\ n = z.next)
  OBVIOUS
<1> HIDE DEF a, b, i, n
<1>7. /\ y \in State /\ y[field] = a /\ y.next = n /\ y.output = z.output /\ y.tools = z.tools
      /\ field = "reasoning" => y.reasoning = a /\ y.message = z.message
      /\ field = "message" => y.message = a /\ y.reasoning = z.reasoning
      /\ item \in AllItems /\ Marks(z)[item] = Mark(old) /\ Marks(y)[item] = Mark(a)
      /\ \A x \in AllItems : x # item => Marks(y)[x] = Marks(z)[x]
  BY <1>2, <1>3, <1>4, SlotSet
<1>8. /\ w \in State /\ w[field] = b /\ w.next = n /\ w.output = z.output /\ w.tools = z.tools
      /\ w.completed = z.completed /\ w.finish = z.finish
      /\ field = "reasoning" => w.reasoning = b /\ w.message = z.message
      /\ field = "message" => w.message = b /\ w.reasoning = z.reasoning
      /\ Marks(w)[item] = Mark(b)
      /\ \A x \in AllItems : x # item => Marks(w)[x] = Marks(z)[x]
  BY <1>2, <1>3, <1>5, SlotSet
<1>9. /\ e1 \in Says /\ e1.type = "item.added" /\ e1.item = item /\ e1.index = i
      /\ e2 \in Says /\ e2.type = "part.added" /\ e2.item = item /\ e2.index = i
      /\ e3 \in Says /\ e3.type = "delta" /\ e3.item = item /\ e3.index = i /\ e3.text = d
  <2>1. /\ "item.added" \in OfAnItem /\ "part.added" \in OfAnItem /\ "delta" \in OfAnItem
        /\ <<>> \in Text
    BY TextOps DEF OfAnItem
  <2>2. item \in AllItems
    BY <1>7
  <2> QED BY <1>3, <2>1, <2>2, EvTypes
<1> HIDE DEF old, y, w, e1, e2, e3
<1>12. <<e1, e2>> \in Seq(Says) /\ <<e3>> \in Seq(Says) /\ out \in Seq(Says)
  BY <1>9, SaysLists
<1>13. Marks(w) = Marks(y)
  <2>1. ASSUME NEW x \in AllItems PROVE Marks(w)[x] = Marks(y)[x]
    BY <1>7, <1>8, <1>11
  <2> QED BY <1>7, <1>8, <2>1, MarksOf DEF Markings
<1>14. ASSUME NEW evs \in Seq(Says), NEW G \in SUBSET Deltas, AllOpen(z), Good(z, evs, G)
       PROVE  AllOpen(w) /\ Good(w, evs \o out, G \cup {})
  <2>1. AllOpen(w)
    BY <1>1, <1>5, <1>8, <1>14 DEF AllOpen, IsSlot, old
  <2>2. Shown(evs, item) = old.text /\ Shows(z, evs, G) /\ Named(z, G)
    BY <1>14 DEF Good, Shows, IsSlot, old
  <2> DEFINE mid == IF new THEN evs \o <<e1, e2>> ELSE evs
  <2>3. mid \in Seq(Says) /\ Good(y, mid, G) /\ Shown(mid, item) = old.text
        /\ \A x \in AllItems : Shown(mid, x) = Shown(evs, x)
    <3>1. CASE new
      <4>1. Shows(y, evs, G) /\ Named(y, G)
        BY <1>4, <1>7, <2>2, SlotShows, SameNames
      <4>2. evs \o <<e1>> \in Seq(Says) /\ Good(y, evs \o <<e1>>, G)
        BY <1>0, <1>1, <1>7, <1>9, <1>10, <1>11, <1>14, <3>1, <4>1, GoodAdds
      <4>3. /\ (evs \o <<e1>>) \o <<e2>> \in Seq(Says)
            /\ Good(y, (evs \o <<e1>>) \o <<e2>>, G)
        BY <1>7, <1>9, <1>11, <4>2, GoodSays
      <4>4. (evs \o <<e1>>) \o <<e2>> = evs \o <<e1, e2>>
        <5>1. <<e1>> \in Seq(Says) /\ <<e2>> \in Seq(Says) /\ <<e1>> \o <<e2>> = <<e1, e2>>
          BY <1>9, SaysLists
        <5>2. (evs \o <<e1>>) \o <<e2>> = evs \o (<<e1>> \o <<e2>>)
          BY <5>1, Rejoined
        <5> QED BY <5>1, <5>2
      <4>5. \A x \in AllItems : Shown(mid, x) = Shown(evs, x)
        <5>1. \A x : Shown((evs \o <<e1>>) \o <<e2>>, x) = Shown(evs, x)
          <6>1. \A x : Shown((evs \o <<e1>>) \o <<e2>>, x) = Shown(evs \o <<e1>>, x)
            BY <1>9, <4>2, ShownSays
          <6>2. \A x : Shown(evs \o <<e1>>, x) = Shown(evs, x)
            BY <1>9, ShownSays
          <6> QED BY <6>1, <6>2
        <5> QED BY <3>1, <4>4, <5>1
      <4> QED BY <1>7, <2>2, <3>1, <4>3, <4>4, <4>5
    <3>2. CASE ~new
      <4>1. Shows(y, evs, G) /\ Named(y, G)
        BY <1>4, <1>7, <2>2, SlotShows, SameNames
      <4>2. Marks(y) = Marks(z)
        <5>1. Mark(a) = Mark(old)
          BY <1>0, <1>1, <1>4, <3>2 DEF Mark
        <5>2. ASSUME NEW x \in AllItems PROVE Marks(y)[x] = Marks(z)[x]
          BY <1>7, <5>1
        <5> QED BY <1>7, <5>2, MarksOf DEF Markings
      <4>3. Good(y, evs, G)
        BY <1>0, <1>7, <1>14, <3>2, <4>1, <4>2 DEF Good, Books, EntryHolds
      <4> QED BY <2>2, <3>2, <4>3
    <3> QED BY <3>1, <3>2
  <2> HIDE DEF mid
  <2>4. mid \o <<e3>> = evs \o out
    <3>1. CASE new
      BY <1>12, <3>1, Rejoined DEF mid
    <3>2. CASE ~new
      BY <1>12, <3>2, Nothing DEF mid
    <3> QED BY <3>1, <3>2
  <2>5. Shown(mid \o <<e3>>, item) = w[field].text
    <3>1. Shown(mid \o <<e3>>, item) = Shown(mid, item) \o e3.text
      BY <1>9, <2>3, ShownSays
    <3> QED BY <1>5, <1>8, <1>9, <2>3, <3>1
  <2>6. \A x \in AllItems : x # item => Shown(mid \o <<e3>>, x) = Shown(evs, x)
    BY <1>9, <2>3, ShownSays
  <2>7. Shows(w, mid \o <<e3>>, G) /\ Named(w, G)
    BY <1>8, <2>2, <2>5, <2>6, SlotShows, SameNames
  <2>8. e3.item # Reasoning => ~Marks(y)[item].done
    BY <1>1, <1>7, <1>9, <1>11, <1>14 DEF AllOpen, IsSlot, old
  <2>9. Good(w, mid \o <<e3>>, G)
    BY <1>7, <1>8, <1>9, <1>11, <1>13, <2>3, <2>7, <2>8, GoodDelta
  <2>10. G \cup {} = G
    OBVIOUS
  <2> QED BY <2>1, <2>4, <2>9, <2>10
<1>15. Kept(z, Step(w, out), {})
  <2> HIDE DEF out
  <2> QED BY <1>8, <1>12, <1>14 DEF Kept, Step
<1> QED BY <1>6, <1>15

-----------------------------------------------------------------------------
(* finalize_reasoning and finalize_text.                                   *)

LEMMA Slots ==
  IsSlot("reasoning", Reasoning) /\ IsSlot("message", Message)
BY DEF IsSlot

(* finalize_reasoning and finalize_text list an open item with its text.   *)
LEMMA CloseItemGood ==
  ASSUME NEW z \in State, NEW field, NEW item, IsSlot(field, item)
  PROVE  LET r == CloseItem(z, field, item)
         IN  /\ r.s \in State /\ r.out \in Seq(Says) /\ r.s.tools = z.tools
             /\ r.s.completed = z.completed /\ r.s.finish = z.finish
             /\ field = "reasoning" => r.s.message = z.message
             /\ field = "message" => r.s.reasoning = z.reasoning
             /\ r.s[field].added => r.s[field].done
             /\ \A evs \in Seq(Says) : \A G : Good(z, evs, G) => Good(r.s, evs \o r.out, G)
<1> DEFINE it == z[field]
           b == [it EXCEPT !.done = TRUE]
           en == [index |-> it.index, item |-> item, text |-> it.text]
           more == Append(z.output, en)
           w == WithSlot(z, field, b, z.next, more)
           e1 == Ev("text.done", item, it.index, it.text)
           e2 == Ev("part.done", item, it.index, it.text)
           e3 == Ev("item.done", item, it.index, it.text)
           out == <<e1, e2, e3>>
           r == CloseItem(z, field, item)
<1>1. /\ it \in ItemState /\ it.text \in Text /\ it.added \in BOOLEAN /\ it.done \in BOOLEAN
      /\ (it.added => it.index \in Nat) /\ (it.done => it.added)
  BY SlotFacts
<1>2. z.next \in Nat /\ z.output \in Seq(Entry)
  BY StateOf
<1>3. CASE ~it.added \/ it.done
  <2>1. r = Step(z, <<>>)
    BY <1>3 DEF CloseItem
  <2>2. r.s = z /\ r.out = <<>>
    BY <2>1 DEF Step
  <2> HIDE DEF r
  <2>3. \A evs \in Seq(Says) : evs \o <<>> = evs
    BY Nothing
  <2>4. <<>> \in Seq(Says)
    BY SaysLists
  <2>5. r.s[field].added => r.s[field].done
    BY <1>3, <2>2
  <2>6. r.out \in Seq(Says) /\ \A evs \in Seq(Says) : evs \o r.out = evs
    BY <2>2, <2>3, <2>4
  <2>7. \A evs \in Seq(Says) : \A G : Good(z, evs, G) => Good(r.s, evs \o r.out, G)
    BY <2>2, <2>6
  <2> QED BY <2>2, <2>5, <2>6, <2>7 DEF r
<1>4. CASE it.added /\ ~it.done
  <2>1. /\ b \in ItemState /\ b.done = TRUE /\ b.added = it.added
        /\ b.index = it.index /\ b.text = it.text
    BY <1>1, <1>4 DEF ItemState
  <2>2. item \in AllItems
    BY Distinct DEF IsSlot
  <2>3. en \in Entry /\ en.item = item /\ en.index = it.index /\ en.text = it.text
    BY <1>1, <1>4, <2>2 DEF Entry
  <2>4. r = Step(w, out)
    <3>1. CASE field = "reasoning"
      <4>1. [z EXCEPT !["reasoning"].done = TRUE, !.output = Append(@, en)] = w
        BY <1>1, <1>2, <3>1 DEF State, ItemState, WithSlot
      <4> QED BY <1>4, <3>1, <4>1 DEF CloseItem
    <3>2. CASE field = "message"
      <4>1. [z EXCEPT !["message"].done = TRUE, !.output = Append(@, en)] = w
        BY <1>1, <1>2, <3>2 DEF State, ItemState, WithSlot
      <4> QED BY <1>4, <3>2, <4>1 DEF CloseItem
    <3> QED BY <3>1, <3>2 DEF IsSlot
  <2>5. more \in Seq(Entry)
    BY <1>2, <2>3
  <2>6. Mark(it).added /\ ~Mark(it).done /\ Mark(it).index = it.index
    BY <1>4 DEF Mark
  <2>7. Mark(b).added /\ Mark(b).done /\ Mark(b).index = it.index
    BY <1>4, <2>1 DEF Mark
  <2>8. /\ e1 \in Says /\ e1.type = "text.done" /\ e1.item = item /\ e1.index = it.index
        /\ e2 \in Says /\ e2.type = "part.done" /\ e2.item = item /\ e2.index = it.index
        /\ e3 \in Says /\ e3.type = "item.done" /\ e3.item = item /\ e3.index = it.index
    <3>1. /\ "text.done" \in OfAnItem /\ "part.done" \in OfAnItem /\ "item.done" \in OfAnItem
      BY DEF OfAnItem
    <3> QED BY <1>1, <1>4, <2>2, <3>1, EvTypes
  <2> HIDE DEF b, en, more
  <2>9. /\ w \in State /\ w[field] = b /\ w.next = z.next /\ w.output = more
        /\ w.tools = z.tools /\ w.completed = z.completed /\ w.finish = z.finish
        /\ field = "reasoning" => w.reasoning = b /\ w.message = z.message
        /\ field = "message" => w.message = b /\ w.reasoning = z.reasoning
        /\ Marks(z)[item] = Mark(it) /\ Marks(w)[item] = Mark(b)
        /\ \A x \in AllItems : x # item => Marks(w)[x] = Marks(z)[x]
    BY <1>2, <2>1, <2>5, SlotSet
  <2> HIDE DEF w, e1, e2, e3, it
  <2>10. out \in Seq(Says) /\ <<e1, e2>> \o <<e3>> = out /\ <<e1>> \o <<e2>> = <<e1, e2>>
         /\ <<e1>> \in Seq(Says) /\ <<e2>> \in Seq(Says) /\ <<e3>> \in Seq(Says)
         /\ <<e1, e2>> \in Seq(Says)
    BY <2>8, SaysLists
  <2> HIDE DEF out
  <2>11. ASSUME NEW evs \in Seq(Says), NEW G, Good(z, evs, G)
         PROVE  Good(w, evs \o out, G)
    <3> DEFINE one == evs \o <<e1>>
               two == one \o <<e2>>
    <3>1. Marks(z)[item].added /\ ~Marks(z)[item].done /\ Marks(z)[item].index = it.index
      BY <2>6, <2>9
    <3>2. one \in Seq(Says) /\ Good(z, one, G)
      BY <2>2, <2>8, <2>11, <3>1, GoodSays
    <3>3. \A x : Shown(one, x) = Shown(evs, x)
      BY <2>8, ShownSays
    <3> HIDE DEF one
    <3>4. two \in Seq(Says) /\ Good(z, two, G)
      BY <2>2, <2>8, <3>1, <3>2, GoodSays
    <3>5. \A x : Shown(two, x) = Shown(one, x)
      BY <2>8, <3>2, ShownSays
    <3> HIDE DEF two
    <3>6. Shows(z, two, G) /\ Named(z, G)
      BY <3>4 DEF Good
    <3>7. Shown(two, item) = it.text
      BY <3>6 DEF Shows, IsSlot, it
    <3>8. Shows(w, two, G) /\ Named(w, G)
      BY <2>1, <2>9, <3>6, <3>7, SlotShows, SameNames
    <3>9. SaysTheSame(en, Shown(two, item), G)
      BY <1>1, <2>3, <3>7, PrefixOfItself, Distinct DEF SaysTheSame, IsSlot
    <3>10. Good(w, two \o <<e3>>, G)
      BY <2>2, <2>3, <2>7, <2>8, <2>9, <3>1, <3>4, <3>8, <3>9, GoodEnds DEF more
    <3>11. two \o <<e3>> = evs \o out
      <4>1. two = evs \o <<e1, e2>>
        <5>1. (evs \o <<e1>>) \o <<e2>> = evs \o (<<e1>> \o <<e2>>)
          BY <2>10, Rejoined
        <5> QED BY <2>10, <5>1 DEF one, two
      <4>2. (evs \o <<e1, e2>>) \o <<e3>> = evs \o (<<e1, e2>> \o <<e3>>)
        BY <2>10, Rejoined
      <4> QED BY <2>10, <4>1, <4>2
    <3> QED BY <3>10, <3>11
  <2>12. r.s = w /\ r.out = out
    BY <2>4 DEF Step
  <2> HIDE DEF r
  <2>13. r.s[field].done
    BY <2>1, <2>9, <2>12
  <2> QED BY <2>9, <2>10, <2>11, <2>12, <2>13 DEF r
<1> QED BY <1>1, <1>3, <1>4

LEMMA CloseReasoningKept ==
  ASSUME NEW z \in State
  PROVE  Kept(z, CloseReasoning(z), {})
<1> DEFINE r == CloseReasoning(z)
<1>1. IsSlot("reasoning", Reasoning) /\ r = CloseItem(z, "reasoning", Reasoning)
  BY Slots DEF CloseReasoning
<1>2. /\ r.s \in State /\ r.out \in Seq(Says) /\ r.s.tools = z.tools
      /\ r.s.completed = z.completed /\ r.s.finish = z.finish /\ r.s.message = z.message
      /\ \A evs \in Seq(Says) : \A G : Good(z, evs, G) => Good(r.s, evs \o r.out, G)
  BY <1>1, CloseItemGood
<1> HIDE DEF r
<1>3. AllOpen(z) => AllOpen(r.s)
  BY <1>2 DEF AllOpen
<1>4. \A G : G \cup {} = G
  OBVIOUS
<1>5. Kept(z, r, {})
  BY <1>2, <1>3, <1>4 DEF Kept
<1> QED BY <1>5 DEF r

LEMMA PushReasoningKept ==
  ASSUME NEW z \in State, NEW d \in Text
  PROVE  Kept(z, PushReasoning(z, d), {})
BY Slots, PushItemKept DEF PushReasoning

LEMMA PushTextKept ==
  ASSUME NEW z \in State, NEW d \in Text
  PROVE  Kept(z, PushText(z, d), {})
BY Slots, PushItemKept DEF PushText

-----------------------------------------------------------------------------
(* The parts of a chunk.                                                   *)

LEMMA KeptBoth ==
  ASSUME NEW z \in State, NEW r, NEW n, Kept(z, r, {}), Kept(r.s, n, {})
  PROVE  Kept(z, Step(n.s, r.out \o n.out), {})
<1>1. {} \in SUBSET Deltas /\ {} \cup {} = {}
  OBVIOUS
<1> QED BY <1>1, KeptThen

LEMMA KeptAfter ==
  ASSUME NEW z \in State, NEW y \in State, Kept(z, Step(y, <<>>), {}), NEW n, Kept(y, n, {})
  PROVE  Kept(z, n, {})
<1>1. Step(y, <<>>).s = y /\ Step(y, <<>>).out = <<>>
  BY DEF Step
<1>2. Kept(z, Step(n.s, <<>> \o n.out), {})
  BY <1>1, KeptBoth
<1>3. <<>> \o n.out = n.out
  BY Nothing DEF Kept
<1>4. Step(n.s, n.out).s = n.s /\ Step(n.s, n.out).out = n.out
  BY DEF Step
<1> QED BY <1>2, <1>3, <1>4 DEF Kept

(* A state in which only the buffer and the mode are others.               *)
WithBuffer(z, mode, b) == [z EXCEPT !.mode = mode, !.buffer = b]

LEMMA KeptBuffer ==
  ASSUME NEW z \in State, NEW b \in Text, NEW mode \in {"Detecting", "Reasoning", "Text"}
  PROVE  LET y == WithBuffer(z, mode, b)
         IN  /\ y \in State /\ y.buffer = b /\ y.mode = mode /\ y.reasoning = z.reasoning
             /\ Kept(z, Step(y, <<>>), {})
<1> DEFINE y == WithBuffer(z, mode, b)
<1>1. /\ y \in State /\ y.buffer = b /\ y.mode = mode
      /\ y.completed = z.completed /\ y.finish = z.finish /\ y.next = z.next
      /\ y.reasoning = z.reasoning /\ y.message = z.message /\ y.output = z.output
      /\ y.tools = z.tools
  BY DEF State, WithBuffer
<1> HIDE DEF y
<1>2. Kept(z, Step(y, <<>>), {})
  BY <1>1, KeptAside
<1> QED BY <1>1, <1>2 DEF y

(* ensure_response_started says nothing of an item.                        *)
LEMMA EnsureStartedKept ==
  ASSUME NEW z \in State
  PROVE  Kept(z, EnsureStarted(z), {}) /\ EnsureStarted(z).s.tools = z.tools
<1> DEFINE y == [z EXCEPT !.started = TRUE]
           e1 == Ev("created", Response, 0, <<>>)
           e2 == Ev("in_progress", Response, 0, <<>>)
           r == EnsureStarted(z)
<1>1. CASE z.started
  <2>1. r = Step(z, <<>>)
    BY <1>1 DEF EnsureStarted
  <2> HIDE DEF r
  <2>2. Kept(z, r, {}) /\ r.s = z
    BY <2>1, KeptStill DEF Step
  <2> QED BY <2>2 DEF r
<1>2. CASE ~z.started
  <2>1. r.s = y /\ r.out = <<e1, e2>>
    BY <1>2 DEF EnsureStarted, Step
  <2>2. /\ y \in State
        /\ y.completed = z.completed /\ y.finish = z.finish /\ y.next = z.next
        /\ y.reasoning = z.reasoning /\ y.message = z.message /\ y.output = z.output
        /\ y.tools = z.tools
    BY DEF State
  <2>3. /\ e1 \in Says /\ e1.type = "created" /\ e1.item = Response
        /\ e2 \in Says /\ e2.type = "in_progress" /\ e2.item = Response
    <3>1. <<>> \in Text
      BY NoText
    <3> QED BY <3>1 DEF Says, Ev
  <2> HIDE DEF y, e1, e2, r
  <2>4. /\ <<e1>> \in Seq(Says) /\ <<e2>> \in Seq(Says) /\ <<e1, e2>> \in Seq(Says)
        /\ <<e1>> \o <<e2>> = <<e1, e2>>
    BY <2>3, SaysLists
  <2>5. Kept(z, Step(y, <<>>), {})
    BY <2>2, KeptAside
  <2>6. ASSUME NEW evs \in Seq(Says), NEW G \in SUBSET Deltas, AllOpen(z), Good(z, evs, G)
        PROVE  AllOpen(y) /\ Good(y, evs \o r.out, G \cup {})
    <3>1. AllOpen(y) /\ Good(y, evs, G)
      <4>1. evs \o <<>> = evs /\ G \cup {} = G
        BY Nothing
      <4>2. Step(y, <<>>).s = y /\ Step(y, <<>>).out = <<>>
        BY DEF Step
      <4> QED BY <2>5, <2>6, <4>1, <4>2 DEF Kept
    <3>2. evs \o <<e1>> \in Seq(Says) /\ Good(y, evs \o <<e1>>, G)
      BY <2>2, <2>3, <3>1, GoodSays, Distinct
    <3>3. Good(y, (evs \o <<e1>>) \o <<e2>>, G)
      BY <2>2, <2>3, <3>2, GoodSays, Distinct
    <3>4. (evs \o <<e1>>) \o <<e2>> = evs \o (<<e1>> \o <<e2>>)
      BY <2>4, Rejoined
    <3>5. G \cup {} = G
      OBVIOUS
    <3> QED BY <2>1, <2>4, <3>1, <3>3, <3>4, <3>5
  <2>7. Kept(z, r, {}) /\ r.s.tools = z.tools
    BY <2>1, <2>2, <2>4, <2>6 DEF Kept
  <2> QED BY <2>7 DEF r
<1> QED BY <1>1, <1>2

-----------------------------------------------------------------------------
(* Thoughts.                                                               *)

LEMMA ThoughtKept ==
  ASSUME NEW z \in State, NEW d \in Text
  PROVE  Kept(z, Then(PushReasoning(z, d), CloseReasoning), {})
<1> DEFINE r == PushReasoning(z, d)
           n == CloseReasoning(r.s)
<1>1. Kept(z, r, {})
  BY PushReasoningKept
<1>2. r.s \in State
  BY <1>1 DEF Kept
<1> HIDE DEF r
<1>3. Kept(r.s, n, {})
  BY <1>2, CloseReasoningKept
<1> HIDE DEF n
<1>4. Kept(z, Step(n.s, r.out \o n.out), {})
  BY <1>1, <1>3, KeptBoth
<1> QED BY <1>4 DEF Then, r, n

LEMMA ClosedThenText ==
  ASSUME NEW z \in State, NEW d \in Text
  PROVE  Kept(z, Then(CloseReasoning(z), LAMBDA x : PushText(x, d)), {})
<1> DEFINE r == CloseReasoning(z)
           n == PushText(r.s, d)
<1>1. Kept(z, r, {})
  BY CloseReasoningKept
<1>2. r.s \in State
  BY <1>1 DEF Kept
<1> HIDE DEF r
<1>3. Kept(r.s, n, {})
  BY <1>2, PushTextKept
<1> HIDE DEF n
<1>4. Kept(z, Step(n.s, r.out \o n.out), {})
  BY <1>1, <1>3, KeptBoth
<1> QED BY <1>4 DEF Then, r, n

(* A thought that is closed goes to the reasoning, the rest to the text.   *)
LEMMA ToldKept ==
  ASSUME NEW z \in State, NEW parts \in Thought
  PROVE  Kept(z, Told(z, parts), {})
<1> DEFINE r == IF parts.why = <<>> THEN Step(z, <<>>)
                ELSE Then(PushReasoning(z, parts.why), CloseReasoning)
           n == IF parts.answer = <<>> THEN Step(r.s, <<>>) ELSE PushText(r.s, parts.answer)
<1>1. parts.why \in Text /\ parts.answer \in Text
  BY DEF Thought
<1>2. Kept(z, r, {})
  BY <1>1, KeptStill, ThoughtKept
<1>3. r.s \in State
  BY <1>2 DEF Kept
<1> HIDE DEF r
<1>4. Kept(r.s, n, {})
  BY <1>1, <1>3, KeptStill, PushTextKept
<1> HIDE DEF n
<1>5. Kept(z, Step(n.s, r.out \o n.out), {})
  BY <1>2, <1>4, KeptBoth
<1> QED BY <1>5 DEF Told, Then, r, n

LEMMA DrainThinkKept ==
  ASSUME NEW z \in State
  PROVE  Kept(z, DrainThink(z), {})
<1>1. CASE SplitThink(z.buffer) = Absent
  BY <1>1, KeptStill DEF DrainThink
<1>2. CASE SplitThink(z.buffer) # Absent
  <2> DEFINE y == WithBuffer(z, "Text", <<>>)
             parts == SplitThink(z.buffer)
  <2>1. parts \in Thought
    BY <1>2, SplitTypes, StateOf
  <2>2. y \in State /\ Kept(z, Step(y, <<>>), {})
    BY KeptBuffer, NoText
  <2>3. DrainThink(z) = Told(y, parts)
    BY <1>2 DEF DrainThink, WithBuffer
  <2> HIDE DEF y, parts
  <2>4. Kept(y, Told(y, parts), {})
    BY <2>1, <2>2, ToldKept
  <2> QED BY <2>2, <2>3, <2>4, KeptAfter
<1> QED BY <1>1, <1>2

(* flush_inline_think_at_boundary sends what the buffer has held back.     *)
LEMMA FlushThinkKept ==
  ASSUME NEW z \in State
  PROVE  Kept(z, FlushThink(z), {})
<1> DEFINE y == WithBuffer(z, "Text", <<>>)
           rest == StripOpenTag(z.buffer)
           parts == SplitThink(z.buffer)
<1>1. z.buffer \in Text /\ rest \in Text /\ z.mode \in {"Detecting", "Reasoning", "Text"}
  BY StateOf, TextOps
<1>2. y \in State /\ Kept(z, Step(y, <<>>), {})
  BY KeptBuffer, NoText
<1>3. CASE z.mode = "Text"
  BY <1>3, KeptStill DEF FlushThink, WithBuffer
<1>4. CASE z.mode = "Detecting"
  <2>1. CASE z.buffer = <<>>
    BY <1>2, <1>4, <2>1 DEF FlushThink, WithBuffer
  <2>2. CASE z.buffer # <<>>
    <3>1. FlushThink(z) = Then(CloseReasoning(y), LAMBDA x : PushText(x, z.buffer))
      BY <1>4, <2>2 DEF FlushThink, WithBuffer
    <3> HIDE DEF y
    <3>2. Kept(y, Then(CloseReasoning(y), LAMBDA x : PushText(x, z.buffer)), {})
      BY <1>1, <1>2, ClosedThenText
    <3> QED BY <1>2, <3>1, <3>2, KeptAfter
  <2> QED BY <2>1, <2>2
<1>5. CASE z.mode = "Reasoning" /\ parts # Absent
  <2>1. parts \in Thought
    BY <1>1, <1>5, SplitTypes
  <2>2. FlushThink(z) = Told(y, parts)
    BY <1>5 DEF FlushThink, WithBuffer
  <2> HIDE DEF y, parts
  <2>3. Kept(y, Told(y, parts), {})
    BY <1>2, <2>1, ToldKept
  <2> QED BY <1>2, <2>2, <2>3, KeptAfter
<1>6. CASE z.mode = "Reasoning" /\ parts = Absent
  <2>1. FlushThink(z) = IF rest = <<>> THEN Step(y, <<>>)
                        ELSE Then(PushReasoning(y, rest), CloseReasoning)
    BY <1>6 DEF FlushThink, WithBuffer
  <2> HIDE DEF y, rest
  <2>2. CASE rest = <<>>
    BY <1>2, <2>1, <2>2
  <2>3. CASE rest # <<>>
    <3>1. Kept(y, Then(PushReasoning(y, rest), CloseReasoning), {})
      BY <1>1, <1>2, ThoughtKept
    <3> QED BY <1>2, <2>1, <2>3, <3>1, KeptAfter
  <2> QED BY <2>2, <2>3
<1> QED BY <1>1, <1>3, <1>4, <1>5, <1>6

(* push_content_delta, in each state of the buffer.                        *)
LEMMA PushContentKept ==
  ASSUME NEW z \in State, NEW d \in Text
  PROVE  Kept(z, PushContent(z, d), {})
<1> DEFINE b == z.buffer \o d
           y == [z EXCEPT !.buffer = z.buffer \o d]
           p == ThinkPrefix(y.buffer)
           u == [y EXCEPT !.mode = "Reasoning"]
           w == [y EXCEPT !.mode = "Text", !.buffer = <<>>]
<1>1. b \in Text /\ z.mode \in {"Detecting", "Reasoning", "Text"} /\ <<>> \in Text
  BY StateOf, TextOps
<1>2. /\ y = WithBuffer(z, z.mode, b)
      /\ u = WithBuffer(z, "Reasoning", b)
      /\ w = WithBuffer(z, "Text", <<>>)
  BY <1>1 DEF State, WithBuffer
<1>3. PushContent(z, d) =
        IF z.mode = "Text" THEN Then(CloseReasoning(z), LAMBDA x : PushText(x, d))
        ELSE IF z.mode = "Reasoning" THEN DrainThink(y)
        ELSE IF p = "NeedMore" THEN Step(y, <<>>)
        ELSE IF p = "Reasoning" THEN DrainThink(u)
        ELSE Then(CloseReasoning(w), LAMBDA x : PushText(x, y.buffer))
  BY DEF PushContent
<1> HIDE DEF y, u, w, p, b
<1>4. y \in State /\ Kept(z, Step(y, <<>>), {}) /\ y.buffer = b
  BY <1>1, <1>2, KeptBuffer
<1>5. u \in State /\ Kept(z, Step(u, <<>>), {})
  BY <1>1, <1>2, KeptBuffer
<1>6. w \in State /\ Kept(z, Step(w, <<>>), {})
  BY <1>1, <1>2, KeptBuffer
<1>7. Kept(z, Then(CloseReasoning(z), LAMBDA x : PushText(x, d)), {})
  BY ClosedThenText
<1>8. Kept(z, DrainThink(y), {}) /\ Kept(z, DrainThink(u), {})
  BY <1>4, <1>5, DrainThinkKept, KeptAfter
<1>9. Kept(z, Then(CloseReasoning(w), LAMBDA x : PushText(x, y.buffer)), {})
  <2>1. Kept(w, Then(CloseReasoning(w), LAMBDA x : PushText(x, y.buffer)), {})
    BY <1>1, <1>4, <1>6, ClosedThenText
  <2> QED BY <1>6, <2>1, KeptAfter
<1> QED BY <1>3, <1>4, <1>7, <1>8, <1>9

(* Reasoning is noted with the calls that are open.                        *)
LEMMA AppendReasoningKept ==
  ASSUME NEW z \in State, NEW d \in Text
  PROVE  Kept(z, Step(AppendReasoning(z, d), <<>>), {})
<1> DEFINE New(t) == IF t.done THEN t
                     ELSE [t EXCEPT !.why = IF @ = <<>> THEN TrimStart(d) ELSE @ \o d]
           tools == [k \in DOMAIN z.tools |-> New(z.tools[k])]
           y == [z EXCEPT !.tools = tools]
<1>1. CASE IsBlank(d)
  BY <1>1, KeptStill DEF AppendReasoning
<1>2. CASE ~IsBlank(d)
  <2>1. AppendReasoning(z, d) = y
    BY <1>2 DEF AppendReasoning
  <2>2. ASSUME NEW t \in ToolState
        PROVE  /\ New(t) \in ToolState /\ New(t).index = t.index /\ New(t).call = t.call
               /\ New(t).name = t.name /\ New(t).args = t.args
               /\ New(t).added = t.added /\ New(t).done = t.done
    <3>1. t.why \in Text
      BY DEF ToolState
    <3>2. TrimStart(d) \in Text /\ t.why \o d \in Text
      BY <3>1, TextOps
    <3> QED BY <3>2 DEF ToolState
  <2> HIDE DEF New
  <2>3. z.tools \in ToolMaps /\ \A k \in DOMAIN z.tools : z.tools[k] \in ToolState
    BY StateOf, ToolsOf
  <2>4. DOMAIN z.tools \in SUBSET (0 .. MaxCalls - 1)
    BY <2>3, ToolsOf
  <2>5. tools \in [DOMAIN z.tools -> ToolState]
    BY <2>2, <2>3
  <2>6. tools \in ToolMaps
    BY <2>4, <2>5 DEF ToolMaps
  <2>7. DOMAIN tools = DOMAIN z.tools /\ \A k \in DOMAIN z.tools : tools[k] = New(z.tools[k])
    OBVIOUS
  <2> HIDE DEF tools
  <2>8. /\ y \in State /\ y.tools = tools
        /\ y.completed = z.completed /\ y.finish = z.finish /\ y.next = z.next
        /\ y.reasoning = z.reasoning /\ y.message = z.message /\ y.output = z.output
    BY <2>6 DEF State
  <2> HIDE DEF y
  <2>9. \A k \in DOMAIN z.tools :
          /\ y.tools[k].index = z.tools[k].index /\ y.tools[k].call = z.tools[k].call
          /\ y.tools[k].name = z.tools[k].name /\ y.tools[k].args = z.tools[k].args
          /\ y.tools[k].added = z.tools[k].added /\ y.tools[k].done = z.tools[k].done
    BY <2>2, <2>3, <2>7, <2>8
  <2>10. Kept(z, Step(y, <<>>), {})
    BY <2>7, <2>8, <2>9, KeptAside
  <2> QED BY <2>1, <2>10
<1> QED BY <1>1, <1>2

-----------------------------------------------------------------------------
(* The state of a call.                                                    *)

LEMMA PutTool ==
  ASSUME NEW f \in ToolMaps, NEW k \in 0 .. MaxCalls - 1, NEW t \in ToolState
  PROVE  Put(f, k, t) \in ToolMaps
<1>1. DOMAIN f \cup {k} \in SUBSET (0 .. MaxCalls - 1)
  BY ToolsOf
<1>2. Put(f, k, t) \in [DOMAIN f \cup {k} -> ToolState]
  BY ToolsOf DEF Put
<1> QED BY <1>1, <1>2 DEF ToolMaps

LEMMA NewToolIs ==
  /\ NewTool \in ToolState /\ ~NewTool.added /\ ~NewTool.done /\ NewTool.args = <<>>
  /\ NewTool.call = Absent /\ NewTool.name = Absent /\ Mark(NewTool) = Unmarked
<1>1. NewTool \in ToolState
  BY NoText DEF NewTool, ToolState, Indexes, Names
<1> QED BY <1>1 DEF NewTool, Mark, Unmarked

(* The marks of a state in which the call k is t.                          *)
WithTool(z, k, t, n, o) == [z EXCEPT !.tools = Put(z.tools, k, t), !.next = n, !.output = o]

(* What changes with the state of a call.                                  *)
LEMMA ToolSet ==
  ASSUME NEW z \in State, NEW k \in 0 .. MaxCalls - 1, NEW t \in ToolState, NEW n \in Nat,
         NEW o \in Seq(Entry)
  PROVE  LET y == WithTool(z, k, t, n, o)
         IN  /\ y \in State /\ y.next = n /\ y.output = o
             /\ y.reasoning = z.reasoning /\ y.message = z.message
             /\ y.completed = z.completed /\ y.finish = z.finish
             /\ y.tools = Put(z.tools, k, t)
             /\ DOMAIN y.tools = DOMAIN z.tools \cup {k} /\ y.tools[k] = t
             /\ \A j \in DOMAIN z.tools : j # k => y.tools[j] = z.tools[j]
             /\ Marks(y)[Tool(k)] = Mark(t)
             /\ \A x \in AllItems : x # Tool(k) => Marks(y)[x] = Marks(z)[x]
<1> DEFINE y == WithTool(z, k, t, n, o)
<1>1. Put(z.tools, k, t) \in ToolMaps
  BY StateOf, PutTool
<1>2. /\ y \in State /\ y.next = n /\ y.output = o
      /\ y.reasoning = z.reasoning /\ y.message = z.message
      /\ y.completed = z.completed /\ y.finish = z.finish
      /\ y.tools = Put(z.tools, k, t)
  BY <1>1 DEF State, WithTool
<1> HIDE DEF y
<1>3. /\ DOMAIN y.tools = DOMAIN z.tools \cup {k} /\ y.tools[k] = t
      /\ \A j \in DOMAIN z.tools : j # k => y.tools[j] = z.tools[j]
  <2>1. /\ DOMAIN Put(z.tools, k, t) = DOMAIN z.tools \cup {k} /\ Put(z.tools, k, t)[k] = t
        /\ \A j \in DOMAIN z.tools : j # k => Put(z.tools, k, t)[j] = z.tools[j]
    BY DEF Put
  <2> QED BY <1>2, <2>1
<1>4. Marks(y)[Tool(k)] = Mark(t)
  BY <1>2, <1>3, MarksOf
<1>5. ASSUME NEW x \in AllItems, x # Tool(k) PROVE Marks(y)[x] = Marks(z)[x]
  <2>1. CASE x = Reasoning \/ x = Message
    BY <1>2, <2>1, MarksOf
  <2>2. CASE \E j \in 0 .. MaxCalls - 1 : x = Tool(j)
    <3>1. PICK j \in 0 .. MaxCalls - 1 : x = Tool(j)
      BY <2>2
    <3>2. j # k
      BY <1>5, <3>1
    <3>3. j \in DOMAIN y.tools <=> j \in DOMAIN z.tools
      BY <1>3, <3>2
    <3>4. j \in DOMAIN z.tools => y.tools[j] = z.tools[j]
      BY <1>3, <3>2
    <3> QED BY <1>2, <3>1, <3>3, <3>4, MarksOf
  <2> QED BY <2>1, <2>2 DEF AllItems
<1> QED BY <1>2, <1>3, <1>4, <1>5 DEF y

(* With all calls and the message open, the output lists reasoning only.   *)
LEMMA OpenBooks ==
  ASSUME NEW z \in State, NEW evs \in Seq(Says), NEW G, AllOpen(z), Books(z, evs, G)
  PROVE  /\ \A en \in Range(z.output) : en.item = Reasoning
         /\ \A x \in AllItems : Marks(z)[x].done => x = Reasoning
<1>1. ASSUME NEW x \in AllItems, Marks(z)[x].done PROVE x = Reasoning
  <2>1. x # Message
    BY <1>1, MarksOf, MarkFields DEF AllOpen
  <2>2. \A k \in 0 .. MaxCalls - 1 : x # Tool(k)
    <3> SUFFICES ASSUME NEW k \in 0 .. MaxCalls - 1, x = Tool(k) PROVE FALSE
      OBVIOUS
    <3>1. CASE k \in DOMAIN z.tools
      BY <1>1, <3>1, MarksOf, MarkFields DEF AllOpen
    <3>2. CASE k \notin DOMAIN z.tools
      BY <1>1, <3>2, MarksOf DEF Unmarked
    <3> QED BY <3>1, <3>2
  <2> QED BY <2>1, <2>2 DEF AllItems
<1>2. ASSUME NEW en \in Range(z.output) PROVE en.item = Reasoning
  BY <1>1, EntryOf DEF Books, EntryHolds
<1> QED BY <1>1, <1>2

(* The books of what is shown of the reasoning only.                       *)
LEMMA BooksStill ==
  ASSUME NEW z \in State, NEW y \in State, NEW evs \in Seq(Says), NEW new, NEW G, NEW H,
         AllOpen(z), AllOpen(y), Books(z, evs, G), y.output = z.output,
         Marks(y)[Reasoning] = Marks(z)[Reasoning],
         Shown(new, Reasoning) = Shown(evs, Reasoning)
  PROVE  Books(y, new, H)
<1>1. ASSUME NEW en \in Range(z.output) PROVE EntryHolds(y, en, new, H)
  <2>1. en.item = Reasoning /\ EntryHolds(z, en, evs, G)
    BY OpenBooks DEF Books
  <2> QED BY <2>1 DEF EntryHolds, SaysTheSame
<1>2. ASSUME NEW x \in AllItems, Marks(y)[x].added, Marks(y)[x].done
      PROVE  \E en \in Range(y.output) : en.item = x
  <2>1. x = Reasoning
    <3>1. x # Message
      BY <1>2, MarksOf, MarkFields DEF AllOpen
    <3>2. \A k \in 0 .. MaxCalls - 1 : x # Tool(k)
      <4> SUFFICES ASSUME NEW k \in 0 .. MaxCalls - 1, x = Tool(k) PROVE FALSE
        OBVIOUS
      <4>1. CASE k \in DOMAIN y.tools
        BY <1>2, <4>1, MarksOf, MarkFields DEF AllOpen
      <4>2. CASE k \notin DOMAIN y.tools
        BY <1>2, <4>2, MarksOf DEF Unmarked
      <4> QED BY <4>1, <4>2
    <3> QED BY <3>1, <3>2 DEF AllItems
  <2> QED BY <1>2, <2>1 DEF Books
<1> QED BY <1>1, <1>2 DEF Books

-----------------------------------------------------------------------------
(* push_tool_call_delta.                                                   *)

(* A delta of a call: what it shows of the call, added now or before, is   *)
(* what the state has of its arguments - unless the call was renamed.      *)
LEMMA PushToolKept ==
  ASSUME NEW z \in State, NEW c \in Deltas, NEW why \in Text
  PROVE  Kept(z, PushTool(z, c, why), {c})
<1> DEFINE k == c.key
           old == IF k \in DOMAIN z.tools THEN z.tools[k] ELSE NewTool
           t == [old EXCEPT !.call = IF c.id THEN "given" ELSE @,
                            !.name = IF c.name # Absent THEN c.name ELSE @, !.args = @ \o c.args,
                            !.why = IF @ = <<>> THEN Trim(why) ELSE @]
           add == ~t.added /\ t.call # Absent /\ t.name # Absent
           u == IF add THEN [t EXCEPT !.added = TRUE, !.index = z.next] ELSE t
           sent == IF add THEN u.args ELSE IF u.added THEN c.args ELSE <<>>
           n == IF add THEN z.next + 1 ELSE z.next
           e1 == Ev("item.added", Tool(k), u.index, <<>>)
           e2 == Ev("delta", Tool(k), u.index, sent)
           say == sent # <<>> /\ u.name \notin CustomTools
           first == IF add THEN <<e1>> ELSE <<>>
           second == IF say THEN <<e2>> ELSE <<>>
           y == WithTool(z, k, u, n, z.output)
           r == PushTool(z, c, why)
<1>1. /\ k \in 0 .. MaxCalls - 1 /\ c.id \in BOOLEAN /\ c.args \in Text /\ c.name \in Names
      /\ z.next \in Nat /\ z.output \in Seq(Entry) /\ z.tools \in ToolMaps
  BY ChunkTypes, StateOf DEF Names
<1>2. old \in ToolState
  BY <1>1, ToolsOf, NewToolIs
<1>3. /\ old.args \in Text /\ old.why \in Text /\ old.added \in BOOLEAN /\ old.done \in BOOLEAN
      /\ (old.added => old.index \in Nat) /\ Trim(why) \in Text /\ old.args \o c.args \in Text
  <2>1. old.args \in Text /\ old.why \in Text /\ old.added \in BOOLEAN /\ old.done \in BOOLEAN
        /\ (old.added => old.index \in Nat)
    BY <1>2 DEF ToolState
  <2> QED BY <1>1, <2>1, TextOps
<1> HIDE DEF old
<1>4. /\ t \in ToolState /\ t.args = old.args \o c.args /\ t.added = old.added /\ t.done = old.done
      /\ t.call = (IF c.id THEN "given" ELSE old.call) /\ t.index = old.index
      /\ t.name = (IF c.name # Absent THEN c.name ELSE old.name)
  BY <1>1, <1>2, <1>3 DEF ToolState
<1> HIDE DEF t
<1>5. /\ u \in ToolState /\ u.args = t.args /\ u.done = t.done /\ u.call = t.call /\ u.name = t.name
      /\ add => u.added /\ u.index = z.next
      /\ ~add => u = t
  BY <1>1, <1>4 DEF ToolState, Indexes
<1>6. u.added => u.index \in Nat
  BY <1>5 DEF ToolState
<1>7. sent \in Text /\ (sent # <<>> => u.added)
  BY <1>1, <1>3, <1>4, <1>5, NoText
<1>8. n \in Nat /\ (add => n = z.next + 1) /\ (~add => n = z.next)
  BY <1>1
<1>9. r = Step(y, first \o second)
  <2>1. [z EXCEPT !.tools = Put(@, k, u), !.next = IF add THEN @ + 1 ELSE @] = y
    BY <1>1 DEF State, WithTool
  <2> QED BY <2>1 DEF PushTool, old, t
<1>10. Tool(k) \in AllItems /\ Tool(k) # Reasoning /\ Tool(k) # Message
       /\ \A j \in 0 .. MaxCalls - 1 : j # k => Tool(j) # Tool(k)
  BY <1>1, Distinct
<1>11. /\ add => e1 \in Says /\ e1.type = "item.added" /\ e1.item = Tool(k) /\ e1.index = z.next
       /\ say => /\ e2 \in Says /\ e2.type = "delta" /\ e2.item = Tool(k)
                 /\ e2.index = u.index /\ e2.text = sent
  <2>1. "item.added" \in OfAnItem /\ "delta" \in OfAnItem
    BY DEF OfAnItem
  <2>2. say => u.index \in Nat
    BY <1>6, <1>7
  <2> HIDE DEF k, u, sent, say, add
  <2>3. ASSUME add
        PROVE  e1 \in Says /\ e1.type = "item.added" /\ e1.item = Tool(k) /\ e1.index = z.next
    <3>1. u.index \in Nat /\ u.index = z.next
      BY <1>5, <1>6, <2>3
    <3>2. e1 \in Says /\ e1.type = "item.added" /\ e1.item = Tool(k) /\ e1.index = u.index
      BY <1>10, <2>1, <3>1, NoText, EvTypes
    <3> QED BY <3>1, <3>2
  <2>4. ASSUME say
        PROVE  /\ e2 \in Says /\ e2.type = "delta" /\ e2.item = Tool(k)
               /\ e2.index = u.index /\ e2.text = sent
    BY <1>7, <1>10, <2>1, <2>2, <2>4, EvTypes
  <2> QED BY <2>3, <2>4
<1> HIDE DEF e1, e2, u
<1>12. first \in Seq(Says) /\ second \in Seq(Says)
  BY <1>11, SaysLists
<1>13. /\ y \in State /\ y.next = n /\ y.output = z.output
       /\ y.reasoning = z.reasoning /\ y.message = z.message
       /\ y.completed = z.completed /\ y.finish = z.finish
       /\ DOMAIN y.tools = DOMAIN z.tools \cup {k} /\ y.tools[k] = u
       /\ \A j \in DOMAIN z.tools : j # k => y.tools[j] = z.tools[j]
       /\ Marks(y)[Tool(k)] = Mark(u)
       /\ \A x \in AllItems : x # Tool(k) => Marks(y)[x] = Marks(z)[x]
  BY <1>1, <1>5, <1>8, ToolSet
<1> HIDE DEF y
<1>14. Marks(z)[Tool(k)] = Mark(old)
  BY <1>1, MarksOf, NewToolIs DEF old
<1>15. /\ Mark(old).added = old.added /\ Mark(old).done = old.done /\ Mark(old).index = old.index
       /\ Mark(u).added = u.added /\ Mark(u).done = u.done /\ Mark(u).index = u.index
  BY MarkFields
<1>16. ~add => Marks(y) = Marks(z)
  <2> SUFFICES ASSUME ~add PROVE Marks(y) = Marks(z)
    OBVIOUS
  <2>1. Mark(u) = Mark(old)
    BY <1>4, <1>5 DEF Mark
  <2>2. \A x \in AllItems : Marks(y)[x] = Marks(z)[x]
    BY <1>13, <1>14, <2>1
  <2> QED BY <1>13, <2>2, MarksOf DEF Markings
<1> HIDE DEF k, first, second, r
<1>17. ASSUME NEW evs \in Seq(Says), NEW G \in SUBSET Deltas, AllOpen(z), Good(z, evs, G)
       PROVE  AllOpen(y) /\ Good(y, evs \o (first \o second), G \cup {c})
  <2> DEFINE H == G \cup {c}
             mid == evs \o first
             new == mid \o second
  <2>1. Trail(Marks(z), z.next, evs) /\ Shows(z, evs, G) /\ Named(z, G) /\ Books(z, evs, G)
    BY <1>17 DEF Good
  <2>2. ~old.done
    BY <1>1, <1>17, NewToolIs DEF AllOpen, old
  <2>3. AllOpen(y)
    BY <1>4, <1>5, <1>13, <1>17, <2>2 DEF AllOpen
  <2>4. mid \in Seq(Says) /\ Trail(Marks(y), n, mid) /\ \A x : Shown(mid, x) = Shown(evs, x)
    <3>1. CASE add
      <4>1. mid = evs \o <<e1>>
        BY <3>1 DEF first
      <4>2. e1 \in Says /\ e1.type = "item.added" /\ e1.item = Tool(k) /\ e1.index = z.next
        BY <1>11, <3>1
      <4>3. /\ ~Marks(z)[Tool(k)].added /\ Marks(y)[Tool(k)].added
            /\ Marks(y)[Tool(k)].index = z.next
        BY <1>4, <1>5, <1>13, <1>14, <1>15, <3>1
      <4> HIDE DEF add
      <4>31. /\ ~Marks(z)[e1.item].added /\ Marks(y)[e1.item].added
             /\ Marks(y)[e1.item].index = z.next /\ e1.item \in AllItems
             /\ \A x \in AllItems : x # e1.item => Marks(y)[x] = Marks(z)[x]
        BY <1>10, <1>13, <4>2, <4>3
      <4>32. Marks(z) \in Markings /\ Marks(y) \in Markings
        BY <1>13, MarksOf
      <4>4. Trail(Marks(y), z.next + 1, evs \o <<e1>>)
        BY <1>1, <2>1, <4>2, <4>31, <4>32, TrailAdds
      <4>5. \A x : Shown(evs \o <<e1>>, x) = Shown(evs, x)
        BY <4>2, ShownSays
      <4>6. evs \o <<e1>> \in Seq(Says)
        BY <4>2, SaysNext
      <4> QED BY <1>8, <3>1, <4>1, <4>4, <4>5, <4>6
    <3>2. CASE ~add
      <4>1. mid = evs
        BY <3>2, Nothing DEF first
      <4> QED BY <1>8, <1>16, <2>1, <3>2, <4>1
    <3> QED BY <3>1, <3>2
  <2> HIDE DEF mid
  <2>5. /\ new \in Seq(Says) /\ Trail(Marks(y), n, new)
        /\ \A x : x # Tool(k) => Shown(new, x) = Shown(evs, x)
        /\ Shown(new, Tool(k)) = IF say THEN Shown(evs, Tool(k)) \o sent ELSE Shown(evs, Tool(k))
    <3>1. CASE say
      <4>1. new = mid \o <<e2>>
        BY <3>1 DEF second
      <4>2. e2 \in Says /\ e2.type = "delta" /\ e2.item = Tool(k) /\ e2.index = u.index /\ e2.text = sent
        BY <1>11, <3>1
      <4>3. Marks(y)[Tool(k)].added /\ Marks(y)[Tool(k)].index = u.index
        BY <1>7, <1>13, <1>15, <3>1
      <4>4. Trail(Marks(y), n, mid \o <<e2>>)
        BY <1>8, <1>13, <2>4, <4>2, <4>3, TrailSays, MarksOf
      <4> HIDE DEF say, sent
      <4>5. /\ \A x : x # Tool(k) => Shown(mid \o <<e2>>, x) = Shown(mid, x)
            /\ Shown(mid \o <<e2>>, Tool(k)) = Shown(mid, Tool(k)) \o sent
        <5>1. \A x : x # Tool(k) => Shown(mid \o <<e2>>, x) = Shown(mid, x)
          BY <2>4, <4>2, ShownSays
        <5>2. Shown(mid \o <<e2>>, Tool(k)) = Shown(mid, Tool(k)) \o e2.text
          BY <2>4, <4>2, ShownSays
        <5> QED BY <4>2, <5>1, <5>2
      <4>6. mid \o <<e2>> \in Seq(Says)
        BY <2>4, <4>2, SaysNext
      <4> QED BY <2>4, <3>1, <4>1, <4>4, <4>5, <4>6
    <3>2. CASE ~say
      <4>1. new = mid
        BY <2>4, <3>2, Nothing DEF second
      <4> HIDE DEF say, sent
      <4> QED BY <2>4, <3>2, <4>1
    <3> QED BY <3>1, <3>2
  <2>6. new = evs \o (first \o second)
    BY <1>12, Rejoined DEF mid
  <2> HIDE DEF new
  <2>7. Books(y, new, H)
    BY <1>10, <1>13, <1>17, <2>1, <2>3, <2>5, BooksStill, Distinct
  <2>8. ASSUME NEW j \in 0 .. MaxCalls - 1 PROVE CallNamed(y, j, H)
    <3>1. CallNamed(z, j, G)
      BY <2>1 DEF Named
    <3>2. CASE j # k
      <4>1. \A d \in H : d.key = j => d \in G
        BY <3>2 DEF k
      <4>2. (j \in DOMAIN y.tools <=> j \in DOMAIN z.tools)
            /\ (j \in DOMAIN z.tools => y.tools[j] = z.tools[j])
        BY <1>13, <3>2
      <4> QED BY <3>1, <4>1, <4>2 DEF CallNamed
    <3>3. CASE j = k
      <4>1. j \in DOMAIN y.tools /\ y.tools[j] = u
        BY <1>13, <3>3
      <4>2. c \in H /\ c.key = k
        BY DEF k
      <4>3. /\ old.name # Absent => \E d \in G : d.key = k /\ d.name = old.name
            /\ old.call = Absent => \A d \in G : d.key = k => ~d.id
            /\ old.added => old.name # Absent
            /\ old.call # Absent /\ old.name # Absent => old.added
        <5>1. CASE k \in DOMAIN z.tools
          BY <3>1, <3>3, <5>1 DEF CallNamed, old
        <5>2. CASE k \notin DOMAIN z.tools
          BY <3>1, <3>3, <5>2, NewToolIs DEF CallNamed, old
        <5> QED BY <5>1, <5>2
      <4>4. Absent # "given"
        BY SoundChunks
      <4>5. u.name # Absent => \E d \in H : d.key = k /\ d.name = u.name
        BY <1>4, <1>5, <4>2, <4>3
      <4>6. u.call = Absent => \A d \in H : d.key = k => ~d.id
        BY <1>4, <1>5, <4>3, <4>4
      <4>7. u.added => u.name # Absent
        BY <1>4, <1>5, <4>3
      <4>8. u.call # Absent /\ u.name # Absent => u.added
        BY <1>4, <1>5
      <4> QED BY <3>3, <4>1, <4>5, <4>6, <4>7, <4>8 DEF CallNamed
    <3> QED BY <3>2, <3>3
  <2>9. ASSUME NEW j \in 0 .. MaxCalls - 1, ~Renamed(H, j)
        PROVE  CallShows(y, j, Shown(new, Tool(j)))
    <3>1. ~Renamed(G, j)
      BY <2>9 DEF Renamed
    <3>2. CallShows(z, j, Shown(evs, Tool(j)))
      BY <2>1, <3>1 DEF Shows
    <3>3. CASE j # k
      <4>1. Shown(new, Tool(j)) = Shown(evs, Tool(j))
        BY <1>10, <2>5, <3>3
      <4>2. (j \in DOMAIN y.tools <=> j \in DOMAIN z.tools)
            /\ (j \in DOMAIN z.tools => y.tools[j] = z.tools[j])
        BY <1>13, <3>3
      <4> QED BY <3>2, <4>1, <4>2 DEF CallShows
    <3>4. CASE j = k
      <4> DEFINE was == Shown(evs, Tool(k))
                 is == Shown(new, Tool(k))
      <4>1. j \in DOMAIN y.tools /\ y.tools[j] = u /\ ~u.done
        BY <1>4, <1>5, <1>13, <2>2, <3>4
      <4>2. /\ ~old.added => was = <<>>
            /\ old.added => was = IF old.name \in CustomTools THEN <<>> ELSE old.args
        <5>1. CASE k \in DOMAIN z.tools
          BY <2>2, <3>2, <3>4, <5>1 DEF CallShows, old
        <5>2. CASE k \notin DOMAIN z.tools
          BY <3>2, <3>4, <5>2, NewToolIs DEF CallShows, old
        <5> QED BY <5>1, <5>2
      <4>3. is = IF say THEN was \o sent ELSE was
        BY <2>5
      <4> HIDE DEF was, is
      <4>4. CASE add
        <5>1. was = <<>> /\ sent = u.args /\ u.args \in Text
          BY <1>3, <1>4, <1>5, <4>2, <4>4
        <5>2. <<>> \o u.args = u.args
          BY <5>1, ConcatEmptySeq DEF Text
        <5>3. is = IF u.name \in CustomTools THEN <<>> ELSE u.args
          BY <4>3, <5>1, <5>2
        <5>4. u.added
          BY <1>5, <4>4
        <5> QED BY <3>4, <4>1, <5>3, <5>4 DEF CallShows, is
      <4>5. CASE ~add /\ ~u.added
        <5>1. was = <<>> /\ sent = <<>>
          BY <1>4, <1>5, <4>2, <4>5
        <5>2. is = <<>>
          BY <4>3, <5>1
        <5> QED BY <3>4, <4>1, <4>5, <5>2 DEF CallShows, is
      <4>6. CASE ~add /\ u.added
        <5>1. old.added /\ sent = c.args /\ u.args = old.args \o c.args
          BY <1>4, <1>5, <4>6
        <5>2. u.name \in CustomTools <=> old.name \in CustomTools
          <6>1. CASE c.name = Absent
            BY <1>4, <1>5, <4>6, <6>1
          <6>2. CASE c.name # Absent
            <7>1. u.name = c.name
              BY <1>4, <1>5, <4>6, <6>2
            <7>2. k \in DOMAIN z.tools
              BY <5>1, NewToolIs DEF old
            <7>3. CallNamed(z, k, G)
              BY <1>1, <2>1 DEF Named
            <7>4. PICK d \in G : d.key = k /\ d.name = old.name /\ old.name # Absent
              BY <5>1, <7>2, <7>3 DEF CallNamed, old
            <7>5. c \in H /\ d \in H /\ c.key = k /\ d.key = k
              BY <7>4 DEF k
            <7>6. ~(c.name \in CustomTools /\ d.name \notin CustomTools \cup {Absent})
                  /\ ~(d.name \in CustomTools /\ c.name \notin CustomTools \cup {Absent})
              BY <2>9, <3>4, <7>5 DEF Renamed
            <7> QED BY <6>2, <7>1, <7>4, <7>6
          <6> QED BY <6>1, <6>2
        <5>3. old.args \o <<>> = old.args
          BY <1>3, ConcatEmptySeq DEF Text
        <5>4. is = IF u.name \in CustomTools THEN <<>> ELSE u.args
          BY <4>2, <4>3, <5>1, <5>2, <5>3
        <5> QED BY <3>4, <4>1, <4>6, <5>4 DEF CallShows, is
      <4> QED BY <4>4, <4>5, <4>6
    <3> QED BY <3>3, <3>4
  <2>10. Shown(new, Reasoning) = y.reasoning.text /\ Shown(new, Message) = y.message.text
    BY <1>10, <1>13, <2>1, <2>5 DEF Shows
  <2>11. Shows(y, new, H) /\ Named(y, H)
    BY <2>8, <2>9, <2>10 DEF Shows, Named
  <2> QED BY <1>13, <2>3, <2>5, <2>6, <2>7, <2>11 DEF Good
<1>18. r.s = y /\ r.out = first \o second
  BY <1>9 DEF Step
<1>19. first \o second \in Seq(Says)
  BY <1>12
<1>20. Kept(z, r, {c})
  BY <1>13, <1>17, <1>18, <1>19 DEF Kept
<1> QED BY <1>20 DEF r

-----------------------------------------------------------------------------
(* push_tool_call_deltas.                                                  *)

(* The results of the first n calls.                                       *)
Pushes(z, calls, why, n, f) ==
  f = [k \in 0 .. n |->
         IF k = 0 THEN Step(z, <<>>)
         ELSE Then(f[k - 1], LAMBDA y : PushTool(y, calls[k], why))]

(* push_tool_call_deltas goes call by call: its function exists.           *)
LEMMA PushedByCall ==
  ASSUME NEW z, NEW calls, NEW why, NEW N \in Nat, Len(calls) = N
  PROVE  \E f : Pushes(z, calls, why, N, f) /\ PushTools(z, calls, why) = f[N]
<1> DEFINE More(old, n) == Then(old, LAMBDA y : PushTool(y, calls[n], why))
           Rows(f, m) == f = [k \in 0 .. m |-> IF k = 0 THEN Step(z, <<>>) ELSE More(f[k - 1], k)]
           P == {m \in 0 .. N : \E f : Rows(f, m)}
<1>1. 0 \in P
  <2> DEFINE g == [k \in 0 .. 0 |-> Step(z, <<>>)]
  <2>1. Rows(g, 0)
    <3>1. \A k \in 0 .. 0 : k = 0 /\ g[k] = Step(z, <<>>)
      OBVIOUS
    <3>2. g = [k \in 0 .. 0 |-> g[k]]
      OBVIOUS
    <3> HIDE DEF g, More
    <3>3. ASSUME NEW k \in 0 .. 0
          PROVE  g[k] = IF k = 0 THEN Step(z, <<>>) ELSE More(g[k - 1], k)
      BY <3>1
    <3> QED BY <3>2, <3>3
  <2> HIDE DEF Rows, g
  <2> QED BY <2>1
<1>2. ASSUME NEW m \in 0 .. N - 1, m \in P PROVE m + 1 \in P
  <2>1. PICK f : Rows(f, m)
    BY <1>2
  <2> DEFINE g == [k \in 0 .. m + 1 |-> IF k = m + 1 THEN More(f[m], m + 1) ELSE f[k]]
  <2>2. Rows(g, m + 1)
    <3> HIDE DEF More
    <3>1. ASSUME NEW k \in 0 .. m + 1
          PROVE  g[k] = IF k = 0 THEN Step(z, <<>>) ELSE More(g[k - 1], k)
      <4>1. CASE k = m + 1
        <5>1. g[k - 1] = f[m]
          BY <4>1
        <5> QED BY <4>1, <5>1
      <4>2. CASE k \in 0 .. m
        <5>1. g[k] = f[k] /\ (k # 0 => g[k - 1] = f[k - 1])
          BY <4>2
        <5>2. f[k] = IF k = 0 THEN Step(z, <<>>) ELSE More(f[k - 1], k)
          BY <2>1, <4>2
        <5> QED BY <5>1, <5>2
      <4> QED BY <4>1, <4>2
    <3>2. g = [k \in 0 .. m + 1 |-> g[k]]
      OBVIOUS
    <3> HIDE DEF g
    <3> QED BY <3>1, <3>2
  <2> HIDE DEF Rows, g
  <2> QED BY <2>2
<1>3. \E f : Rows(f, N)
  <2> HIDE DEF P
  <2>1. 0 .. N \subseteq P
    BY <1>1, <1>2, UpTo
  <2>2. N \in P
    BY <2>1
  <2> QED BY <2>2 DEF P
<1> DEFINE t == CHOOSE f : Rows(f, N)
<1>4. Rows(t, N)
  <2> HIDE DEF Rows
  <2> QED BY <1>3
<1>5. PushTools(z, calls, why) = t[N]
  BY DEF PushTools
<1> HIDE DEF t
<1> QED BY <1>4, <1>5 DEF Pushes

(* The deltas of a chunk are all taken.                                    *)
LEMMA PushToolsKept ==
  ASSUME NEW z \in State, NEW calls \in Seq(Deltas), NEW why \in Text
  PROVE  Kept(z, PushTools(z, calls, why), Range(calls))
<1> DEFINE N == Len(calls)
           TakenBy(n) == {calls[i] : i \in 1 .. n}
<1>1. N \in Nat /\ Len(calls) = N /\ \A i \in 1 .. N : calls[i] \in Deltas
  OBVIOUS
<1>2. TakenBy(N) = Range(calls)
  BY DEF Range
<1> HIDE DEF N
<1>3. PICK f : Pushes(z, calls, why, N, f) /\ PushTools(z, calls, why) = f[N]
  BY <1>1, PushedByCall
<1>4. f[0] = Step(z, <<>>)
  BY <1>1, <1>3 DEF Pushes
<1>5. ASSUME NEW n \in 0 .. N - 1
      PROVE  f[n + 1] = Then(f[n], LAMBDA y : PushTool(y, calls[n + 1], why))
  <2>1. n + 1 \in 0 .. N /\ n + 1 # 0 /\ (n + 1) - 1 = n
    BY <1>1
  <2> QED BY <1>3, <2>1 DEF Pushes
<1> DEFINE P == {n \in 0 .. N : Kept(z, f[n], TakenBy(n))}
<1>6. 0 \in P
  <2>1. TakenBy(0) = {}
    OBVIOUS
  <2> HIDE DEF TakenBy
  <2>2. Kept(z, f[0], TakenBy(0))
    BY <1>4, <2>1, KeptStill
  <2> QED BY <1>1, <2>2
<1>7. ASSUME NEW n \in 0 .. N - 1, n \in P PROVE n + 1 \in P
  <2> DEFINE c == calls[n + 1]
             r == f[n]
             m == PushTool(r.s, c, why)
  <2>1. c \in Deltas /\ n + 1 \in 0 .. N
    BY <1>1
  <2>2. TakenBy(n + 1) = TakenBy(n) \cup {c} /\ TakenBy(n) \in SUBSET Deltas /\ {c} \in SUBSET Deltas
    <3>1. \A i \in 1 .. n + 1 : i \in 1 .. n \/ i = n + 1
      OBVIOUS
    <3>2. \A i \in 1 .. n : i \in 1 .. N /\ i \in 1 .. n + 1
      BY <1>1
    <3> QED BY <1>1, <2>1, <3>1, <3>2
  <2> HIDE DEF TakenBy, c
  <2>3. Kept(z, r, TakenBy(n))
    BY <1>7
  <2>4. r.s \in State
    BY <2>3 DEF Kept
  <2>5. f[n + 1] = Step(m.s, r.out \o m.out)
    BY <1>5 DEF Then, c
  <2> HIDE DEF r
  <2>6. Kept(r.s, m, {c})
    BY <2>1, <2>4, PushToolKept
  <2> HIDE DEF m
  <2>7. Kept(z, Step(m.s, r.out \o m.out), TakenBy(n) \cup {c})
    BY <2>2, <2>3, <2>6, KeptThen
  <2>8. Kept(z, f[n + 1], TakenBy(n + 1))
    BY <2>2, <2>5, <2>7
  <2> QED BY <2>1, <2>8
<1> HIDE DEF P, TakenBy
<1>8. 0 .. N \subseteq P
  BY <1>1, <1>6, <1>7, UpTo
<1>9. N \in P
  BY <1>1, <1>8
<1> QED BY <1>2, <1>3, <1>9 DEF P

-----------------------------------------------------------------------------
(* A chunk.                                                                *)

(* The same, but for the reason why the answer is finished.                *)
Taken(z, r, D, finish) ==
  /\ r.s \in State /\ r.out \in Seq(Says) /\ r.s.completed = z.completed /\ r.s.finish = finish
  /\ \A evs \in Seq(Says), G \in SUBSET Deltas :
       AllOpen(z) /\ Good(z, evs, G) => AllOpen(r.s) /\ Good(r.s, evs \o r.out, G \cup D)

(* handle_chat_chunk keeps the books and takes the deltas of the chunk.    *)
LEMMA HandleChunkTaken ==
  ASSUME NEW z \in State, NEW c \in Chunks
  PROVE  Taken(z, HandleChunk(z, c), Range(c.calls),
               IF c.finish = Absent THEN z.finish ELSE c.finish)
<1> DEFINE r1 == EnsureStarted(z)
           n2 == PushReasoning(r1.s, c.why)
           r2 == Step(n2.s, r1.out \o n2.out)
           n3 == Step(AppendReasoning(r2.s, c.why), <<>>)
           r3 == Step(n3.s, r2.out \o n3.out)
           thought == IF c.why = <<>> THEN r1 ELSE r3
           n4 == IF c.content = <<>> THEN Step(thought.s, <<>>) ELSE PushContent(thought.s, c.content)
           said == Step(n4.s, thought.out \o n4.out)
           n5 == FlushThink(said.s)
           flushed == Step(n5.s, said.out \o n5.out)
           n6 == CloseReasoning(flushed.s)
           r6 == Step(n6.s, flushed.out \o n6.out)
           why == Trim(flushed.s.reasoning.text)
           n7 == PushTools(r6.s, c.calls, why)
           r7 == Step(n7.s, r6.out \o n7.out)
           called == IF c.calls = <<>> THEN said ELSE r7
           y == [called.s EXCEPT !.finish = c.finish]
<1>1. c.why \in Text /\ c.content \in Text /\ c.calls \in Seq(Deltas)
  BY ChunkTypes
<1>2. HandleChunk(z, c) = IF c.finish = Absent THEN called ELSE Step(y, called.out)
  BY DEF HandleChunk, Then
<1>3. Kept(z, r1, {}) /\ r1.s \in State
  BY EnsureStartedKept DEF Kept
<1> HIDE DEF r1
<1>4. Kept(r1.s, n2, {})
  BY <1>1, <1>3, PushReasoningKept
<1> HIDE DEF n2
<1>5. Kept(z, r2, {})
  BY <1>3, <1>4, KeptBoth
<1>6. r2.s \in State
  BY <1>5 DEF Kept
<1> HIDE DEF r2
<1>7. Kept(r2.s, n3, {})
  BY <1>1, <1>6, AppendReasoningKept
<1> HIDE DEF n3
<1>8. Kept(z, r3, {})
  BY <1>5, <1>7, KeptBoth
<1> HIDE DEF r3
<1>9. Kept(z, thought, {}) /\ thought.s \in State
  BY <1>3, <1>8 DEF Kept
<1> HIDE DEF thought
<1>10. Kept(thought.s, n4, {})
  BY <1>1, <1>9, KeptStill, PushContentKept
<1> HIDE DEF n4
<1>11. Kept(z, said, {})
  BY <1>9, <1>10, KeptBoth
<1>12. said.s \in State
  BY <1>11 DEF Kept
<1> HIDE DEF said
<1>13. Kept(said.s, n5, {})
  BY <1>12, FlushThinkKept
<1> HIDE DEF n5
<1>14. Kept(z, flushed, {})
  BY <1>11, <1>13, KeptBoth
<1>15. flushed.s \in State
  BY <1>14 DEF Kept
<1> HIDE DEF flushed
<1>16. Kept(flushed.s, n6, {})
  BY <1>15, CloseReasoningKept
<1> HIDE DEF n6
<1>17. Kept(z, r6, {})
  BY <1>14, <1>16, KeptBoth
<1>18. r6.s \in State
  BY <1>17 DEF Kept
<1> HIDE DEF r6
<1>19. why \in Text
  <2>1. flushed.s.reasoning \in ItemState
    BY <1>15, StateOf
  <2>2. flushed.s.reasoning.text \in Text
    BY <2>1 DEF ItemState
  <2> QED BY <2>2, TextOps
<1> HIDE DEF why
<1>20. Kept(r6.s, n7, Range(c.calls))
  BY <1>1, <1>18, <1>19, PushToolsKept
<1> HIDE DEF n7
<1>21. Range(c.calls) \in SUBSET Deltas /\ {} \in SUBSET Deltas
       /\ {} \cup Range(c.calls) = Range(c.calls)
  BY DEF Deltas
<1>22. Kept(z, r7, Range(c.calls))
  <2>1. Kept(z, r7, {} \cup Range(c.calls))
    BY <1>17, <1>20, <1>21, KeptThen
  <2> QED BY <1>21, <2>1
<1> HIDE DEF r7
<1>23. c.calls = <<>> => Range(c.calls) = {}
  BY DEF Range
<1>24. Kept(z, called, Range(c.calls))
  BY <1>11, <1>22, <1>23
<1>25. called.s \in State
  BY <1>24 DEF Kept
<1> HIDE DEF called
<1>26. CASE c.finish = Absent
  BY <1>2, <1>24, <1>26 DEF Kept, Taken
<1>27. CASE c.finish # Absent
  <2>1. c.finish \in Finishes
    BY DEF Finishes
  <2>2. /\ y \in State /\ y.completed = called.s.completed /\ y.finish = c.finish
        /\ y.next = called.s.next /\ y.reasoning = called.s.reasoning
        /\ y.message = called.s.message /\ y.output = called.s.output
        /\ y.tools = called.s.tools
    BY <1>25, <2>1 DEF State
  <2> HIDE DEF y
  <2>3. AllOpen(called.s) => AllOpen(y)
    BY <2>2 DEF AllOpen
  <2>4. Marks(y) = Marks(called.s)
    BY <2>2 DEF Marks, MarkOf
  <2>5. ASSUME NEW evs, NEW G, Good(called.s, evs, G) PROVE Good(y, evs, G)
    <3>1. Shows(y, evs, G)
      BY <2>2, <2>5 DEF Good, Shows, CallShows
    <3>2. Named(y, G)
      BY <2>2, <2>5 DEF Good, Named, CallNamed
    <3>3. Books(y, evs, G)
      BY <2>2, <2>4, <2>5 DEF Good, Books, EntryHolds
    <3> QED BY <2>2, <2>4, <2>5, <3>1, <3>2, <3>3 DEF Good
  <2>6. HandleChunk(z, c).s = y /\ HandleChunk(z, c).out = called.out
    BY <1>2, <1>27 DEF Step
  <2> QED BY <1>24, <1>27, <2>2, <2>3, <2>5, <2>6 DEF Kept, Taken
<1> QED BY <1>26, <1>27

-----------------------------------------------------------------------------
(* The canonical form of arguments.                                        *)

(* A text that neither begins nor ends with a blank.                       *)
Tidy(t) == t \in Text /\ Len(t) >= 1 /\ t[1] # "sp" /\ t[Len(t)] # "sp"

LEMMA TrimStartKeeps ==
  ASSUME NEW t \in Text, Len(t) >= 1, t[1] # "sp"
  PROVE  TrimStart(t) = t
<1>1. Len(t) \in Nat /\ DOMAIN t = 1 .. Len(t)
  BY DEF Text
<1>2. ~IsBlank(t)
  BY <1>1 DEF IsBlank
<1>3. PICK i \in 1 .. Len(t) :
        /\ TrimStart(t) = SubSeq(t, i, Len(t)) /\ t[i] # "sp"
        /\ \A j \in 1 .. i - 1 : t[j] = "sp"
  BY <1>2, TrimmedStart
<1>4. i = 1
  BY <1>1, <1>3
<1>5. SubSeq(t, 1, Len(t)) = t
  BY SubSeqFull DEF Text
<1> QED BY <1>3, <1>4, <1>5

LEMMA Reversed ==
  ASSUME NEW t \in Text
  PROVE  /\ Reverse(t) \in Text /\ Len(Reverse(t)) = Len(t) /\ Reverse(Reverse(t)) = t
         /\ Len(t) >= 1 => Reverse(t)[1] = t[Len(t)] /\ Reverse(t)[Len(t)] = t[1]
<1> DEFINE r == Reverse(t)
<1>1. Len(t) \in Nat /\ \A i \in 1 .. Len(t) : t[i] \in Atoms
  BY DEF Text
<1>2. r = [i \in 1 .. Len(t) |-> t[(Len(t) - i) + 1]]
  BY DEF Reverse
<1>3. \A i \in 1 .. Len(t) : (Len(t) - i) + 1 \in 1 .. Len(t) /\ r[i] = t[(Len(t) - i) + 1]
  BY <1>1, <1>2
<1>4. r \in Text
  BY TextOps
<1>5. Len(r) = Len(t)
  BY <1>1, <1>2
<1> HIDE DEF r
<1>6. Reverse(r) = [i \in 1 .. Len(t) |-> r[(Len(t) - i) + 1]]
  BY <1>5 DEF Reverse
<1>7. \A i \in 1 .. Len(t) : r[(Len(t) - i) + 1] = t[i]
  <2> TAKE i \in 1 .. Len(t)
  <2>1. (Len(t) - i) + 1 \in 1 .. Len(t) /\ (Len(t) - ((Len(t) - i) + 1)) + 1 = i
    BY <1>1
  <2> QED BY <1>3, <2>1
<1>8. t = [i \in 1 .. Len(t) |-> t[i]]
  BY DEF Text
<1>9. Reverse(r) = t
  BY <1>6, <1>7, <1>8
<1>10. Len(t) >= 1 => r[1] = t[Len(t)] /\ r[Len(t)] = t[1]
  BY <1>1, <1>3
<1> QED BY <1>4, <1>5, <1>9, <1>10 DEF r

LEMMA TidyStays ==
  ASSUME NEW t, Tidy(t)
  PROVE  Trim(t) = t /\ ~IsBlank(t)
<1>1. t \in Text /\ Len(t) >= 1 /\ t[1] # "sp" /\ t[Len(t)] # "sp" /\ Len(t) \in Nat
      /\ DOMAIN t = 1 .. Len(t)
  BY DEF Tidy, Text
<1>2. TrimStart(t) = t
  BY <1>1, TrimStartKeeps
<1>3. /\ Reverse(t) \in Text /\ Len(Reverse(t)) >= 1 /\ Reverse(t)[1] # "sp"
      /\ Reverse(Reverse(t)) = t
  BY <1>1, Reversed
<1>4. TrimStart(Reverse(t)) = Reverse(t)
  BY <1>3, TrimStartKeeps
<1>5. ~IsBlank(t)
  BY <1>1 DEF IsBlank
<1> QED BY <1>2, <1>3, <1>4, <1>5 DEF Trim

(* Trimming leaves neither blank.                                          *)
LEMMA TrimIsTidy ==
  ASSUME NEW a \in Text, ~IsBlank(a)
  PROVE  Tidy(Trim(a))
<1> DEFINE b == TrimStart(a)
           c == Reverse(b)
           d == TrimStart(c)
<1>1. ASSUME NEW t \in Text, ~IsBlank(t)
      PROVE  /\ TrimStart(t) \in Text /\ Len(TrimStart(t)) >= 1 /\ TrimStart(t)[1] # "sp"
             /\ TrimStart(t)[Len(TrimStart(t))] = t[Len(t)]
  <2>1. Len(t) \in Nat
    BY DEF Text
  <2>2. PICK i \in 1 .. Len(t) : TrimStart(t) = SubSeq(t, i, Len(t)) /\ t[i] # "sp"
    BY <1>1, TrimmedStart
  <2>3. /\ Len(SubSeq(t, i, Len(t))) = (Len(t) - i) + 1
        /\ \A j \in 1 .. (Len(t) - i) + 1 : SubSeq(t, i, Len(t))[j] = t[(i + j) - 1]
    BY <2>1
  <2>4. /\ 1 \in 1 .. (Len(t) - i) + 1 /\ (Len(t) - i) + 1 \in 1 .. (Len(t) - i) + 1
        /\ (i + 1) - 1 = i /\ (i + ((Len(t) - i) + 1)) - 1 = Len(t)
    BY <2>1
  <2>5. TrimStart(t) \in Text
    BY TextOps
  <2> QED BY <2>2, <2>3, <2>4, <2>5
<1>2. b \in Text /\ Len(b) >= 1 /\ b[1] # "sp" /\ Len(b) \in Nat
  BY <1>1 DEF Text
<1> HIDE DEF b
<1>3. c \in Text /\ Len(c) = Len(b) /\ c[Len(c)] = b[1]
  BY <1>2, Reversed
<1> HIDE DEF c
<1>4. ~IsBlank(c)
  <2>1. Len(c) \in DOMAIN c
    BY <1>2, <1>3 DEF Text
  <2> QED BY <1>2, <1>3, <2>1 DEF IsBlank
<1>5. d \in Text /\ Len(d) >= 1 /\ d[1] # "sp" /\ d[Len(d)] # "sp"
  BY <1>1, <1>2, <1>3, <1>4
<1> HIDE DEF d
<1>6. /\ Reverse(d) \in Text /\ Len(Reverse(d)) = Len(d) /\ Reverse(d)[1] = d[Len(d)]
      /\ Reverse(d)[Len(d)] = d[1]
  BY <1>5, Reversed
<1>7. Trim(a) = Reverse(d)
  BY DEF Trim, b, c, d
<1> QED BY <1>5, <1>6, <1>7 DEF Tidy

(* The canonical form of arguments is its own canonical form, so a client  *)
(* that was shown it has what the output lists.                            *)
LEMMA CanonicalOnce ==
  ASSUME NEW a \in Text
  PROVE  Canonical(Canonical(a)) = Canonical(a) /\ Canonical(a) \in Text
<1>1. Canonical(a) \in Text
  BY TextOps
<1>2. Tidy(Canonical(a))
  <2>1. CASE IsBlank(a)
    <3>1. Canonical(a) = <<"{}">>
      BY <2>1 DEF Canonical
    <3>2. Len(<<"{}">>) = 1 /\ <<"{}">>[1] = "{}"
      OBVIOUS
    <3>3. "{}" # "sp"
      OBVIOUS
    <3>4. /\ Len(Canonical(a)) = 1 /\ Canonical(a)[1] # "sp"
      BY <3>1, <3>2, <3>3
    <3> QED BY <1>1, <3>4 DEF Tidy
  <2>2. CASE ~IsBlank(a)
    BY <2>2, TrimIsTidy DEF Canonical
  <2> QED BY <2>1, <2>2
<1>3. Trim(Canonical(a)) = Canonical(a) /\ ~IsBlank(Canonical(a))
  BY <1>2, TidyStays
<1>4. \A t : ~IsBlank(t) => Canonical(t) = Trim(t)
  BY DEF Canonical
<1> QED BY <1>1, <1>3, <1>4

-----------------------------------------------------------------------------
(* finalize_tools.                                                         *)

(* What a round of finalize_tools leaves alone.                            *)
OnlyTool(z, y, k) ==
  /\ y \in State /\ y.completed = z.completed /\ y.finish = z.finish
  /\ y.reasoning = z.reasoning /\ y.message = z.message
  /\ DOMAIN y.tools = DOMAIN z.tools /\ y.tools[k].done
  /\ \A j \in DOMAIN z.tools : j # k => y.tools[j] = z.tools[j]

(* What changes when a call is done.                                       *)
LEMMA PutDone ==
  ASSUME NEW z \in State, NEW k \in DOMAIN z.tools, NEW u \in ToolState, NEW n \in Nat,
         NEW o \in Seq(Entry), u.done
  PROVE  LET y == WithTool(z, k, u, n, o)
         IN  /\ OnlyTool(z, y, k) /\ y.next = n /\ y.output = o /\ y.tools[k] = u
             /\ Marks(y)[Tool(k)] = Mark(u) /\ Marks(z)[Tool(k)] = Mark(z.tools[k])
             /\ \A x \in AllItems : x # Tool(k) => Marks(y)[x] = Marks(z)[x]
<1> DEFINE y == WithTool(z, k, u, n, o)
<1>1. k \in 0 .. MaxCalls - 1
  BY StateOf, ToolsOf
<1>2. /\ y \in State /\ y.next = n /\ y.output = o
      /\ y.reasoning = z.reasoning /\ y.message = z.message
      /\ y.completed = z.completed /\ y.finish = z.finish
      /\ DOMAIN y.tools = DOMAIN z.tools \cup {k} /\ y.tools[k] = u
      /\ \A j \in DOMAIN z.tools : j # k => y.tools[j] = z.tools[j]
      /\ Marks(y)[Tool(k)] = Mark(u)
      /\ \A x \in AllItems : x # Tool(k) => Marks(y)[x] = Marks(z)[x]
  BY <1>1, ToolSet
<1> HIDE DEF y
<1>3. Marks(z)[Tool(k)] = Mark(z.tools[k])
  BY <1>1, MarksOf
<1>4. OnlyTool(z, y, k)
  BY <1>2 DEF OnlyTool
<1> QED BY <1>2, <1>3, <1>4 DEF y

(* A call without a name is done and nothing is said of it.                *)
LEMMA NamelessDone ==
  ASSUME NEW z \in State, NEW k \in DOMAIN z.tools, ~z.tools[k].done, z.tools[k].name = Absent
  PROVE  LET r == CloseTool(z, k)
         IN  /\ OnlyTool(z, r.s, k) /\ r.out \in Seq(Says)
             /\ \A evs \in Seq(Says) : \A G : Good(z, evs, G) => Good(r.s, evs \o r.out, G)
<1> DEFINE t == z.tools[k]
           u == [t EXCEPT !.done = TRUE]
           y == WithTool(z, k, u, z.next, z.output)
           r == CloseTool(z, k)
<1>1. k \in 0 .. MaxCalls - 1 /\ t \in ToolState /\ z.next \in Nat /\ z.output \in Seq(Entry)
      /\ z.tools \in ToolMaps
  BY StateOf, ToolsOf
<1>2. /\ u \in ToolState /\ u.done = TRUE /\ u.added = t.added /\ u.index = t.index
      /\ u.call = t.call /\ u.name = t.name /\ u.args = t.args
  BY <1>1 DEF ToolState
<1>3. r = Step(y, <<>>)
  <2>1. Put(z.tools, k, u) = [z.tools EXCEPT ![k].done = TRUE]
    BY <1>1, ToolsOf DEF Put
  <2>2. [z EXCEPT !.tools[k].done = TRUE] = [z EXCEPT !.tools = [z.tools EXCEPT ![k].done = TRUE]]
    BY DEF State
  <2>3. y = [z EXCEPT !.tools = Put(z.tools, k, u)]
    BY DEF WithTool, State
  <2>4. r = Step([z EXCEPT !.tools[k].done = TRUE], <<>>)
    BY DEF CloseTool
  <2> QED BY <2>1, <2>2, <2>3, <2>4
<1> HIDE DEF u, t
<1>4. /\ OnlyTool(z, y, k) /\ y.next = z.next /\ y.output = z.output /\ y.tools[k] = u
      /\ Marks(y)[Tool(k)] = Mark(u) /\ Marks(z)[Tool(k)] = Mark(z.tools[k])
      /\ \A x \in AllItems : x # Tool(k) => Marks(y)[x] = Marks(z)[x]
  BY <1>1, <1>2, PutDone
<1> HIDE DEF y
<1>5. r.s = y /\ r.out = <<>>
  BY <1>3 DEF Step
<1> HIDE DEF r
<1>6. y \in State /\ y.reasoning = z.reasoning /\ y.message = z.message
      /\ DOMAIN y.tools = DOMAIN z.tools
      /\ \A j \in DOMAIN z.tools : j # k => y.tools[j] = z.tools[j]
  BY <1>4 DEF OnlyTool
<1>7. Marks(y) \in Markings /\ Marks(z) \in Markings
  BY <1>6, MarksOf
<1>8. /\ Mark(u).added = t.added /\ Mark(u).done /\ Mark(u).index = t.index
      /\ Mark(z.tools[k]).added = t.added /\ Mark(z.tools[k]).index = t.index
  BY <1>2 DEF Mark, t
<1>9. ASSUME NEW evs \in Seq(Says), NEW G, Good(z, evs, G)
      PROVE  Good(y, evs, G)
  <2>1. Trail(Marks(z), z.next, evs) /\ Shows(z, evs, G) /\ Named(z, G) /\ Books(z, evs, G)
    BY <1>9 DEF Good
  <2>2. CallNamed(z, k, G)
    BY <1>1, <2>1 DEF Named
  <2>3. ~t.added
    BY <2>2 DEF CallNamed, t
  <2>4. Trail(Marks(y), z.next, evs)
    <3>1. ASSUME NEW x \in AllItems
          PROVE  /\ Marks(y)[x].added = Marks(z)[x].added /\ (Marks(z)[x].done => Marks(y)[x].done)
                 /\ Marks(z)[x].added => Marks(y)[x].index = Marks(z)[x].index
      <4>1. CASE x = Tool(k)
        BY <1>4, <1>8, <4>1
      <4>2. CASE x # Tool(k)
        BY <1>4, <4>2
      <4> QED BY <4>1, <4>2
    <3> QED BY <1>1, <1>7, <2>1, <3>1, TrailMarks
  <2>5. Named(y, G)
    <3>1. ASSUME NEW j \in 0 .. MaxCalls - 1 PROVE CallNamed(y, j, G)
      <4>1. CallNamed(z, j, G)
        BY <2>1 DEF Named
      <4>2. CASE j = k
        BY <1>2, <1>4, <1>6, <4>1, <4>2 DEF CallNamed, t
      <4>3. CASE j # k
        BY <1>6, <4>1, <4>3 DEF CallNamed
      <4> QED BY <4>2, <4>3
    <3> QED BY <3>1 DEF Named
  <2>6. Shows(y, evs, G)
    <3>1. ASSUME NEW j \in 0 .. MaxCalls - 1, CallShows(z, j, Shown(evs, Tool(j)))
          PROVE  CallShows(y, j, Shown(evs, Tool(j)))
      <4>1. CASE j = k
        BY <1>2, <1>4, <1>6, <2>3, <3>1, <4>1 DEF CallShows, t
      <4>2. CASE j # k
        BY <1>6, <3>1, <4>2 DEF CallShows
      <4> QED BY <4>1, <4>2
    <3> QED BY <1>6, <2>1, <3>1 DEF Shows
  <2>7. Books(y, evs, G)
    <3>1. ~Marks(z)[Tool(k)].added /\ ~Marks(y)[Tool(k)].added
      BY <1>4, <1>8, <2>3
    <3>2. ASSUME NEW en \in Range(z.output) PROVE EntryHolds(y, en, evs, G)
      <4>1. EntryHolds(z, en, evs, G) /\ en.item \in AllItems
        BY <2>1, EntryOf DEF Books
      <4>2. en.item # Tool(k)
        BY <3>1, <4>1 DEF EntryHolds
      <4> QED BY <1>4, <4>1, <4>2 DEF EntryHolds
    <3>3. ASSUME NEW x \in AllItems, Marks(y)[x].added, Marks(y)[x].done
          PROVE  \E en \in Range(z.output) : en.item = x
      <4>1. x # Tool(k)
        BY <3>1, <3>3
      <4>2. Marks(z)[x].added /\ Marks(z)[x].done
        BY <1>4, <3>3, <4>1
      <4> QED BY <2>1, <4>2 DEF Books
    <3> QED BY <1>4, <3>2, <3>3 DEF Books
  <2> QED BY <1>4, <2>4, <2>5, <2>6, <2>7 DEF Good
<1>10. r.out \in Seq(Says) /\ \A evs \in Seq(Says) : evs \o r.out = evs
  BY <1>5, Nothing, SaysLists
<1>11. \A evs \in Seq(Says) : \A G : Good(z, evs, G) => Good(r.s, evs \o r.out, G)
  BY <1>5, <1>9, <1>10
<1> QED BY <1>4, <1>5, <1>10, <1>11 DEF r

(* A call with a name is added if it was not, done and listed.             *)
NamedResult(z, k) ==
  LET t == z.tools[k]
      add == ~t.added
      u == [t EXCEPT !.done = TRUE, !.added = TRUE, !.index = IF add THEN z.next ELSE @,
                     !.call = IF add /\ @ = Absent THEN "made" ELSE @]
      text == Canonical(t.args)
  IN Step([z EXCEPT !.tools[k] = u, !.next = IF add THEN @ + 1 ELSE @,
                    !.output = Append(@, [index |-> u.index, item |-> Tool(k), text |-> text])],
          (IF add THEN <<Ev("item.added", Tool(k), u.index, <<>>)>> ELSE <<>>)
          \o (IF t.name \in CustomTools THEN <<Ev("delta", Tool(k), u.index, text)>> ELSE <<>>)
          \o <<Ev("text.done", Tool(k), u.index, text), Ev("item.done", Tool(k), u.index, text)>>)

(* What the client was shown of a call that is listed is its arguments:    *)
(* all of them sent before, or nothing before and, for a custom tool, all  *)
(* now.                                                                    *)
LEMMA NamedDone ==
  ASSUME NEW z \in State, NEW k \in DOMAIN z.tools, ~z.tools[k].done, z.tools[k].name # Absent
  PROVE  LET r == NamedResult(z, k)
         IN  /\ OnlyTool(z, r.s, k) /\ r.out \in Seq(Says)
             /\ \A evs \in Seq(Says) : \A G : Good(z, evs, G) => Good(r.s, evs \o r.out, G)
<1> DEFINE t == z.tools[k]
           add == ~t.added
           i == IF add THEN z.next ELSE t.index
           n == IF add THEN z.next + 1 ELSE z.next
           u == [t EXCEPT !.done = TRUE, !.added = TRUE, !.index = i,
                          !.call = IF add /\ @ = Absent THEN "made" ELSE @]
           v == [u EXCEPT !.done = FALSE]
           text == Canonical(t.args)
           custom == t.name \in CustomTools
           en == [index |-> u.index, item |-> Tool(k), text |-> text]
           more == Append(z.output, en)
           y == WithTool(z, k, u, n, more)
           w == WithTool(z, k, v, n, z.output)
           e1 == Ev("item.added", Tool(k), u.index, <<>>)
           e2 == Ev("delta", Tool(k), u.index, text)
           e3 == Ev("text.done", Tool(k), u.index, text)
           e4 == Ev("item.done", Tool(k), u.index, text)
           first == IF add THEN <<e1>> ELSE <<>>
           second == IF custom THEN <<e2>> ELSE <<>>
           third == <<e3, e4>>
           r == NamedResult(z, k)
<1>1. k \in 0 .. MaxCalls - 1 /\ t \in ToolState /\ z.next \in Nat /\ z.output \in Seq(Entry)
      /\ z.tools \in ToolMaps
  BY StateOf, ToolsOf
<1>2. /\ t.args \in Text /\ t.added \in BOOLEAN /\ (t.added => t.index \in Nat)
      /\ t.call \in {Absent, "given", "made"} /\ ~t.done
  BY <1>1 DEF ToolState
<1>3. text \in Text /\ Canonical(text) = text
  BY <1>2, CanonicalOnce
<1>4. i \in Nat /\ n \in Nat /\ (add => i = z.next /\ n = z.next + 1)
      /\ (~add => i = t.index /\ n = z.next)
  BY <1>1, <1>2
<1> HIDE DEF i, n
<1>5. /\ u \in ToolState /\ u.done = TRUE /\ u.added = TRUE /\ u.index = i /\ u.name = t.name
      /\ u.call = Absent => t.call = Absent
      /\ u.args = t.args
  BY <1>1, <1>2, <1>4, SoundChunks DEF ToolState, Indexes
<1>6. /\ v \in ToolState /\ v.done = FALSE /\ v.added = TRUE /\ v.index = i
  BY <1>5 DEF ToolState
<1>7. r = Step(y, (first \o second) \o third)
  <2>1. Put(z.tools, k, u) = [z.tools EXCEPT ![k] = u]
    BY <1>1, ToolsOf DEF Put
  <2>2. [z EXCEPT !.tools[k] = u, !.next = n, !.output = more] = y
    BY <2>1 DEF State, WithTool
  <2>3. [z EXCEPT !.tools[k] = u, !.next = IF add THEN @ + 1 ELSE @, !.output = Append(@, en)] = y
    BY <2>2 DEF State, n
  <2> QED BY <2>3 DEF NamedResult, i
<1> HIDE DEF u, v, text, custom, add
<1>8. Tool(k) \in AllItems /\ Tool(k) # Reasoning /\ Tool(k) # Message
      /\ \A j \in 0 .. MaxCalls - 1 : j # k => Tool(j) # Tool(k)
  BY <1>1, Distinct
<1>9. en \in Entry /\ en.index = i /\ en.item = Tool(k) /\ en.text = text
  BY <1>3, <1>4, <1>5, <1>8 DEF Entry
<1> HIDE DEF en
<1>10. more \in Seq(Entry)
  BY <1>1, <1>9
<1> HIDE DEF more
<1>11. /\ e1 \in Says /\ e1.type = "item.added" /\ e1.item = Tool(k) /\ e1.index = i
       /\ e2 \in Says /\ e2.type = "delta" /\ e2.item = Tool(k) /\ e2.index = i /\ e2.text = text
       /\ e3 \in Says /\ e3.type = "text.done" /\ e3.item = Tool(k) /\ e3.index = i
       /\ e4 \in Says /\ e4.type = "item.done" /\ e4.item = Tool(k) /\ e4.index = i
  <2>1. /\ "item.added" \in OfAnItem /\ "delta" \in OfAnItem /\ "text.done" \in OfAnItem
        /\ "item.done" \in OfAnItem
    BY DEF OfAnItem
  <2>2. u.index = i /\ u.index \in Nat
    BY <1>4, <1>5
  <2> QED BY <1>3, <1>8, <2>1, <2>2, NoText, EvTypes
<1> HIDE DEF e1, e2, e3, e4
<1>12. /\ first \in Seq(Says) /\ second \in Seq(Says) /\ third \in Seq(Says)
       /\ third = <<e3>> \o <<e4>> /\ <<e3>> \in Seq(Says) /\ <<e4>> \in Seq(Says)
  BY <1>11, SaysLists
<1>13. /\ OnlyTool(z, y, k) /\ y.next = n /\ y.output = more /\ y.tools[k] = u
       /\ Marks(y)[Tool(k)] = Mark(u) /\ Marks(z)[Tool(k)] = Mark(t)
       /\ \A x \in AllItems : x # Tool(k) => Marks(y)[x] = Marks(z)[x]
  BY <1>4, <1>5, <1>10, PutDone
<1>14. /\ w \in State /\ Marks(w)[Tool(k)] = Mark(v)
       /\ \A x \in AllItems : x # Tool(k) => Marks(w)[x] = Marks(z)[x]
  BY <1>1, <1>4, <1>6, ToolSet
<1> HIDE DEF y, w, t
<1>15. y \in State /\ y.reasoning = z.reasoning /\ y.message = z.message
      /\ DOMAIN y.tools = DOMAIN z.tools
      /\ \A j \in DOMAIN z.tools : j # k => y.tools[j] = z.tools[j]
  BY <1>13 DEF OnlyTool
<1>16. Marks(y) \in Markings /\ Marks(z) \in Markings /\ Marks(w) \in Markings
  BY <1>14, <1>15, MarksOf
<1>17. /\ Marks(y)[Tool(k)].added /\ Marks(y)[Tool(k)].done /\ Marks(y)[Tool(k)].index = i
       /\ Marks(w)[Tool(k)].added /\ ~Marks(w)[Tool(k)].done /\ Marks(w)[Tool(k)].index = i
       /\ Marks(z)[Tool(k)].added = t.added /\ ~Marks(z)[Tool(k)].done
       /\ Marks(z)[Tool(k)].index = t.index
  BY <1>2, <1>5, <1>6, <1>13, <1>14, MarkFields
<1> HIDE DEF first, second, third, r
<1>18. ASSUME NEW evs \in Seq(Says), NEW G, Good(z, evs, G)
       PROVE  Good(y, evs \o ((first \o second) \o third), G)
  <2> DEFINE one == evs \o first
             two == one \o second
             three == two \o <<e3>>
             new == three \o <<e4>>
  <2>1. Trail(Marks(z), z.next, evs) /\ Shows(z, evs, G) /\ Named(z, G) /\ Books(z, evs, G)
    BY <1>18 DEF Good
  <2>2. one \in Seq(Says) /\ Trail(Marks(w), n, one) /\ \A x : Shown(one, x) = Shown(evs, x)
    <3>1. CASE add
      <4>1. one = evs \o <<e1>>
        BY <3>1 DEF first
      <4>2. /\ ~Marks(z)[e1.item].added /\ Marks(w)[e1.item].added
            /\ Marks(w)[e1.item].index = z.next /\ e1.item \in AllItems /\ e1.index = z.next
            /\ \A x \in AllItems : x # e1.item => Marks(w)[x] = Marks(z)[x]
        BY <1>4, <1>8, <1>11, <1>14, <1>17, <3>1 DEF add
      <4>3. Trail(Marks(w), z.next + 1, evs \o <<e1>>)
        BY <1>1, <1>11, <1>16, <2>1, <4>2, TrailAdds
      <4>4. \A x : Shown(evs \o <<e1>>, x) = Shown(evs, x)
        BY <1>11, ShownSays
      <4>5. evs \o <<e1>> \in Seq(Says)
        BY <1>11, SaysNext
      <4> QED BY <1>4, <3>1, <4>1, <4>3, <4>4, <4>5
    <3>2. CASE ~add
      <4>1. one = evs
        BY <3>2, Nothing DEF first
      <4>2. ASSUME NEW x \in AllItems
            PROVE  /\ Marks(w)[x].added = Marks(z)[x].added /\ (Marks(z)[x].done => Marks(w)[x].done)
                   /\ Marks(z)[x].added => Marks(w)[x].index = Marks(z)[x].index
        <5>1. CASE x = Tool(k)
          BY <1>2, <1>4, <1>16, <1>17, <3>2, <5>1, SameMarks DEF add
        <5>2. CASE x # Tool(k)
          BY <1>14, <5>2
        <5> QED BY <5>1, <5>2
      <4>3. Trail(Marks(w), z.next, evs)
        BY <1>1, <1>16, <2>1, <4>2, TrailMarks
      <4> QED BY <1>4, <3>2, <4>1, <4>3
    <3> QED BY <3>1, <3>2
  <2> HIDE DEF one
  <2>3. /\ two \in Seq(Says) /\ Trail(Marks(w), n, two)
        /\ \A x : x # Tool(k) => Shown(two, x) = Shown(evs, x)
        /\ Shown(two, Tool(k)) = IF custom THEN Shown(evs, Tool(k)) \o text ELSE Shown(evs, Tool(k))
    <3>1. CASE custom
      <4>1. two = one \o <<e2>>
        BY <3>1 DEF second
      <4>2. Trail(Marks(w), n, one \o <<e2>>)
        BY <1>4, <1>11, <1>16, <1>17, <2>2, TrailSays
      <4>3. /\ \A x : x # Tool(k) => Shown(one \o <<e2>>, x) = Shown(one, x)
            /\ Shown(one \o <<e2>>, Tool(k)) = Shown(one, Tool(k)) \o text
        <5>1. \A x : x # Tool(k) => Shown(one \o <<e2>>, x) = Shown(one, x)
          BY <1>11, <2>2, ShownSays
        <5>2. Shown(one \o <<e2>>, Tool(k)) = Shown(one, Tool(k)) \o e2.text
          BY <1>11, <2>2, ShownSays
        <5> QED BY <1>11, <5>1, <5>2
      <4>4. one \o <<e2>> \in Seq(Says)
        BY <1>11, <2>2, SaysNext
      <4> QED BY <2>2, <3>1, <4>1, <4>2, <4>3, <4>4
    <3>2. CASE ~custom
      <4>1. two = one
        BY <2>2, <3>2, Nothing DEF second
      <4> QED BY <2>2, <3>2, <4>1
    <3> QED BY <3>1, <3>2
  <2> HIDE DEF two
  <2>4. three \in Seq(Says) /\ Trail(Marks(w), n, three) /\ \A x : Shown(three, x) = Shown(two, x)
    <3>1. Trail(Marks(w), n, three)
      BY <1>4, <1>11, <1>16, <1>17, <2>3, TrailSays
    <3>2. \A x : Shown(three, x) = Shown(two, x)
      BY <1>11, <2>3, ShownSays
    <3> QED BY <1>11, <2>3, <3>1, <3>2, SaysNext
  <2> HIDE DEF three
  <2>5. new \in Seq(Says) /\ Trail(Marks(y), n, new) /\ \A x : Shown(new, x) = Shown(two, x)
    <3>1. \A x \in AllItems : x # Tool(k) => Marks(y)[x] = Marks(w)[x]
      BY <1>13, <1>14
    <3>2. Trail(Marks(y), n, new)
      BY <1>4, <1>8, <1>11, <1>16, <1>17, <2>4, <3>1, TrailEnds
    <3>3. \A x : Shown(new, x) = Shown(three, x)
      BY <1>11, <2>4, ShownSays
    <3> QED BY <1>11, <2>4, <3>2, <3>3, SaysNext
  <2>6. new = evs \o ((first \o second) \o third)
    <3>1. two = evs \o (first \o second) /\ first \o second \in Seq(Says)
      BY <1>12, Rejoined DEF one, two
    <3>2. new = two \o (<<e3>> \o <<e4>>)
      BY <1>12, <2>3, Rejoined DEF three
    <3>3. (evs \o (first \o second)) \o third = evs \o ((first \o second) \o third)
      BY <1>12, <3>1, Rejoined
    <3> QED BY <1>12, <3>1, <3>2, <3>3
  <2> HIDE DEF new
  <2>7. \A x : x # Tool(k) => Shown(new, x) = Shown(evs, x)
    BY <2>3, <2>5
  <2>8. CallNamed(z, k, G)
    BY <1>1, <2>1 DEF Named
  <2>9. Named(y, G)
    <3>1. ASSUME NEW j \in 0 .. MaxCalls - 1 PROVE CallNamed(y, j, G)
      <4>1. CallNamed(z, j, G)
        BY <2>1 DEF Named
      <4>2. CASE j = k
        BY <1>5, <1>13, <1>15, <4>1, <4>2 DEF CallNamed, t
      <4>3. CASE j # k
        BY <1>15, <4>1, <4>3 DEF CallNamed
      <4> QED BY <4>2, <4>3
    <3> QED BY <3>1 DEF Named
  <2>10. Shows(y, new, G)
    <3>1. ASSUME NEW j \in 0 .. MaxCalls - 1, CallShows(z, j, Shown(evs, Tool(j)))
          PROVE  CallShows(y, j, Shown(new, Tool(j)))
      <4>1. CASE j = k
        BY <1>5, <1>13, <1>15, <4>1 DEF CallShows
      <4>2. CASE j # k
        <5>1. Shown(new, Tool(j)) = Shown(evs, Tool(j))
          BY <1>8, <2>7, <4>2
        <5> QED BY <1>15, <3>1, <4>2, <5>1 DEF CallShows
      <4> QED BY <4>1, <4>2
    <3>2. Shown(new, Reasoning) = y.reasoning.text /\ Shown(new, Message) = y.message.text
      BY <1>8, <1>15, <2>1, <2>7 DEF Shows
    <3> QED BY <2>1, <3>1, <3>2 DEF Shows
  <2>11. SaysTheSame(en, Shown(new, Tool(k)), G)
    <3> DEFINE was == Shown(evs, Tool(k))
               is == Shown(new, Tool(k))
    <3>1. is = IF custom THEN was \o text ELSE was
      BY <2>3, <2>5
    <3> SUFFICES ASSUME ~Renamed(G, k)
                 PROVE  \/ text = Canonical(is)
                        \/ is = <<>> /\ \A d \in G : d.key = k => ~d.id
      BY <1>1, <1>8, <1>9 DEF SaysTheSame
    <3>2. CallShows(z, k, was)
      BY <1>1, <2>1 DEF Shows
    <3>3. /\ ~t.added => was = <<>>
          /\ t.added => was = IF custom THEN <<>> ELSE t.args
      BY <1>2, <3>2 DEF CallShows, t, custom
    <3> HIDE DEF was, is
    <3>4. CASE custom
      <4>1. was = <<>>
        BY <3>3, <3>4
      <4>2. is = text
        BY <1>3, <3>1, <3>4, <4>1, ConcatEmptySeq DEF Text
      <4> QED BY <1>3, <4>2
    <3>5. CASE ~custom /\ t.added
      BY <3>1, <3>3, <3>5 DEF text
    <3>6. CASE ~custom /\ ~t.added
      <4>1. t.call = Absent
        BY <2>8, <3>6 DEF CallNamed, t
      <4>2. \A d \in G : d.key = k => ~d.id
        BY <2>8, <4>1 DEF CallNamed, t
      <4> QED BY <3>1, <3>3, <3>6, <4>2
    <3> QED BY <3>4, <3>5, <3>6
  <2>12. Range(more) = Range(z.output) \cup {en}
    <3>1. z.output \in Seq(Entry) /\ Len(z.output) \in Nat
      BY <1>1
    <3>2. /\ DOMAIN z.output = 1 .. Len(z.output) /\ DOMAIN more = 1 .. Len(z.output) + 1
          /\ \A a \in 1 .. Len(z.output) : more[a] = z.output[a]
          /\ more[Len(z.output) + 1] = en
      BY <3>1 DEF more
    <3>3. Range(more) \subseteq Range(z.output) \cup {en}
      BY <3>1, <3>2 DEF Range
    <3>4. Range(z.output) \cup {en} \subseteq Range(more)
      BY <3>1, <3>2 DEF Range
    <3> QED BY <3>3, <3>4
  <2>13. Books(y, new, G)
    <3>1. ASSUME NEW old \in Range(z.output) PROVE EntryHolds(y, old, new, G)
      <4>1. EntryHolds(z, old, evs, G) /\ old.item \in AllItems
        BY <2>1, EntryOf DEF Books
      <4>2. old.item # Tool(k)
        BY <1>17, <4>1 DEF EntryHolds
      <4> QED BY <1>13, <2>7, <4>1, <4>2 DEF EntryHolds
    <3>2. EntryHolds(y, en, new, G)
      BY <1>9, <1>17, <2>11 DEF EntryHolds
    <3>3. ASSUME NEW x \in AllItems, Marks(y)[x].added, Marks(y)[x].done
          PROVE  \E e \in Range(more) : e.item = x
      <4>1. CASE x = Tool(k)
        BY <1>9, <2>12, <4>1
      <4>2. CASE x # Tool(k)
        <5>1. Marks(z)[x].added /\ Marks(z)[x].done
          BY <1>13, <3>3, <4>2
        <5> QED BY <2>1, <2>12, <5>1 DEF Books
      <4> QED BY <4>1, <4>2
    <3> QED BY <1>13, <2>12, <3>1, <3>2, <3>3 DEF Books
  <2> QED BY <1>13, <2>5, <2>6, <2>9, <2>10, <2>13 DEF Good
<1>19. r.s = y /\ r.out = (first \o second) \o third
  BY <1>7 DEF Step
<1>20. (first \o second) \o third \in Seq(Says)
  BY <1>12
<1>21. \A evs \in Seq(Says) : \A G : Good(z, evs, G) => Good(r.s, evs \o r.out, G)
  BY <1>18, <1>19
<1> QED BY <1>13, <1>19, <1>20, <1>21 DEF r

(* One round of finalize_tools keeps the books.                            *)
LEMMA CloseToolDone ==
  ASSUME NEW z \in State, NEW k \in DOMAIN z.tools
  PROVE  LET r == CloseTool(z, k)
         IN  /\ OnlyTool(z, r.s, k) /\ r.out \in Seq(Says)
             /\ \A evs \in Seq(Says) : \A G : Good(z, evs, G) => Good(r.s, evs \o r.out, G)
<1>1. CASE z.tools[k].done
  <2>1. CloseTool(z, k) = Step(z, <<>>)
    BY <1>1 DEF CloseTool
  <2>2. CloseTool(z, k).s = z /\ CloseTool(z, k).out = <<>>
    BY <2>1 DEF Step
  <2>3. OnlyTool(z, z, k)
    BY <1>1 DEF OnlyTool
  <2> QED BY <2>2, <2>3, Nothing
<1>2. CASE ~z.tools[k].done /\ z.tools[k].name = Absent
  BY <1>2, NamelessDone
<1>3. CASE ~z.tools[k].done /\ z.tools[k].name # Absent
  <2>1. CloseTool(z, k) = NamedResult(z, k)
    BY <1>3 DEF CloseTool, NamedResult
  <2> QED BY <1>3, <2>1, NamedDone
<1> QED BY <1>1, <1>2, <1>3

(* The results of the rounds for the calls below n.                        *)
Closes(z, n, f) ==
  f = [k \in 0 .. n |->
         IF k = 0 THEN Step(z, <<>>)
         ELSE IF k - 1 \in DOMAIN z.tools THEN Then(f[k - 1], LAMBDA y : CloseTool(y, k - 1))
         ELSE f[k - 1]]

(* finalize_tools goes call by call: its function exists.                  *)
LEMMA ClosedByCall ==
  ASSUME NEW z, NEW N \in Nat, MaxCalls = N
  PROVE  \E f : Closes(z, N, f) /\ CloseTools(z) = f[N]
<1> DEFINE More(old, n) == IF n - 1 \in DOMAIN z.tools THEN Then(old, LAMBDA y : CloseTool(y, n - 1)) ELSE old
           Rows(f, m) == f = [k \in 0 .. m |-> IF k = 0 THEN Step(z, <<>>) ELSE More(f[k - 1], k)]
           P == {m \in 0 .. N : \E f : Rows(f, m)}
<1>1. 0 \in P
  <2> DEFINE g == [k \in 0 .. 0 |-> Step(z, <<>>)]
  <2>1. Rows(g, 0)
    <3>1. \A k \in 0 .. 0 : k = 0 /\ g[k] = Step(z, <<>>)
      OBVIOUS
    <3>2. g = [k \in 0 .. 0 |-> g[k]]
      OBVIOUS
    <3> HIDE DEF g, More
    <3>3. ASSUME NEW k \in 0 .. 0
          PROVE  g[k] = IF k = 0 THEN Step(z, <<>>) ELSE More(g[k - 1], k)
      BY <3>1
    <3> QED BY <3>2, <3>3
  <2> HIDE DEF Rows, g
  <2> QED BY <2>1
<1>2. ASSUME NEW m \in 0 .. N - 1, m \in P PROVE m + 1 \in P
  <2>1. PICK f : Rows(f, m)
    BY <1>2
  <2> DEFINE g == [k \in 0 .. m + 1 |-> IF k = m + 1 THEN More(f[m], m + 1) ELSE f[k]]
  <2>2. Rows(g, m + 1)
    <3> HIDE DEF More
    <3>1. ASSUME NEW k \in 0 .. m + 1
          PROVE  g[k] = IF k = 0 THEN Step(z, <<>>) ELSE More(g[k - 1], k)
      <4>1. CASE k = m + 1
        <5>1. g[k - 1] = f[m]
          BY <4>1
        <5> QED BY <4>1, <5>1
      <4>2. CASE k \in 0 .. m
        <5>1. g[k] = f[k] /\ (k # 0 => g[k - 1] = f[k - 1])
          BY <4>2
        <5>2. f[k] = IF k = 0 THEN Step(z, <<>>) ELSE More(f[k - 1], k)
          BY <2>1, <4>2
        <5> QED BY <5>1, <5>2
      <4> QED BY <4>1, <4>2
    <3>2. g = [k \in 0 .. m + 1 |-> g[k]]
      OBVIOUS
    <3> HIDE DEF g
    <3> QED BY <3>1, <3>2
  <2> HIDE DEF Rows, g
  <2> QED BY <2>2
<1>3. \E f : Rows(f, N)
  <2> HIDE DEF P
  <2>1. 0 .. N \subseteq P
    BY <1>1, <1>2, UpTo
  <2>2. N \in P
    BY <2>1
  <2> QED BY <2>2 DEF P
<1> DEFINE t == CHOOSE f : Rows(f, N)
<1>4. Rows(t, N)
  <2> HIDE DEF Rows
  <2> QED BY <1>3
<1>5. CloseTools(z) = t[N]
  BY DEF CloseTools
<1> HIDE DEF t
<1> QED BY <1>4, <1>5 DEF Closes

(* What the rounds for the calls below n leave alone.                      *)
OnlyTools(z, y, n) ==
  /\ y \in State /\ y.completed = z.completed /\ y.finish = z.finish
  /\ y.reasoning = z.reasoning /\ y.message = z.message
  /\ DOMAIN y.tools = DOMAIN z.tools
  /\ \A j \in DOMAIN z.tools : j < n => y.tools[j].done

ToolsClosed(z, r, n) ==
  /\ OnlyTools(z, r.s, n) /\ r.out \in Seq(Says)
  /\ \A evs \in Seq(Says) : \A G : Good(z, evs, G) => Good(r.s, evs \o r.out, G)

Closing(r, k) == Step(CloseTool(r.s, k).s, r.out \o CloseTool(r.s, k).out)

(* finalize_tools leaves no call open.                                     *)
LEMMA CloseToolsClose ==
  ASSUME NEW z \in State
  PROVE  ToolsClosed(z, CloseTools(z), MaxCalls)
<1> DEFINE N == MaxCalls
<1>1. N \in Nat /\ MaxCalls = N /\ DOMAIN z.tools \subseteq 0 .. N - 1
  BY SoundChunks, StateOf, ToolsOf
<1> HIDE DEF N
<1>2. PICK f : Closes(z, N, f) /\ CloseTools(z) = f[N]
  BY <1>1, ClosedByCall
<1>3. f[0] = Step(z, <<>>)
  BY <1>1, <1>2 DEF Closes
<1>4. ASSUME NEW n \in 0 .. N - 1
      PROVE  f[n + 1] = IF n \in DOMAIN z.tools THEN Closing(f[n], n) ELSE f[n]
  <2>1. n + 1 \in 0 .. N /\ n + 1 # 0 /\ (n + 1) - 1 = n
    BY <1>1
  <2>2. f = [k \in 0 .. N |->
               IF k = 0 THEN Step(z, <<>>)
               ELSE IF k - 1 \in DOMAIN z.tools THEN Closing(f[k - 1], k - 1)
               ELSE f[k - 1]]
    BY <1>2 DEF Closes, Then, Closing
  <2> QED BY <2>1, <2>2
<1> DEFINE P == {n \in 0 .. N : ToolsClosed(z, f[n], n)}
<1>5. 0 \in P
  <2>1. f[0].s = z /\ f[0].out = <<>>
    BY <1>3 DEF Step
  <2>2. \A j \in DOMAIN z.tools : ~ (j < 0)
    BY <1>1
  <2>3. OnlyTools(z, z, 0)
    BY <2>2 DEF OnlyTools
  <2>4. f[0].out \in Seq(Says) /\ \A evs \in Seq(Says) : evs \o f[0].out = evs
    BY <2>1, Nothing
  <2>5. ToolsClosed(z, f[0], 0)
    BY <2>1, <2>3, <2>4 DEF ToolsClosed
  <2> QED BY <1>1, <2>5
<1>6. ASSUME NEW n \in 0 .. N - 1, n \in P PROVE n + 1 \in P
  <2> DEFINE r == f[n]
             m == CloseTool(r.s, n)
  <2>1. /\ OnlyTools(z, r.s, n) /\ r.out \in Seq(Says) /\ n + 1 \in 0 .. N
        /\ \A evs \in Seq(Says) : \A G : Good(z, evs, G) => Good(r.s, evs \o r.out, G)
    BY <1>1, <1>6 DEF ToolsClosed
  <2>2. CASE n \notin DOMAIN z.tools
    <3>1. \A j \in DOMAIN z.tools : j < n + 1 => j < n
      BY <1>1, <2>2
    <3>2. OnlyTools(z, r.s, n + 1)
      BY <2>1, <3>1 DEF OnlyTools
    <3> QED BY <1>4, <2>1, <2>2, <3>2 DEF ToolsClosed
  <2>3. CASE n \in DOMAIN z.tools
    <3> DEFINE both == Step(m.s, r.out \o m.out)
    <3>1. f[n + 1] = both
      BY <1>4, <2>3 DEF Closing
    <3>7. both.s = m.s /\ both.out = r.out \o m.out
      BY DEF Step
    <3> HIDE DEF both
    <3> HIDE DEF r
    <3>2. r.s \in State /\ n \in DOMAIN r.s.tools
      BY <2>1, <2>3 DEF OnlyTools
    <3>3. /\ OnlyTool(r.s, m.s, n) /\ m.out \in Seq(Says)
          /\ \A evs \in Seq(Says) : \A G : Good(r.s, evs, G) => Good(m.s, evs \o m.out, G)
      BY <3>2, CloseToolDone
    <3> HIDE DEF m
    <3>4. OnlyTools(z, m.s, n + 1)
      <4>1. ASSUME NEW j \in DOMAIN z.tools, j < n + 1 PROVE m.s.tools[j].done
        <5>1. CASE j = n
          BY <3>3, <5>1 DEF OnlyTool
        <5>2. CASE j # n
          <6>1. j < n
            BY <1>1, <4>1, <5>2
          <6> QED BY <2>1, <3>3, <5>2, <6>1 DEF OnlyTool, OnlyTools
        <5> QED BY <5>1, <5>2
      <4> QED BY <2>1, <3>3, <4>1 DEF OnlyTool, OnlyTools
    <3>5. ASSUME NEW evs \in Seq(Says), NEW G, Good(z, evs, G)
          PROVE  Good(m.s, evs \o (r.out \o m.out), G)
      <4>1. Good(r.s, evs \o r.out, G) /\ evs \o r.out \in Seq(Says)
        BY <2>1, <3>5
      <4>2. Good(m.s, (evs \o r.out) \o m.out, G)
        BY <3>3, <4>1
      <4> QED BY <2>1, <3>3, <4>2, Rejoined
    <3>6. r.out \o m.out \in Seq(Says)
      BY <2>1, <3>3
    <3>8. ToolsClosed(z, both, n + 1)
      BY <3>4, <3>5, <3>6, <3>7 DEF ToolsClosed
    <3> QED BY <2>1, <3>1, <3>8
  <2> QED BY <2>2, <2>3
<1> HIDE DEF P
<1>7. 0 .. N \subseteq P
  BY <1>1, <1>5, <1>6, UpTo
<1>8. N \in P
  BY <1>1, <1>7
<1> QED BY <1>1, <1>2, <1>8 DEF P

-----------------------------------------------------------------------------
(* finalize.                                                               *)

(* What finalize does before it says that the response is completed.       *)
Wrapped(z) ==
  Then(Then(Then(Then(EnsureStarted(z), FlushThink), CloseReasoning), CloseText), CloseTools)

AllDone(z) == \A x \in AllItems : Marks(z)[x].added => Marks(z)[x].done

(* No item is open when the reasoning, the message and the calls are done. *)
LEMMA AllDoneFrom ==
  ASSUME NEW z \in State, z.reasoning.added => z.reasoning.done,
         z.message.added => z.message.done, \A k \in DOMAIN z.tools : z.tools[k].done
  PROVE  AllDone(z)
<1>1. ASSUME NEW x \in AllItems, Marks(z)[x].added PROVE Marks(z)[x].done
  <2>1. CASE x = Reasoning
    BY <1>1, <2>1, MarksOf, MarkFields
  <2>2. CASE x = Message
    BY <1>1, <2>2, MarksOf, MarkFields
  <2>3. CASE \E k \in 0 .. MaxCalls - 1 : x = Tool(k)
    <3>1. PICK k \in 0 .. MaxCalls - 1 : x = Tool(k)
      BY <2>3
    <3>2. Marks(z)[x] = IF k \in DOMAIN z.tools THEN Mark(z.tools[k]) ELSE Unmarked
      BY <3>1, MarksOf
    <3> QED BY <1>1, <3>2, MarkFields DEF Unmarked
  <2> QED BY <2>1, <2>2, <2>3 DEF AllItems
<1> QED BY <1>1 DEF AllDone

(* finalize closes what is open, and keeps the books.                      *)
LEMMA WrappedUp ==
  ASSUME NEW z \in State, NEW evs \in Seq(Says), NEW G \in SUBSET Deltas,
         AllOpen(z), Good(z, evs, G)
  PROVE  LET r == Wrapped(z)
         IN  /\ r.s \in State /\ r.out \in Seq(Says) /\ r.s.finish = z.finish
             /\ AllDone(r.s) /\ Good(r.s, evs \o r.out, G)
<1> DEFINE r1 == EnsureStarted(z)
           n2 == FlushThink(r1.s)
           r2 == Step(n2.s, r1.out \o n2.out)
           n3 == CloseReasoning(r2.s)
           r3 == Step(n3.s, r2.out \o n3.out)
           n4 == CloseText(r3.s)
           r4 == Step(n4.s, r3.out \o n4.out)
           n5 == CloseTools(r4.s)
           r5 == Step(n5.s, r4.out \o n5.out)
<1>1. Wrapped(z) = r5
  BY DEF Wrapped, Then
<1>2. Kept(z, r1, {}) /\ r1.s \in State
  BY EnsureStartedKept DEF Kept
<1> HIDE DEF r1
<1>3. Kept(r1.s, n2, {})
  BY <1>2, FlushThinkKept
<1> HIDE DEF n2
<1>4. Kept(z, r2, {})
  BY <1>2, <1>3, KeptBoth
<1>5. r2.s \in State
  BY <1>4 DEF Kept
<1> HIDE DEF r2
<1>6. Kept(r2.s, n3, {})
  BY <1>5, CloseReasoningKept
<1>7. n3.s.reasoning.added => n3.s.reasoning.done
  BY <1>5, Slots, CloseItemGood DEF CloseReasoning
<1> HIDE DEF n3
<1>8. r3.s = n3.s
  BY DEF Step
<1>9. Kept(z, r3, {})
  BY <1>4, <1>6, KeptBoth
<1> HIDE DEF r3
<1>10. /\ r3.s \in State /\ r3.out \in Seq(Says) /\ r3.s.finish = z.finish
       /\ Good(r3.s, evs \o r3.out, G)
       /\ r3.s.reasoning.added => r3.s.reasoning.done
  <2>1. G \cup {} = G
    OBVIOUS
  <2> QED BY <1>7, <1>8, <1>9, <2>1 DEF Kept
<1>11. /\ n4.s \in State /\ n4.out \in Seq(Says) /\ n4.s.finish = r3.s.finish
       /\ n4.s.reasoning = r3.s.reasoning /\ (n4.s.message.added => n4.s.message.done)
       /\ \A e \in Seq(Says) : \A H : Good(r3.s, e, H) => Good(n4.s, e \o n4.out, H)
  BY <1>10, Slots, CloseItemGood DEF CloseText
<1> HIDE DEF n4
<1>12. r4.s = n4.s /\ r4.out = r3.out \o n4.out
  BY DEF Step
<1> HIDE DEF r4
<1>13. r4.s \in State /\ r4.out \in Seq(Says)
  BY <1>10, <1>11, <1>12
<1>14. ToolsClosed(r4.s, n5, MaxCalls)
  BY <1>13, CloseToolsClose
<1> HIDE DEF n5
<1>15. /\ OnlyTools(r4.s, n5.s, MaxCalls) /\ n5.out \in Seq(Says)
       /\ \A e \in Seq(Says) : \A H : Good(r4.s, e, H) => Good(n5.s, e \o n5.out, H)
  BY <1>14 DEF ToolsClosed
<1>16. r5.s = n5.s /\ r5.out = r4.out \o n5.out
  BY DEF Step
<1> HIDE DEF r5
<1>17. r5.s \in State /\ r5.s.finish = z.finish /\ r5.out \in Seq(Says)
  BY <1>10, <1>11, <1>12, <1>13, <1>15, <1>16 DEF OnlyTools
<1>18. Good(r5.s, evs \o r5.out, G)
  <2>1. evs \o r3.out \in Seq(Says) /\ evs \o r4.out \in Seq(Says)
    BY <1>10, <1>13
  <2>2. Good(n4.s, (evs \o r3.out) \o n4.out, G)
    BY <1>10, <1>11, <2>1
  <2>3. (evs \o r3.out) \o n4.out = evs \o r4.out
    <3>1. (evs \o r3.out) \o n4.out = evs \o (r3.out \o n4.out)
      BY <1>10, <1>11, Rejoined
    <3> QED BY <1>12, <3>1
  <2>4. Good(n5.s, (evs \o r4.out) \o n5.out, G)
    BY <1>12, <1>15, <2>1, <2>2, <2>3
  <2>5. (evs \o r4.out) \o n5.out = evs \o r5.out
    <3>1. (evs \o r4.out) \o n5.out = evs \o (r4.out \o n5.out)
      BY <1>13, <1>15, Rejoined
    <3> QED BY <1>16, <3>1
  <2> QED BY <1>16, <2>4, <2>5
<1>19. AllDone(r5.s)
  <2>1. /\ r5.s.reasoning = r3.s.reasoning /\ r5.s.message = n4.s.message
        /\ DOMAIN r5.s.tools = DOMAIN r4.s.tools
        /\ \A j \in DOMAIN r4.s.tools : j < MaxCalls => r5.s.tools[j].done
    BY <1>11, <1>12, <1>15, <1>16 DEF OnlyTools
  <2>2. \A j \in DOMAIN r4.s.tools : j < MaxCalls
    <3>1. DOMAIN r4.s.tools \subseteq 0 .. MaxCalls - 1 /\ MaxCalls \in Nat
      BY <1>13, StateOf, ToolsOf, SoundChunks
    <3> QED BY <3>1
  <2> QED BY <1>10, <1>11, <1>17, <2>1, <2>2, AllDoneFrom
<1> QED BY <1>1, <1>17, <1>18, <1>19

-----------------------------------------------------------------------------
(* completed_output_items.                                                 *)

HasIndex(z, i) == \E j \in DOMAIN z.output : z.output[j].index = i
TheEntry(z, i) == CHOOSE e \in Range(z.output) : e.index = i

(* The lists of the entries with the indexes below each number.            *)
Sorts(z, n, f) ==
  f = [k \in 0 .. n |->
         IF k = 0 THEN <<>>
         ELSE IF HasIndex(z, k - 1) THEN Append(f[k - 1], TheEntry(z, k - 1))
         ELSE f[k - 1]]

(* completed_output_items goes index by index: its function exists.        *)
LEMMA SortedByIndex ==
  ASSUME NEW z, NEW N \in Nat, z.next = N
  PROVE  \E f : Sorts(z, N, f) /\ CompletedOutput(z) = f[N]
<1> DEFINE More(old, n) == IF HasIndex(z, n - 1) THEN Append(old, TheEntry(z, n - 1)) ELSE old
           Rows(f, m) == f = [k \in 0 .. m |-> IF k = 0 THEN <<>> ELSE More(f[k - 1], k)]
           P == {m \in 0 .. N : \E f : Rows(f, m)}
<1>1. 0 \in P
  <2> DEFINE g == [k \in 0 .. 0 |-> <<>>]
  <2>1. Rows(g, 0)
    <3>1. \A k \in 0 .. 0 : k = 0 /\ g[k] = <<>>
      OBVIOUS
    <3>2. g = [k \in 0 .. 0 |-> g[k]]
      OBVIOUS
    <3> HIDE DEF g, More
    <3>3. ASSUME NEW k \in 0 .. 0
          PROVE  g[k] = IF k = 0 THEN <<>> ELSE More(g[k - 1], k)
      BY <3>1
    <3> QED BY <3>2, <3>3
  <2> HIDE DEF Rows, g
  <2> QED BY <2>1
<1>2. ASSUME NEW m \in 0 .. N - 1, m \in P PROVE m + 1 \in P
  <2>1. PICK f : Rows(f, m)
    BY <1>2
  <2> DEFINE g == [k \in 0 .. m + 1 |-> IF k = m + 1 THEN More(f[m], m + 1) ELSE f[k]]
  <2>2. Rows(g, m + 1)
    <3> HIDE DEF More
    <3>1. ASSUME NEW k \in 0 .. m + 1
          PROVE  g[k] = IF k = 0 THEN <<>> ELSE More(g[k - 1], k)
      <4>1. CASE k = m + 1
        <5>1. g[k - 1] = f[m]
          BY <4>1
        <5> QED BY <4>1, <5>1
      <4>2. CASE k \in 0 .. m
        <5>1. g[k] = f[k] /\ (k # 0 => g[k - 1] = f[k - 1])
          BY <4>2
        <5>2. f[k] = IF k = 0 THEN <<>> ELSE More(f[k - 1], k)
          BY <2>1, <4>2
        <5> QED BY <5>1, <5>2
      <4> QED BY <4>1, <4>2
    <3>2. g = [k \in 0 .. m + 1 |-> g[k]]
      OBVIOUS
    <3> HIDE DEF g
    <3> QED BY <3>1, <3>2
  <2> HIDE DEF Rows, g
  <2> QED BY <2>2
<1>3. \E f : Rows(f, N)
  <2> HIDE DEF P
  <2>1. 0 .. N \subseteq P
    BY <1>1, <1>2, UpTo
  <2>2. N \in P
    BY <2>1
  <2> QED BY <2>2 DEF P
<1> DEFINE t == CHOOSE f : Rows(f, N)
<1>4. Rows(t, N)
  <2> HIDE DEF Rows
  <2> QED BY <1>3
<1>5. CompletedOutput(z) = t[N]
  BY DEF CompletedOutput, HasIndex, TheEntry
<1> HIDE DEF t
<1> QED BY <1>4, <1>5 DEF Sorts

(* A list of some entries in the order of their indexes, all below n.      *)
InOrder(z, list, n) ==
  /\ list \in Seq(Range(z.output))
  /\ \A j \in DOMAIN list : list[j].index < n
  /\ \A j, k \in DOMAIN list : j < k => list[j].index < list[k].index
  /\ \A e \in Range(z.output) : e.index < n => \E j \in DOMAIN list : list[j].index = e.index

(* It lists every entry of the output, in the order of the indexes.        *)
LEMMA OutputSorted ==
  ASSUME NEW z \in State
  PROVE  InOrder(z, CompletedOutput(z), z.next)
<1> DEFINE N == z.next
           S == Range(z.output)
<1>1. N \in Nat /\ z.next = N /\ \A e \in S : e.index \in Nat
  BY StateOf, EntryOf
<1>2. \A i : HasIndex(z, i) <=> \E e \in S : e.index = i
  BY DEF HasIndex, Range
<1>3. \A i : HasIndex(z, i) => TheEntry(z, i) \in S /\ TheEntry(z, i).index = i
  BY <1>2 DEF TheEntry
<1> HIDE DEF N
<1>4. PICK f : Sorts(z, N, f) /\ CompletedOutput(z) = f[N]
  BY <1>1, SortedByIndex
<1>5. f[0] = <<>>
  BY <1>1, <1>4 DEF Sorts
<1>6. ASSUME NEW n \in 0 .. N - 1
      PROVE  f[n + 1] = IF HasIndex(z, n) THEN Append(f[n], TheEntry(z, n)) ELSE f[n]
  <2>1. n + 1 \in 0 .. N /\ n + 1 # 0 /\ (n + 1) - 1 = n
    BY <1>1
  <2> QED BY <1>4, <2>1 DEF Sorts
<1> HIDE DEF S
<1> DEFINE P == {n \in 0 .. N : InOrder(z, f[n], n)}
<1>7. 0 \in P
  <2>1. <<>> \in Seq(S) /\ DOMAIN <<>> = {}
    OBVIOUS
  <2>2. \A e \in S : ~ (e.index < 0)
    BY <1>1
  <2>3. InOrder(z, <<>>, 0)
    BY <2>1, <2>2 DEF InOrder, S
  <2> QED BY <1>1, <1>5, <2>3
<1>8. ASSUME NEW n \in 0 .. N - 1, n \in P PROVE n + 1 \in P
  <2> DEFINE old == f[n]
             list == f[n + 1]
             new == TheEntry(z, n)
  <2>1. /\ old \in Seq(S) /\ \A j \in DOMAIN old : old[j].index < n
        /\ \A j, k \in DOMAIN old : j < k => old[j].index < old[k].index
        /\ \A e \in S : e.index < n => \E j \in DOMAIN old : old[j].index = e.index
    BY <1>8 DEF InOrder, S
  <2>2. list = IF HasIndex(z, n) THEN Append(old, new) ELSE old
    BY <1>6
  <2>3. n + 1 \in 0 .. N /\ n \in Nat
    BY <1>1
  <2>4. \A j \in DOMAIN old : old[j].index \in Nat
    BY <1>1, <2>1
  <2> HIDE DEF old, list
  <2>5. CASE ~HasIndex(z, n)
    <3>1. \A e \in S : e.index # n
      BY <1>2, <2>5 DEF S
    <3>2. \A j \in DOMAIN old : old[j].index < n + 1
      BY <2>1, <2>3, <2>4
    <3>3. \A e \in S : e.index < n + 1 => e.index < n
      BY <1>1, <2>3, <3>1
    <3>4. InOrder(z, old, n + 1)
      BY <2>1, <3>2, <3>3 DEF InOrder, S
    <3> QED BY <2>2, <2>3, <2>5, <3>4 DEF list
  <2>6. CASE HasIndex(z, n)
    <3>1. new \in S /\ new.index = n
      BY <1>3, <2>6 DEF S
    <3> HIDE DEF new
    <3>2. list = Append(old, new)
      BY <2>2, <2>6
    <3>3. /\ Len(old) \in Nat /\ DOMAIN old = 1 .. Len(old) /\ list \in Seq(S)
          /\ DOMAIN list = 1 .. Len(old) + 1 /\ list[Len(old) + 1] = new
          /\ \A j \in 1 .. Len(old) : list[j] = old[j]
      BY <2>1, <3>1, <3>2
    <3> HIDE DEF list
    <3>4. \A j \in DOMAIN list : list[j].index < n + 1
      BY <2>1, <2>3, <2>4, <3>1, <3>3
    <3>5. ASSUME NEW j \in DOMAIN list, NEW k \in DOMAIN list, j < k
          PROVE  list[j].index < list[k].index
      <4>1. j \in DOMAIN old
        BY <3>3, <3>5
      <4>2. CASE k \in DOMAIN old
        BY <2>1, <3>3, <3>5, <4>1, <4>2
      <4>3. CASE k = Len(old) + 1
        BY <2>1, <3>1, <3>3, <4>1, <4>3
      <4> QED BY <3>3, <4>2, <4>3
    <3>6. ASSUME NEW e \in S, e.index < n + 1
          PROVE  \E j \in DOMAIN list : list[j].index = e.index
      <4>1. CASE e.index = n
        BY <3>1, <3>3, <4>1
      <4>2. CASE e.index # n
        <5>1. e.index < n
          BY <1>1, <2>3, <3>6, <4>2
        <5> QED BY <2>1, <3>3, <5>1
      <4> QED BY <4>1, <4>2
    <3>7. InOrder(z, list, n + 1)
      BY <3>3, <3>4, <3>5, <3>6 DEF InOrder, S
    <3> QED BY <2>3, <3>7 DEF list
  <2> QED BY <2>5, <2>6
<1> HIDE DEF P
<1>9. 0 .. N \subseteq P
  BY <1>1, <1>7, <1>8, UpTo
<1>10. N \in P
  BY <1>1, <1>9
<1> QED BY <1>1, <1>4, <1>10 DEF P

(* What is said of a list when all items are done.                         *)
AddedIn(evs) == {evs[j].item : j \in {a \in DOMAIN evs : evs[a].type = "item.added"}}

ListSays(evs, list, G) ==
  /\ AddedIn(evs) = {list[j].item : j \in DOMAIN list}
  /\ \A j, k \in DOMAIN list : j < k => list[j].index < list[k].index
  /\ \A j \in DOMAIN list : SaysTheSame(list[j], Shown(evs, list[j].item), G)

(* When all items are done, the output lists the items the client was      *)
(* shown, with the text it was shown of each: no two items share an index. *)
LEMMA OutputSays ==
  ASSUME NEW z \in State, NEW evs \in Seq(Says), NEW G, Good(z, evs, G), AllDone(z)
  PROVE  ListSays(evs, CompletedOutput(z), G)
<1> DEFINE list == CompletedOutput(z)
           m == Marks(z)
<1>1. InOrder(z, list, z.next)
  BY OutputSorted
<1> HIDE DEF list
<1>2. ASSUME NEW j \in DOMAIN list
      PROVE  /\ list[j] \in Range(z.output) /\ list[j].item \in AllItems
             /\ EntryHolds(z, list[j], evs, G)
  <2>1. list \in Seq(Range(z.output))
    BY <1>1 DEF InOrder
  <2>2. list[j] \in Range(z.output)
    BY <2>1
  <2> QED BY <2>2, EntryOf DEF Good, Books
<1>3. ASSUME NEW x \in AllItems, m[x].added
      PROVE  /\ m[x].index \in 0 .. z.next - 1
             /\ \E a \in DOMAIN evs :
                  evs[a].type = "item.added" /\ evs[a].item = x /\ evs[a].index = m[x].index
  BY <1>3 DEF Good, Trail
<1>4. ASSUME NEW x \in AllItems, NEW y \in AllItems, m[x].added, m[y].added,
             m[x].index = m[y].index
      PROVE  x = y
  <2>1. PICK a \in DOMAIN evs :
          evs[a].type = "item.added" /\ evs[a].item = x /\ evs[a].index = m[x].index
    BY <1>3, <1>4
  <2>2. PICK b \in DOMAIN evs :
          evs[b].type = "item.added" /\ evs[b].item = y /\ evs[b].index = m[y].index
    BY <1>3, <1>4
  <2>3. a = b
    BY <1>4, <2>1, <2>2 DEF Good, Trail
  <2> QED BY <2>1, <2>2, <2>3
<1>5. ASSUME NEW a \in DOMAIN evs, evs[a].type = "item.added"
      PROVE  \E j \in DOMAIN list : list[j].item = evs[a].item
  <2> DEFINE x == evs[a].item
  <2>1. evs[a] \in Says
    OBVIOUS
  <2>2. x \in AllItems /\ x # Response
    BY <1>5, <2>1, SaysTypes, Distinct
  <2>3. m[x].added
    BY <2>2 DEF Good, Trail
  <2>4. m[x].done
    BY <2>2, <2>3 DEF AllDone
  <2>5. PICK e \in Range(z.output) : e.item = x
    BY <2>2, <2>3, <2>4 DEF Good, Books
  <2>6. e.index = m[x].index
    BY <2>5 DEF Good, Books, EntryHolds
  <2>7. z.next \in Nat
    BY StateOf
  <2>8. e.index < z.next
    BY <1>3, <2>2, <2>3, <2>6, <2>7
  <2>9. PICK j \in DOMAIN list : list[j].index = e.index
    BY <1>1, <2>8 DEF InOrder
  <2>10. /\ list[j].item \in AllItems /\ m[list[j].item].added
         /\ m[list[j].item].index = m[x].index
    BY <1>2, <2>6, <2>9 DEF EntryHolds
  <2>11. list[j].item = x
    BY <1>4, <2>2, <2>3, <2>10
  <2> QED BY <2>11
<1>6. ASSUME NEW j \in DOMAIN list
      PROVE  \E a \in DOMAIN evs : evs[a].type = "item.added" /\ evs[a].item = list[j].item
  <2>1. list[j].item \in AllItems /\ m[list[j].item].added
    BY <1>2 DEF EntryHolds
  <2> QED BY <1>3, <2>1
<1>7. AddedIn(evs) = {list[j].item : j \in DOMAIN list}
  <2>1. AddedIn(evs) \subseteq {list[j].item : j \in DOMAIN list}
    BY <1>5 DEF AddedIn
  <2>2. {list[j].item : j \in DOMAIN list} \subseteq AddedIn(evs)
    BY <1>6 DEF AddedIn
  <2> QED BY <2>1, <2>2
<1>8. \A j \in DOMAIN list : SaysTheSame(list[j], Shown(evs, list[j].item), G)
  BY <1>2 DEF EntryHolds
<1>9. \A j, k \in DOMAIN list : j < k => list[j].index < list[k].index
  BY <1>1 DEF InOrder
<1>10. ListSays(evs, list, G)
  BY <1>7, <1>8, <1>9 DEF ListSays
<1> QED BY <1>10 DEF list

-----------------------------------------------------------------------------
(* A list before the first of some of its places.                          *)

LEMMA BeforeNone ==
  ASSUME NEW list
  PROVE  Before(list, {}) = list
BY DEF Before

(* Before the first of some places that all lie behind a list is the list. *)
LEMMA BeforeFirst ==
  ASSUME NEW S, NEW x \in Seq(S), NEW y, IsList(y), NEW places,
         places \subseteq 1 .. Len(x) + Len(y), Len(x) + 1 \in places,
         \A i \in places : i >= Len(x) + 1
  PROVE  Before(x \o y, places) = x
<1>1. IsList(x) /\ Len(x) \in Nat /\ Len(y) \in Nat
  BY ListFrom, ListIs
<1>2. places \in SUBSET Nat /\ places # {}
  BY <1>1
<1>3. Min(places) \in places /\ \A i \in places : Min(places) <= i
  BY <1>2, LeastOf
<1>4. Min(places) = Len(x) + 1
  <2> DEFINE i == Min(places)
  <2>1. i \in places /\ i \in Nat /\ i <= Len(x) + 1 /\ i >= Len(x) + 1
    BY <1>2, <1>3
  <2> HIDE DEF i
  <2>2. i = Len(x) + 1
    BY <1>1, <2>1
  <2> QED BY <2>2 DEF i
<1>5. Before(x \o y, places) = SubSeq(x \o y, 1, Len(x))
  BY <1>1, <1>2, <1>4 DEF Before
<1>6. SubSeq(x \o y, 1, Len(x)) = x
  <2> DEFINE T == S \cup Range(y)
  <2>1. x \in Seq(T) /\ y \in Seq(T)
    BY SeqMonotonic DEF IsList
  <2> HIDE DEF T
  <2>2. SubSeq(x \o y, 1, Len(x)) = SubSeq(x, 1, Len(x))
    BY <1>1, <2>1, SubSeqOfConcat1
  <2> QED BY <2>1, <2>2, SubSeqFull
<1> QED BY <1>5, <1>6

-----------------------------------------------------------------------------
(* The invariant of a stream.                                              *)

(* An item is added before anything is said of it, once and under an index *)
(* of its own, and is done at most once.                                   *)
SaidInOrder(evs) ==
  /\ \A i \in DOMAIN evs : evs[i].item # Response =>
       \E a \in 1 .. i : /\ evs[a].type = "item.added" /\ evs[a].item = evs[i].item
                        /\ evs[a].index = evs[i].index
  /\ \A i, j \in DOMAIN evs : i # j /\ evs[i].type = evs[j].type =>
       /\ evs[i].type = "item.added" =>
            evs[i].item # evs[j].item /\ evs[i].index # evs[j].index
       /\ evs[i].type = "item.done" => evs[i].item # evs[j].item

LEMMA GoodInOrder ==
  ASSUME NEW z, NEW evs, NEW G, Good(z, evs, G)
  PROVE  SaidInOrder(evs)
BY DEF Good, Trail, SaidInOrder

(* The books say nothing of the reason why the answer is finished.         *)
LEMMA GoodAside ==
  ASSUME NEW z \in State, NEW y \in State, y.next = z.next, y.reasoning = z.reasoning,
         y.message = z.message, y.output = z.output, y.tools = z.tools
  PROVE  /\ AllOpen(z) => AllOpen(y)
         /\ \A evs, G : Good(z, evs, G) => Good(y, evs, G)
<1>1. AllOpen(z) => AllOpen(y)
  BY DEF AllOpen
<1>2. Marks(y) = Marks(z)
  BY DEF Marks, MarkOf
<1>3. ASSUME NEW evs, NEW G, Good(z, evs, G) PROVE Good(y, evs, G)
  <2>1. Shows(y, evs, G)
    BY <1>3 DEF Good, Shows, CallShows
  <2>2. Named(y, G)
    BY <1>3 DEF Good, Named, CallNamed
  <2>3. Books(y, evs, G)
    BY <1>2, <1>3 DEF Good, Books, EntryHolds
  <2> QED BY <1>2, <1>3, <2>1, <2>2, <2>3 DEF Good
<1> QED BY <1>1, <1>3

(* The end of a response says what was shown.                              *)
Status(z) == IF z.finish = "length" THEN "incomplete" ELSE "completed"

(* What was shown until then is what the completed response says.          *)
LEMMA FinalizeEnds ==
  ASSUME NEW z \in State, ~z.completed, AllOpen(z),
         NEW evs \in Seq(Says), NEW G \in SUBSET Deltas, Good(z, evs, G)
  PROVE  LET r == Finalize(z)
         IN  /\ r.s \in State /\ r.s.completed
             /\ \E out, last :
                  /\ out \in Seq(Says) /\ r.out = out \o <<last>> /\ last.type = "completed"
                  /\ last.status = Status(z)
                  /\ SaidInOrder(evs \o out) /\ ListSays(evs \o out, last.output, G)
<1> DEFINE w == Wrapped(z)
           y == w.s
           last == [type |-> "completed", item |-> Response, index |-> 0,
                    text |-> <<>>, status |-> Status(z), output |-> CompletedOutput(y)]
           done == [y EXCEPT !.completed = TRUE]
           r == Step(done, Append(w.out, last))
<1>1. Finalize(z) = r
  BY DEF Finalize, Wrapped, Status
<1>2. r.s = done /\ r.out = Append(w.out, last)
  BY DEF Step
<1> HIDE DEF r, w
<1>3. y \in State /\ w.out \in Seq(Says) /\ AllDone(y) /\ Good(y, evs \o w.out, G)
  BY WrappedUp DEF w
<1>4. done \in State /\ done.completed
  BY <1>3 DEF State
<1>5. last.type = "completed" /\ last.status = Status(z) /\ last.output = CompletedOutput(y)
  OBVIOUS
<1> HIDE DEF last, done
<1>6. evs \o w.out \in Seq(Says)
  BY <1>3
<1>7. SaidInOrder(evs \o w.out) /\ ListSays(evs \o w.out, last.output, G)
  BY <1>3, <1>5, <1>6, GoodInOrder, OutputSays
<1>8. r.out = w.out \o <<last>>
  <2>1. IsList(w.out)
    BY <1>3, ListFrom
  <2> QED BY <1>2, <2>1, Lists
<1> QED BY <1>1, <1>2, <1>3, <1>4, <1>5, <1>7, <1>8

-----------------------------------------------------------------------------
(* The invariant of a stream: the books are kept until the response is     *)
(* completed or failed, and nothing that comes later changes what was said *)
(* until then.                                                             *)

Running ==
  /\ ~s.completed /\ phase = "open" /\ AllOpen(s)
  /\ events \in Seq(Says) /\ received \in Seq(Chunks)
  /\ Good(s, events, CallsIn(received))
  /\ s.finish # Absent => \E j \in DOMAIN received : received[j].finish # Absent

(* The client was told why with the event last, when it had been sent said *)
(* and the upstream had sent heard.                                        *)
Ending(said, last, heard) ==
  /\ last.type \in Terminal /\ SaidInOrder(said)
  /\ last.type = "completed" =>
       /\ ListSays(said, last.output, CallsIn(heard))
       /\ last.status = "completed" =>
            \E j \in DOMAIN received : received[j] = Absent \/ received[j].finish # Absent

OverWith(said, last, more, heard, rest) ==
  /\ said \in Seq(Says) /\ heard \in Seq(Chunks) /\ rest \in Seq(Chunks \cup {Absent})
  /\ events = said \o (<<last>> \o more) /\ received = heard \o rest
  /\ IsList(more) /\ \A i \in DOMAIN more : more[i].type # "completed"
  /\ IF rest = <<>> THEN phase # "open" ELSE rest[1] = Absent
  /\ Ending(said, last, heard)

Over == s.completed /\ \E said, last, more, heard, rest : OverWith(said, last, more, heard, rest)

StreamInv == s \in State /\ (Running \/ Over)

(* The places of a list, an element and a list after it.                   *)
LEMMA SaidAndMore ==
  ASSUME NEW said \in Seq(Says), NEW last, NEW more, IsList(more)
  PROVE  LET evs == said \o (<<last>> \o more)
             n == Len(said)
         IN  /\ n \in Nat /\ Len(more) \in Nat /\ DOMAIN evs = 1 .. n + (1 + Len(more))
             /\ \A i \in 1 .. n : evs[i] = said[i] /\ said[i] \in Says
             /\ evs[n + 1] = last
             /\ IsList(said) /\ IsList(<<last>> \o more) /\ Len(<<last>> \o more) = 1 + Len(more)
             /\ IsList(evs)
<1> DEFINE tail == <<last>> \o more
           evs == said \o tail
           n == Len(said)
           m == Len(more)
<1>1. IsList(said) /\ n \in Nat /\ DOMAIN said = 1 .. n /\ m \in Nat /\ DOMAIN more = 1 .. m
      /\ \A i \in 1 .. n : said[i] \in Says
  BY ListFrom, ListIs
<1>2. IsList(<<last>>) /\ Len(<<last>>) = 1 /\ <<last>>[1] = last
  BY Lists
<1>3. /\ IsList(tail) /\ Len(tail) = 1 + m /\ tail[1] = last
      /\ \A i \in 1 .. m : tail[1 + i] = more[i]
  BY <1>2, Joined
<1> HIDE DEF tail
<1>4. /\ IsList(evs) /\ DOMAIN evs = 1 .. n + (1 + m)
      /\ \A i \in 1 .. n : evs[i] = said[i]
      /\ \A i \in 1 .. 1 + m : evs[n + i] = tail[i]
  <2>1. /\ IsList(evs) /\ DOMAIN evs = 1 .. Len(said) + Len(tail)
        /\ \A i \in 1 .. Len(said) : evs[i] = said[i]
        /\ \A i \in 1 .. Len(tail) : evs[Len(said) + i] = tail[i]
    <3> HIDE DEF n, m
    <3>1. IsList(said) /\ IsList(tail)
      BY <1>1, <1>3
    <3>2. IsList(said \o tail) /\ DOMAIN (said \o tail) = 1 .. Len(said) + Len(tail)
      BY <3>1, Joined
    <3>3. \A i \in 1 .. Len(said) : (said \o tail)[i] = said[i]
      BY <3>1, Joined
    <3>4. \A i \in 1 .. Len(tail) : (said \o tail)[Len(said) + i] = tail[i]
      BY <3>1, Joined
    <3> QED BY <3>2, <3>3, <3>4
  <2> QED BY <1>3, <2>1
<1> HIDE DEF evs, n, m
<1>5. evs[n + 1] = last
  BY <1>1, <1>3, <1>4
<1> QED BY <1>1, <1>3, <1>4, <1>5 DEF tail, evs, n, m

LEMMA LaterIsMore ==
  ASSUME NEW said \in Seq(Says), NEW last, NEW more, IsList(more),
         NEW i \in DOMAIN (said \o (<<last>> \o more)), i > Len(said) + 1
  PROVE  \E j \in DOMAIN more : (said \o (<<last>> \o more))[i] = more[j]
<1> DEFINE tail == <<last>> \o more
           n == Len(said)
           m == Len(more)
           j == i - (n + 1)
<1>1. IsList(said) /\ n \in Nat /\ m \in Nat /\ DOMAIN more = 1 .. m
  BY ListFrom, ListIs
<1>2. IsList(<<last>>) /\ Len(<<last>>) = 1
  BY Lists
<1>3. IsList(tail) /\ Len(tail) = 1 + m /\ \A k \in 1 .. m : tail[1 + k] = more[k]
  BY <1>2, Joined
<1> HIDE DEF tail
<1>4. DOMAIN (said \o tail) = 1 .. n + (1 + m)
  <2>1. DOMAIN (said \o tail) = 1 .. Len(said) + Len(tail)
    BY <1>1, <1>3, Joined
  <2> QED BY <1>3, <2>1
<1>5. \A k \in 1 .. 1 + m : (said \o tail)[n + k] = tail[k]
  <2>1. \A k \in 1 .. Len(tail) : (said \o tail)[Len(said) + k] = tail[k]
    BY <1>1, <1>3, Joined
  <2> QED BY <1>3, <2>1
<1>6. i \in DOMAIN (said \o tail) /\ i > n + 1
  BY DEF tail
<1> HIDE DEF n, m
<1>7. j \in 1 .. m /\ 1 + j \in 1 .. 1 + m /\ n + (1 + j) = i
  <2>1. n \in Nat /\ m \in Nat /\ i \in 1 .. n + (1 + m) /\ i > n + 1
    BY <1>1, <1>4, <1>6
  <2> QED BY <2>1
<1> HIDE DEF j
<1>8. (said \o tail)[i] = tail[1 + j] /\ tail[1 + j] = more[j]
  BY <1>3, <1>5, <1>7
<1>9. \E k \in DOMAIN more : (said \o tail)[i] = more[k]
  BY <1>1, <1>7, <1>8
<1> QED BY <1>9 DEF tail

(* The deltas of the chunks are those of the chunks before and of the      *)
(* last.                                                                   *)
LEMMA CallsInChunks ==
  /\ CallsIn(<<>>) = {}
  /\ \A heard \in Seq(Chunks) : CallsIn(heard) \in SUBSET Deltas
  /\ \A heard \in Seq(Chunks), c \in Chunks :
       CallsIn(Append(heard, c)) = CallsIn(heard) \cup Range(c.calls)
<1>1. CallsIn(<<>>) = {}
  BY DEF CallsIn
<1>2. ASSUME NEW heard \in Seq(Chunks) PROVE CallsIn(heard) \in SUBSET Deltas
  <2>1. \A i \in DOMAIN heard : heard[i] \in Chunks
    OBVIOUS
  <2> QED BY <2>1 DEF CallsIn, Deltas
<1>3. ASSUME NEW heard \in Seq(Chunks), NEW c \in Chunks
      PROVE  CallsIn(Append(heard, c)) = CallsIn(heard) \cup Range(c.calls)
  <2> DEFINE new == Append(heard, c)
             n == Len(heard)
  <2>1. /\ n \in Nat /\ DOMAIN heard = 1 .. n /\ DOMAIN new = 1 .. n + 1
        /\ \A i \in 1 .. n : new[i] = heard[i]
        /\ new[n + 1] = c
    OBVIOUS
  <2> HIDE DEF new, n
  <2>2. \A i \in DOMAIN new : i \in DOMAIN heard \/ i = n + 1
    BY <2>1
  <2>3. CallsIn(new) \subseteq CallsIn(heard) \cup Range(c.calls)
    BY <2>1, <2>2 DEF CallsIn
  <2>4. CallsIn(heard) \cup Range(c.calls) \subseteq CallsIn(new)
    BY <2>1 DEF CallsIn
  <2> QED BY <2>3, <2>4 DEF new
<1> QED BY <1>1, <1>2, <1>3

-----------------------------------------------------------------------------
(* What the properties look at.                                            *)

(* Of a running stream, all was said before its end.                       *)
LEMMA AnswerRunning ==
  ASSUME s \in State, Running
  PROVE  Answer = events /\ Said = received
<1>1. \A i \in DOMAIN events : events[i].type \notin Terminal
  BY SaysTypes DEF Running
<1>2. {i \in DOMAIN events : events[i].type \in Terminal} = {}
  BY <1>1
<1>3. \A i \in DOMAIN received : received[i] # Absent
  BY SoundChunks DEF Running
<1>4. {i \in DOMAIN received : received[i] = Absent} = {}
  BY <1>3
<1> QED BY <1>2, <1>4, BeforeNone DEF Answer, Said

(* Of one that is over, what was said and heard before its end is fixed.   *)
LEMMA AnswerOver ==
  ASSUME NEW said, NEW last, NEW more, NEW heard, NEW rest,
         OverWith(said, last, more, heard, rest)
  PROVE  Answer = said /\ Said = heard
<1> DEFINE tail == <<last>> \o more
           n == Len(said)
           ends == {i \in DOMAIN events : events[i].type \in Terminal}
<1>1. /\ said \in Seq(Says) /\ IsList(more) /\ events = said \o tail /\ last.type \in Terminal
      /\ heard \in Seq(Chunks) /\ rest \in Seq(Chunks \cup {Absent}) /\ received = heard \o rest
      /\ rest # <<>> => rest[1] = Absent
  BY DEF OverWith, Ending
<1>2. /\ n \in Nat /\ Len(more) \in Nat /\ DOMAIN events = 1 .. n + (1 + Len(more))
      /\ \A i \in 1 .. n : events[i] = said[i] /\ said[i] \in Says
      /\ events[n + 1] = last
      /\ IsList(tail) /\ Len(tail) = 1 + Len(more)
  BY <1>1, SaidAndMore
<1>3. Answer = said
  <2>1. ends \subseteq 1 .. n + Len(tail) /\ n + 1 \in ends
    BY <1>1, <1>2
  <2>2. \A i \in ends : i >= n + 1
    <3>1. \A i \in 1 .. n : i \notin ends
      BY <1>2, SaysTypes
    <3> QED BY <1>2, <2>1, <3>1
  <2> HIDE DEF ends, tail
  <2>3. Before(said \o tail, ends) = said
    BY <1>1, <1>2, <2>1, <2>2, BeforeFirst
  <2> QED BY <1>1, <2>3 DEF Answer, ends
<1>4. Said = heard
  <2> DEFINE marks == {i \in DOMAIN received : received[i] = Absent}
             k == Len(heard)
  <2>1. IsList(heard) /\ IsList(rest) /\ k \in Nat /\ Len(rest) \in Nat
    BY <1>1, ListFrom, ListIs
  <2>2. \A i \in 1 .. k : heard[i] # Absent
    BY <1>1, SoundChunks
  <2>3. CASE rest = <<>>
    <3>1. received = heard
      BY <1>1, <2>1, <2>3, Lists
    <3>2. marks = {}
      BY <2>1, <2>2, <3>1, ListIs
    <3> QED BY <3>1, <3>2, BeforeNone DEF Said
  <2>4. CASE rest # <<>>
    <3>1. Len(rest) >= 1
      BY <1>1, <2>4
    <3>2. /\ DOMAIN received = 1 .. k + Len(rest)
          /\ \A i \in 1 .. k : received[i] = heard[i]
          /\ received[k + 1] = rest[1]
      <4>1. DOMAIN (heard \o rest) = 1 .. k + Len(rest)
        BY <2>1, Joined
      <4>2. \A i \in 1 .. k : (heard \o rest)[i] = heard[i]
        BY <2>1, Joined
      <4>3. \A i \in 1 .. Len(rest) : (heard \o rest)[k + i] = rest[i]
        BY <2>1, Joined
      <4> QED BY <1>1, <2>1, <3>1, <4>1, <4>2, <4>3
    <3>3. marks \subseteq 1 .. k + Len(rest) /\ k + 1 \in marks
      BY <1>1, <2>1, <2>4, <3>1, <3>2
    <3>4. \A i \in marks : i >= k + 1
      <4>1. \A i \in 1 .. k : i \notin marks
        BY <2>2, <3>2
      <4> QED BY <2>1, <3>3, <4>1
    <3> HIDE DEF marks
    <3>5. Before(heard \o rest, marks) = heard
      BY <1>1, <2>1, <3>3, <3>4, BeforeFirst
    <3> QED BY <1>1, <3>5 DEF Said, marks
  <2> QED BY <2>3, <2>4
<1> QED BY <1>3, <1>4

LEMMA EventsOver ==
  ASSUME NEW said, NEW last, NEW more, NEW heard, NEW rest,
         OverWith(said, last, more, heard, rest)
  PROVE  /\ Len(said) \in Nat /\ DOMAIN events = 1 .. Len(said) + (1 + Len(more))
         /\ \A i \in 1 .. Len(said) : events[i] = said[i] /\ said[i] \in Says
         /\ events[Len(said) + 1] = last
         /\ \A i \in DOMAIN events : i > Len(said) + 1 => \E j \in DOMAIN more : events[i] = more[j]
         /\ \A i \in DOMAIN more : more[i].type # "completed"
         /\ Len(more) \in Nat
<1>1. /\ said \in Seq(Says) /\ IsList(more) /\ events = said \o (<<last>> \o more)
      /\ \A i \in DOMAIN more : more[i].type # "completed"
  BY DEF OverWith
<1> DEFINE evs == said \o (<<last>> \o more)
<1>2. /\ Len(said) \in Nat /\ DOMAIN evs = 1 .. Len(said) + (1 + Len(more))
      /\ \A i \in 1 .. Len(said) : evs[i] = said[i] /\ said[i] \in Says
      /\ evs[Len(said) + 1] = last
      /\ Len(more) \in Nat
  BY <1>1, SaidAndMore
<1>4. \A i \in DOMAIN evs : i > Len(said) + 1 => \E j \in DOMAIN more : evs[i] = more[j]
  <2>1. said \in Seq(Says) /\ IsList(more)
    BY <1>1
  <2>2. ASSUME NEW i \in DOMAIN (said \o (<<last>> \o more)), i > Len(said) + 1
        PROVE  \E j \in DOMAIN more : (said \o (<<last>> \o more))[i] = more[j]
    BY <2>1, <2>2, LaterIsMore
  <2> QED BY <2>2
<1>3. events = evs
  BY <1>1
<1> HIDE DEF evs
<1> QED BY <1>1, <1>2, <1>3, <1>4

(* The invariant has the items in order.                                   *)
LEMMA InvInOrder ==
  ASSUME StreamInv
  PROVE  ItemsInOrder
<1>1. CASE Running
  <2>1. Answer = events
    BY <1>1, AnswerRunning DEF StreamInv
  <2>2. SaidInOrder(events)
    BY <1>1, GoodInOrder DEF Running
  <2>3. \A i \in DOMAIN events : events[i].type # "completed"
    BY <1>1, SaysTypes DEF Running, Terminal
  <2> QED BY <2>1, <2>2, <2>3 DEF ItemsInOrder, SaidInOrder
<1>2. CASE Over
  <2>1. PICK said, last, more, heard, rest : OverWith(said, last, more, heard, rest)
    BY <1>2 DEF Over
  <2>2. Answer = said /\ SaidInOrder(said)
    BY <2>1, AnswerOver DEF OverWith, Ending
  <2>3. /\ Len(said) \in Nat /\ DOMAIN events = 1 .. Len(said) + (1 + Len(more))
        /\ \A i \in 1 .. Len(said) : events[i] = said[i] /\ said[i] \in Says
        /\ \A i \in DOMAIN events : i > Len(said) + 1 => \E j \in DOMAIN more : events[i] = more[j]
        /\ \A i \in DOMAIN more : more[i].type # "completed"
        /\ Len(more) \in Nat
    BY <2>1, EventsOver
  <2>4. \A i \in 1 .. Len(said) : events[i].type # "completed"
    BY <2>3, SaysTypes DEF Terminal
  <2>5. \A i \in DOMAIN events : events[i].type = "completed" => i = Len(said) + 1
    BY <2>3, <2>4
  <2> QED BY <2>2, <2>5 DEF ItemsInOrder, SaidInOrder
<1> QED BY <1>1, <1>2 DEF StreamInv

(* And the completed response say what was shown.                          *)
LEMMA InvSaysTheSame ==
  ASSUME StreamInv
  PROVE  CompletedSaysTheSame
<1>1. CASE Running
  <2>1. \A i \in DOMAIN events : events[i].type # "completed"
    BY <1>1, SaysTypes DEF Running, Terminal
  <2> QED BY <2>1 DEF CompletedSaysTheSame
<1>2. CASE Over
  <2>1. PICK said, last, more, heard, rest : OverWith(said, last, more, heard, rest)
    BY <1>2 DEF Over
  <2>2. Answer = said /\ Said = heard /\ Ending(said, last, heard)
    BY <2>1, AnswerOver DEF OverWith
  <2>3. /\ Len(said) \in Nat /\ DOMAIN events = 1 .. Len(said) + (1 + Len(more))
        /\ \A i \in 1 .. Len(said) : events[i] = said[i] /\ said[i] \in Says
        /\ events[Len(said) + 1] = last
        /\ \A i \in DOMAIN events : i > Len(said) + 1 => \E j \in DOMAIN more : events[i] = more[j]
        /\ \A i \in DOMAIN more : more[i].type # "completed"
        /\ Len(more) \in Nat
    BY <2>1, EventsOver
  <2>4. \A i \in 1 .. Len(said) : events[i].type # "completed"
    BY <2>3, SaysTypes DEF Terminal
  <2>5. \A i \in DOMAIN events : events[i].type = "completed" => events[i] = last
    BY <2>3, <2>4
  <2> QED BY <2>2, <2>5 DEF CompletedSaysTheSame, Ending, ListSays, AddedIn
<1> QED BY <1>1, <1>2 DEF StreamInv

-----------------------------------------------------------------------------
(* The steps.                                                              *)

(* The response is completed or failed.                                    *)
LEMMA RunningEnds ==
  ASSUME NEW said \in Seq(Says), NEW last, NEW heard \in Seq(Chunks),
         NEW rest \in Seq(Chunks \cup {Absent}),
         s' \in State, s'.completed, events' = said \o <<last>>, received' = heard \o rest,
         IF rest = <<>> THEN phase' # "open" ELSE rest[1] = Absent,
         last.type \in Terminal, SaidInOrder(said),
         last.type = "completed" => ListSays(said, last.output, CallsIn(heard)),
         last.type = "completed" /\ last.status = "completed" =>
           \E j \in DOMAIN received' : received'[j] = Absent \/ received'[j].finish # Absent
  PROVE  StreamInv'
<1>1. IsList(<<>>) /\ <<last>> \o <<>> = <<last>> /\ \A i \in DOMAIN <<>> : <<>>[i].type # "completed"
  <2>1. IsList(<<>>) /\ IsList(<<last>>)
    BY Lists
  <2>2. <<last>> \o <<>> = <<last>>
    BY <2>1, Lists
  <2> QED BY <2>1, <2>2
<1>2. Ending(said, last, heard)'
  BY DEF Ending
<1>3. events' = said \o (<<last>> \o <<>>)
  BY <1>1
<1>4. OverWith(said, last, <<>>, heard, rest)'
  BY <1>1, <1>2, <1>3 DEF OverWith
<1>5. Over'
  BY <1>4 DEF Over
<1> QED BY <1>5 DEF StreamInv

(* What comes after the end changes nothing.                               *)
LEMMA OverGoesOn ==
  ASSUME Over, phase = "open", s' \in State, s'.completed,
         NEW out, IsList(out), \A i \in DOMAIN out : out[i].type # "completed",
         events' = events \o out,
         NEW add \in Seq(Chunks \cup {Absent}), received' = received \o add
  PROVE  StreamInv'
<1>1. PICK said, last, more, heard, rest : OverWith(said, last, more, heard, rest)
  BY DEF Over
<1> DEFINE U == Chunks \cup {Absent}
<1>2. /\ said \in Seq(Says) /\ heard \in Seq(Chunks) /\ rest \in Seq(U)
      /\ events = said \o (<<last>> \o more) /\ received = heard \o rest
      /\ IsList(more) /\ \A i \in DOMAIN more : more[i].type # "completed"
      /\ rest # <<>> /\ rest[1] = Absent /\ Ending(said, last, heard)
  BY <1>1 DEF OverWith
<1>3. IsList(said) /\ IsList(<<last>>) /\ IsList(heard) /\ IsList(rest) /\ IsList(add)
  BY <1>2, ListFrom, Lists
<1> DEFINE later == more \o out
           after == rest \o add
<1>4. events' = said \o (<<last>> \o later)
  <2> DEFINE one == <<last>>
             tail == one \o more
  <2>1. IsList(one) /\ IsList(more) /\ IsList(said) /\ IsList(out)
    BY <1>2, <1>3
  <2> HIDE DEF one
  <2>2. IsList(tail)
    BY <2>1, Joined
  <2>3. tail \o out = one \o (more \o out)
    BY <2>1, JoinedThrice
  <2> HIDE DEF tail
  <2>4. (said \o tail) \o out = said \o (tail \o out)
    BY <2>1, <2>2, JoinedThrice
  <2>5. events' = (said \o tail) \o out
    BY <1>2 DEF tail, one
  <2> QED BY <2>3, <2>4, <2>5 DEF one
<1>5. received' = heard \o after
  <2>1. (heard \o rest) \o add = heard \o (rest \o add)
    BY <1>3, JoinedThrice
  <2> QED BY <1>2, <2>1
<1>6. IsList(later) /\ \A i \in DOMAIN later : later[i].type # "completed"
  <2>1. IsList(later) /\ DOMAIN later = 1 .. Len(more) + Len(out)
    BY <1>2, Joined
  <2>2. \A i \in 1 .. Len(more) : later[i] = more[i]
    BY <1>2, Joined
  <2>3. \A i \in 1 .. Len(out) : later[Len(more) + i] = out[i]
    BY <1>2, Joined
  <2>4. /\ Len(more) \in Nat /\ Len(out) \in Nat
        /\ DOMAIN more = 1 .. Len(more) /\ DOMAIN out = 1 .. Len(out)
    BY <1>2, ListIs
  <2> HIDE DEF later
  <2>5. ASSUME NEW i \in DOMAIN later PROVE later[i].type # "completed"
    <3>1. CASE i \in 1 .. Len(more)
      BY <1>2, <2>2, <2>4, <3>1
    <3>2. CASE i \notin 1 .. Len(more)
      <4> DEFINE j == i - Len(more)
      <4>1. j \in 1 .. Len(out) /\ Len(more) + j = i
        BY <2>1, <2>4, <3>2
      <4> HIDE DEF j
      <4> QED BY <2>3, <2>4, <4>1
    <3> QED BY <3>1, <3>2
  <2> QED BY <2>1, <2>5
<1>7. after \in Seq(U) /\ after # <<>> /\ after[1] = Absent
  BY <1>2
<1>8. Ending(said, last, heard)'
  <2>1. ASSUME NEW j \in DOMAIN received, received[j] = Absent \/ received[j].finish # Absent
        PROVE  \E k \in DOMAIN received' : received'[k] = Absent \/ received'[k].finish # Absent
    <3>1. IsList(received)
      <4>1. IsList(heard \o rest)
        BY <1>3, Joined
      <4> QED BY <1>2, <4>1
    <3>2. DOMAIN received = 1 .. Len(received) /\ Len(received) \in Nat /\ Len(add) \in Nat
      BY <1>3, <3>1, ListIs
    <3>3. DOMAIN (received \o add) = 1 .. Len(received) + Len(add)
      BY <1>3, <3>1, Joined
    <3>4. \A i \in 1 .. Len(received) : (received \o add)[i] = received[i]
      BY <1>3, <3>1, Joined
    <3>5. j \in DOMAIN received' /\ received'[j] = received[j]
      BY <3>2, <3>3, <3>4
    <3> QED BY <2>1, <3>5
  <2> QED BY <1>2, <2>1 DEF Ending
<1> HIDE DEF later, after
<1>9. OverWith(said, last, later, heard, after)'
  BY <1>2, <1>4, <1>5, <1>6, <1>7, <1>8 DEF OverWith, U
<1>10. Over'
  BY <1>9 DEF Over
<1> QED BY <1>10 DEF StreamInv

(* Nothing is said of a new state.                                         *)
LEMMA InvInit ==
  ASSUME StreamInit
  PROVE  StreamInv
<1>1. s = NewState /\ events = <<>> /\ phase = "open" /\ received = <<>>
  BY DEF StreamInit
<1>2. NewItem \in ItemState
  BY NoText DEF NewItem, ItemState, Indexes
<1>3. <<>> \in ToolMaps /\ DOMAIN <<>> = {}
  <2>1. DOMAIN <<>> = {} /\ <<>> \in [{} -> ToolState]
    OBVIOUS
  <2>2. {} \in SUBSET (0 .. MaxCalls - 1)
    OBVIOUS
  <2> QED BY <2>1, <2>2 DEF ToolMaps
<1>4. /\ s \in State /\ ~s.completed /\ s.next = 0 /\ s.reasoning = NewItem /\ s.message = NewItem
      /\ DOMAIN s.tools = {} /\ s.output = <<>> /\ s.finish = Absent
  <2>1. <<>> \in Seq(Entry) /\ <<>> \in Text /\ Absent \in Finishes
    BY NoText DEF Finishes
  <2> QED BY <1>1, <1>2, <1>3, <2>1 DEF NewState, State
<1>5. ~NewItem.added /\ ~NewItem.done /\ NewItem.text = <<>>
  BY DEF NewItem
<1>6. \A x \in AllItems : ~Marks(s)[x].added
  <2>1. ASSUME NEW x \in AllItems PROVE ~MarkOf(s, x).added
    BY <1>4, <1>5 DEF MarkOf, Mark, Unmarked
  <2> QED BY <2>1 DEF Marks
<1>7. Trail(Marks(s), s.next, <<>>)
  BY <1>6 DEF Trail
<1>8. Shows(s, <<>>, {})
  BY <1>4, <1>5, ShownNothing DEF Shows, CallShows
<1>9. Named(s, {})
  BY <1>4 DEF Named, CallNamed
<1>10. Books(s, <<>>, {})
  <2>1. Range(s.output) = {}
    BY <1>4 DEF Range
  <2> QED BY <1>6, <2>1 DEF Books
<1>11. Good(s, events, CallsIn(received))
  BY <1>1, <1>7, <1>8, <1>9, <1>10, CallsInChunks DEF Good
<1>12. AllOpen(s)
  BY <1>4, <1>5 DEF AllOpen
<1>13. Running
  BY <1>1, <1>4, <1>11, <1>12 DEF Running
<1> QED BY <1>4, <1>13 DEF StreamInv

LEMMA SaysNoEnd ==
  ASSUME NEW out \in Seq(Says)
  PROVE  IsList(out) /\ \A i \in DOMAIN out : out[i].type # "completed"
<1>1. \A i \in DOMAIN out : out[i] \in Says
  OBVIOUS
<1> QED BY <1>1, ListFrom, SaysTypes DEF Terminal

LEMMA OneMore ==
  ASSUME NEW U, NEW list \in Seq(U), NEW c, NEW V, U \subseteq V, c \in V
  PROVE  Append(list, c) = list \o <<c>> /\ <<c>> \in Seq(V) /\ <<c>> # <<>> /\ <<c>>[1] = c
<1>1. IsList(list)
  BY ListFrom
<1>2. Append(list, c) = list \o <<c>>
  BY <1>1, Lists
<1> QED BY <1>2

(* A chunk of a running stream is taken; one after its end changes         *)
(* nothing.                                                                *)
LEMMA ChunkKeeps ==
  ASSUME StreamInv, NEW c \in Chunks, Chunk(c)
  PROVE  StreamInv'
<1> DEFINE r == HandleChunk(s, c)
<1>1. /\ s \in State /\ phase = "open" /\ phase' = "open" /\ s' = r.s /\ events' = events \o r.out
      /\ received' = Append(received, c)
  BY DEF StreamInv, Chunk, Yield
<1>2. Taken(s, r, Range(c.calls), IF c.finish = Absent THEN s.finish ELSE c.finish)
  BY <1>1, HandleChunkTaken
<1> HIDE DEF r
<1>3. s' \in State /\ r.out \in Seq(Says) /\ s'.completed = s.completed
      /\ s'.finish = IF c.finish = Absent THEN s.finish ELSE c.finish
  BY <1>1, <1>2 DEF Taken
<1>4. CASE Running
  <2>1. /\ ~s.completed /\ AllOpen(s) /\ events \in Seq(Says) /\ received \in Seq(Chunks)
        /\ Good(s, events, CallsIn(received))
        /\ s.finish # Absent => \E j \in DOMAIN received : received[j].finish # Absent
    BY <1>4 DEF Running
  <2>2. CallsIn(received) \in SUBSET Deltas
    BY <2>1, CallsInChunks
  <2>3. AllOpen(r.s) /\ Good(r.s, events \o r.out, CallsIn(received) \cup Range(c.calls))
    BY <1>2, <2>1, <2>2 DEF Taken
  <2>4. CallsIn(received') = CallsIn(received) \cup Range(c.calls)
    BY <1>1, <2>1, CallsInChunks
  <2>5. Good(s', events', CallsIn(received')) /\ AllOpen(s')
    BY <1>1, <2>3, <2>4
  <2>6. received' \in Seq(Chunks) /\ events' \in Seq(Says)
    BY <1>1, <1>3, <2>1
  <2>7. s'.finish # Absent => \E j \in DOMAIN received' : received'[j].finish # Absent
    <3>1. /\ Len(received) \in Nat /\ DOMAIN received = 1 .. Len(received)
          /\ DOMAIN received' = 1 .. Len(received) + 1
          /\ received'[Len(received) + 1] = c
          /\ \A j \in 1 .. Len(received) : received'[j] = received[j]
      BY <1>1, <2>1
    <3>2. CASE c.finish # Absent
      BY <3>1, <3>2
    <3>3. CASE c.finish = Absent
      BY <1>3, <2>1, <3>1, <3>3
    <3> QED BY <3>2, <3>3
  <2>8. Running'
    BY <1>1, <1>3, <2>1, <2>5, <2>6, <2>7 DEF Running, AllOpen
  <2> QED BY <1>3, <2>8 DEF StreamInv
<1>5. CASE Over
  <2>1. s'.completed
    BY <1>3, <1>5 DEF Over
  <2>2. IsList(r.out) /\ \A i \in DOMAIN r.out : r.out[i].type # "completed"
    BY <1>3, SaysNoEnd
  <2>3. received \in Seq(Chunks \cup {Absent})
    BY <1>5, SeqMonotonic DEF Over, OverWith
  <2>4. received' = received \o <<c>> /\ <<c>> \in Seq(Chunks \cup {Absent})
    BY <1>1, <2>3, OneMore
  <2> QED BY <1>1, <1>3, <1>5, <2>1, <2>2, <2>4, OverGoesOn
<1> QED BY <1>4, <1>5 DEF StreamInv

(* The response of a running stream is completed.                          *)
LEMMA FinalizeKeeps ==
  ASSUME Running, NEW z \in State, ~z.completed, AllOpen(z),
         Good(z, events, CallsIn(received)),
         s' = Finalize(z).s, events' = events \o Finalize(z).out,
         NEW rest \in Seq(Chunks \cup {Absent}), received' = received \o rest,
         IF rest = <<>> THEN phase' # "open" ELSE rest[1] = Absent,
         Status(z) = "completed" =>
           \E j \in DOMAIN received' : received'[j] = Absent \/ received'[j].finish # Absent
  PROVE  StreamInv'
<1> DEFINE r == Finalize(z)
<1>1. events \in Seq(Says) /\ received \in Seq(Chunks) /\ CallsIn(received) \in SUBSET Deltas
  BY CallsInChunks DEF Running
<1>2. r.s \in State /\ r.s.completed
  BY <1>1, FinalizeEnds
<1>3. \E out, last :
        /\ out \in Seq(Says) /\ r.out = out \o <<last>> /\ last.type = "completed"
        /\ last.status = Status(z)
        /\ SaidInOrder(events \o out) /\ ListSays(events \o out, last.output, CallsIn(received))
  BY <1>1, FinalizeEnds
<1>4. s' = r.s /\ events' = events \o r.out
  OBVIOUS
<1> HIDE DEF r
<1>5. PICK out, last :
        /\ out \in Seq(Says) /\ r.out = out \o <<last>>
        /\ last.type = "completed" /\ last.status = Status(z)
        /\ SaidInOrder(events \o out) /\ ListSays(events \o out, last.output, CallsIn(received))
  BY <1>3
<1>6. PICK said \in Seq(Says) : said = events \o out
  <2>1. events \o out \in Seq(Says)
    BY <1>1, <1>5
  <2> QED BY <2>1
<1>7. PICK heard \in Seq(Chunks) : heard = received
  BY <1>1
<1>8. events' = said \o <<last>>
  <2> DEFINE one == <<last>>
  <2>1. IsList(events) /\ IsList(out) /\ IsList(one)
    BY <1>1, <1>5, ListFrom, Lists
  <2> HIDE DEF one
  <2>2. (events \o out) \o one = events \o (out \o one)
    BY <2>1, JoinedThrice
  <2> QED BY <1>4, <1>5, <1>6, <2>2 DEF one
<1>9. s' \in State /\ s'.completed /\ last.type \in Terminal
  BY <1>2, <1>4, <1>5 DEF Terminal
<1>10. SaidInOrder(said) /\ ListSays(said, last.output, CallsIn(heard))
  BY <1>5, <1>6, <1>7
<1>11. last.status = "completed" =>
         \E j \in DOMAIN received' : received'[j] = Absent \/ received'[j].finish # Absent
  BY <1>5
<1>12. received' = heard \o rest
  BY <1>7
<1> QED BY <1>8, <1>9, <1>10, <1>11, <1>12, RunningEnds

(* [DONE] completes a running stream, and only once.                       *)
LEMMA DoneKeeps ==
  ASSUME StreamInv, Done
  PROVE  StreamInv'
<1> DEFINE r == Finalize(s)
<1>1. /\ s \in State /\ phase = "open" /\ phase' = "open" /\ s' = r.s /\ events' = events \o r.out
      /\ received' = Append(received, Absent)
  BY DEF StreamInv, Done, Yield
<1>2. CASE Running
  <2>1. /\ ~s.completed /\ AllOpen(s) /\ received \in Seq(Chunks)
        /\ Good(s, events, CallsIn(received))
    BY <1>2 DEF Running
  <2>2. /\ received' = received \o <<Absent>> /\ <<Absent>> \in Seq(Chunks \cup {Absent})
        /\ <<Absent>> # <<>> /\ <<Absent>>[1] = Absent
    <3>1. Chunks \subseteq Chunks \cup {Absent} /\ Absent \in Chunks \cup {Absent}
      OBVIOUS
    <3> QED BY <1>1, <2>1, <3>1, OneMore
  <2>3. \E j \in DOMAIN received' : received'[j] = Absent \/ received'[j].finish # Absent
    <3>1. received'[Len(received) + 1] = Absent /\ Len(received) + 1 \in DOMAIN received'
      BY <1>1, <2>1
    <3> QED BY <3>1
  <2> QED BY <1>1, <1>2, <2>1, <2>2, <2>3, FinalizeKeeps
<1>3. CASE Over
  <2>1. r.s = s /\ r.out = <<>>
    BY <1>3 DEF Over, Finalize, Step
  <2> HIDE DEF r
  <2>2. events' = events \o <<>> /\ s' \in State /\ s'.completed
    BY <1>1, <1>3, <2>1 DEF Over
  <2>3. IsList(<<>>) /\ \A i \in DOMAIN <<>> : <<>>[i].type # "completed"
    BY Lists
  <2>4. received \in Seq(Chunks \cup {Absent})
    BY <1>3, SeqMonotonic DEF Over, OverWith
  <2>5. received' = received \o <<Absent>> /\ <<Absent>> \in Seq(Chunks \cup {Absent})
    BY <1>1, <2>4, OneMore
  <2> QED BY <1>1, <1>3, <2>2, <2>3, <2>5, OverGoesOn
<1> QED BY <1>2, <1>3 DEF StreamInv

(* The response of a running stream is failed.                             *)
LEMMA FailedKeeps ==
  ASSUME s \in State, Running, s' = Failed(s).s, events' = events \o Failed(s).out,
         received' = received \o <<>>, phase' # "open"
  PROVE  StreamInv'
<1> DEFINE r == Failed(s)
           last == [type |-> "failed", item |-> Response, index |-> 0, text |-> <<>>,
                    status |-> "failed", output |-> CompletedOutput(s)]
<1>1. r.s = [s EXCEPT !.completed = TRUE] /\ r.out = <<last>> /\ last.type = "failed"
  BY DEF Failed, Step
<1>2. s' \in State /\ s'.completed
  BY <1>1 DEF State
<1>3. events' = events \o <<last>>
  BY <1>1
<1> HIDE DEF r, last
<1>4. PICK said \in Seq(Says) : said = events
  BY DEF Running
<1>5. PICK heard \in Seq(Chunks) : heard = received
  BY DEF Running
<1>6. PICK final : final = last
  OBVIOUS
<1>7. SaidInOrder(said)
  BY <1>4, GoodInOrder DEF Running
<1>8. received' = heard \o <<>> /\ <<>> \in Seq(Chunks \cup {Absent})
  BY <1>5
<1>9. events' = said \o <<final>> /\ final.type \in Terminal /\ final.type # "completed"
  BY <1>1, <1>3, <1>4, <1>6 DEF Terminal
<1> QED BY <1>2, <1>7, <1>8, <1>9, RunningEnds

(* An error fails a running stream; a completed response stays completed.  *)
LEMMA ErrorKeeps ==
  ASSUME StreamInv, Error
  PROVE  StreamInv'
<1> DEFINE r == Failed(s)
           last == [type |-> "failed", item |-> Response, index |-> 0, text |-> <<>>,
                    status |-> "failed", output |-> CompletedOutput(s)]
<1>1. /\ s \in State /\ phase = "open" /\ phase' = "failed" /\ s' = r.s
      /\ events' = events \o r.out /\ received' = received
  BY DEF StreamInv, Error, Yield
<1>2. r.s = [s EXCEPT !.completed = TRUE] /\ r.out = <<last>> /\ last.type = "failed"
  BY DEF Failed, Step
<1>3. s' \in State /\ s'.completed
  BY <1>1, <1>2 DEF State
<1> HIDE DEF r, last
<1>4. CASE Running
  <2>1. received' = received \o <<>>
    <3>1. received \in Seq(Chunks)
      BY <1>4 DEF Running
    <3> QED BY <1>1, <3>1
  <2> QED BY <1>1, <1>4, <2>1, FailedKeeps DEF r
<1>5. CASE Over
  <2>1. PICK final : final = last
    OBVIOUS
  <2>2. IsList(<<final>>) /\ \A i \in DOMAIN <<final>> : <<final>>[i].type # "completed"
    <3>1. IsList(<<final>>) /\ Len(<<final>>) = 1 /\ <<final>>[1] = final
      BY Lists
    <3>2. DOMAIN <<final>> = {1}
      BY <3>1
    <3> QED BY <1>2, <2>1, <3>1, <3>2
  <2>3. received' = received \o <<>> /\ <<>> \in Seq(Chunks \cup {Absent})
    <3>1. received \in Seq(Chunks \cup {Absent})
      BY <1>5, SeqMonotonic DEF Over, OverWith
    <3> QED BY <1>1, <3>1, ListFrom, Lists
  <2>4. events' = events \o <<final>>
    BY <1>1, <1>2, <2>1
  <2> QED BY <1>1, <1>3, <1>5, <2>2, <2>3, <2>4, OverGoesOn
<1> QED BY <1>4, <1>5 DEF StreamInv

(* The end of the body completes a stream that said why it was finished,   *)
(* or that has any output, as one that ran into its length; fails another. *)
LEMMA EndKeeps ==
  ASSUME StreamInv, EndOfBody
  PROVE  StreamInv'
<1>1. /\ s \in State /\ phase = "open" /\ phase' = "ended" /\ s' = AtEnd(s).s
      /\ events' = events \o AtEnd(s).out /\ received' = received
  BY DEF StreamInv, EndOfBody, Yield
<1>2. received \in Seq(Chunks \cup {Absent})
  <2>1. CASE Running
    BY <2>1, SeqMonotonic DEF Running
  <2>2. CASE Over
    BY <2>2, SeqMonotonic DEF Over, OverWith
  <2> QED BY <2>1, <2>2 DEF StreamInv
<1>3. received' = received \o <<>> /\ <<>> \in Seq(Chunks \cup {Absent}) /\ phase' # "open"
  BY <1>1, <1>2, ListFrom, Lists
<1>4. CASE Running
  <2>1. /\ ~s.completed /\ AllOpen(s) /\ events \in Seq(Says) /\ received \in Seq(Chunks)
        /\ Good(s, events, CallsIn(received))
        /\ s.finish # Absent => \E j \in DOMAIN received : received[j].finish # Absent
    BY <1>4 DEF Running
  <2>2. CASE s.finish # Absent
    <3>1. AtEnd(s) = Finalize(s)
      BY <2>2 DEF AtEnd
    <3>2. \E j \in DOMAIN received' : received'[j] = Absent \/ received'[j].finish # Absent
      BY <1>1, <2>1, <2>2
    <3> QED BY <1>1, <1>3, <1>4, <2>1, <3>1, <3>2, FinalizeKeeps
  <2>3. CASE s.finish = Absent /\ HasOutput(s)
    <3> DEFINE z == [s EXCEPT !.finish = "length"]
    <3>1. AtEnd(s) = Finalize(z)
      BY <2>1, <2>3 DEF AtEnd
    <3>2. "length" \in Finishes
      BY DEF Finishes
    <3>3. /\ z \in State /\ z.completed = s.completed /\ z.finish = "length" /\ z.next = s.next
          /\ z.reasoning = s.reasoning /\ z.message = s.message /\ z.output = s.output
          /\ z.tools = s.tools
      BY <1>1, <3>2 DEF State
    <3> HIDE DEF z
    <3>4. AllOpen(z) /\ Good(z, events, CallsIn(received))
      BY <1>1, <2>1, <3>3, GoodAside
    <3>5. Status(z) # "completed" /\ ~z.completed
      BY <2>1, <3>3 DEF Status
    <3>6. PICK y : y = z
      OBVIOUS
    <3>7. /\ y \in State /\ ~y.completed /\ AllOpen(y) /\ Good(y, events, CallsIn(received))
          /\ Status(y) # "completed" /\ s' = Finalize(y).s /\ events' = events \o Finalize(y).out
      BY <1>1, <3>1, <3>3, <3>4, <3>5, <3>6
    <3> QED BY <1>3, <1>4, <3>7, FinalizeKeeps
  <2>4. CASE s.finish = Absent /\ ~HasOutput(s)
    <3>1. AtEnd(s) = Failed(s)
      BY <2>1, <2>4 DEF AtEnd
    <3> QED BY <1>1, <1>3, <1>4, <3>1, FailedKeeps
  <2> QED BY <2>2, <2>3, <2>4
<1>5. CASE Over
  <2>1. AtEnd(s) = Step(s, <<>>)
    BY <1>5 DEF Over, AtEnd, Finalize
  <2>2. AtEnd(s).s = s /\ AtEnd(s).out = <<>>
    BY <2>1 DEF Step
  <2>3. events' = events \o <<>> /\ s' \in State /\ s'.completed
    BY <1>1, <1>5, <2>2 DEF Over
  <2>4. IsList(<<>>) /\ \A i \in DOMAIN <<>> : <<>>[i].type # "completed"
    BY Lists
  <2> QED BY <1>1, <1>3, <1>5, <2>3, <2>4, OverGoesOn
<1> QED BY <1>4, <1>5 DEF StreamInv

LEMMA StepKeeps ==
  ASSUME StreamInv, [StreamNext]_streamVars
  PROVE  StreamInv'
<1>1. CASE UNCHANGED streamVars
  <2>1. s' = s /\ events' = events /\ phase' = phase /\ received' = received
    BY <1>1 DEF streamVars
  <2>2. Running => Running'
    BY <2>1 DEF Running, AllOpen, Good, CallsIn
  <2>3. Over => Over'
    <3>1. ASSUME NEW said, NEW last, NEW more, NEW heard, NEW rest,
                 OverWith(said, last, more, heard, rest)
          PROVE  OverWith(said, last, more, heard, rest)'
      BY <2>1, <3>1 DEF OverWith, Ending
    <3> QED BY <2>1, <3>1 DEF Over
  <2> QED BY <2>1, <2>2, <2>3 DEF StreamInv
<1>2. ASSUME NEW c \in Chunks, Chunk(c) PROVE StreamInv'
  BY <1>2, ChunkKeeps
<1>3. CASE Done
  BY <1>3, DoneKeeps
<1>4. CASE Error
  BY <1>4, ErrorKeeps
<1>5. CASE EndOfBody
  BY <1>5, EndKeeps
<1> QED BY <1>1, <1>2, <1>3, <1>4, <1>5 DEF StreamNext

(* The books are kept by handle_chat_chunk until finalize or failed_event  *)
(* end the response, and what was said until then stays.                   *)
THEOREM StreamKeepsItsBooks ==
  StreamSpec => []StreamInv
<1>1. StreamInit => StreamInv
  BY InvInit
<1>2. StreamInv /\ [StreamNext]_streamVars => StreamInv'
  BY StepKeeps
<1> QED BY <1>1, <1>2, PTL DEF StreamSpec

(* A client can put the items together from the events: whatever the       *)
(* upstream sends, and in whatever order push_* and finalize_* run, an     *)
(* item is added once, under an index of its own, before anything is said  *)
(* of it, and is done at most once; and the response completes at most     *)
(* once.                                                                   *)
THEOREM StreamItemsInOrder ==
  StreamSpec => []ItemsInOrder
<1>1. StreamInv => ItemsInOrder
  BY InvInOrder
<1> QED BY <1>1, StreamKeepsItsBooks, PTL

(* The completed response lists the items the client was shown, in the     *)
(* order of the indexes and with the text it was shown of each (of the     *)
(* reasoning a beginning, and not of a call that was renamed), and is      *)
(* "completed" only if the upstream said that it was finished (finalize,   *)
(* completed_output_items).                                                *)
THEOREM StreamSaysTheSame ==
  StreamSpec => []CompletedSaysTheSame
<1>1. StreamInv => CompletedSaysTheSame
  BY InvSaysTheSame
<1> QED BY <1>1, StreamKeepsItsBooks, PTL
=============================================================================
