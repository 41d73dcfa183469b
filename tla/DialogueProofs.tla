---------------------------- MODULE DialogueProofs -----------------------------
(***************************************************************************)
(* Scenes of any text, told on pages and in chunks of any size, with any   *)
(* number of losses, resends and early answers.  First the pages: no       *)
(* letter is lost and each fits (Paginated), by induction on the text.     *)
(* Then the way of a page to the player and of his answer back.            *)
(***************************************************************************)
EXTENDS Dialogue, SequenceTheorems, WellFoundedInduction, TLAPS

-----------------------------------------------------------------------------
(* Induction and recursion over the first numbers.                          *)

LEMMA Smallest ==
    ASSUME NEW T \in SUBSET Nat, T # {}
    PROVE  \E i \in T : \A j \in T : i <= j
<1>1. PICK i \in T : \A j \in T : ~(<<j, i>> \in OpToRel(<, Nat))
  BY WFMin, NatLessThanWellFounded
<1>2. \A j \in T : ~(j < i)
  BY <1>1 DEF OpToRel
<1> QED BY <1>2

LEMMA Induction ==
    ASSUME NEW n \in Nat, NEW T \in SUBSET (0..n), 0 \in T, \A i \in 0..(n - 1) : i \in T => i + 1 \in T
    PROVE  \A i \in 0..n : i \in T
<1> DEFINE U == (0..n) \ T
<1>1. SUFFICES ASSUME U # {} PROVE FALSE
  OBVIOUS
<1>2. PICK i \in U : \A j \in U : i <= j
  <2>1. U \in SUBSET Nat
    OBVIOUS
  <2> HIDE DEF U
  <2> QED BY <1>1, <2>1, Smallest
<1>3. i # 0 /\ i - 1 \in 0..(n - 1) /\ i - 1 \notin U
  BY <1>2
<1>4. i - 1 \in T /\ (i - 1) + 1 = i
  BY <1>3
<1> QED BY <1>2, <1>3, <1>4

\* A recursion over 0..n, its steps given as functions, has a solution.
Recurs(f, n, S, base, step) ==
    f \in [0..n -> S] /\ f[0] = base /\ \A i \in 1..n : f[i] = step[i][f[i - 1]]

LEMMA Recursion ==
    ASSUME NEW n \in Nat, NEW S, NEW base \in S, NEW step \in [1..n -> [S -> S]]
    PROVE  \E f : Recurs(f, n, S, base, step)
<1> DEFINE Solves(f, m) == f[0] = base /\ \A i \in 1..m : f[i] = step[i][f[i - 1]]
           T == {m \in 0..n : \E f \in [0..m -> S] : Solves(f, m)}
<1>1. 0 \in T
  <2> DEFINE f == [i \in 0..0 |-> base]
  <2>1. f \in [0..0 -> S] /\ Solves(f, 0)
    OBVIOUS
  <2> HIDE DEF f, Solves
  <2> QED BY <2>1
<1>2. ASSUME NEW m \in 0..(n - 1), m \in T
      PROVE  m + 1 \in T
  <2>1. PICK e \in [0..m -> S] : Solves(e, m)
    BY <1>2
  <2> DEFINE f == [i \in 0..(m + 1) |-> IF i = m + 1 THEN step[m + 1][e[m]] ELSE e[i]]
  <2>2. f \in [0..(m + 1) -> S]
    <3>1. m + 1 \in 1..n /\ m \in 0..m
      OBVIOUS
    <3>2. step[m + 1][e[m]] \in S
      BY <3>1
    <3> QED BY <3>2
  <2>3. \A i \in 0..m : f[i] = e[i]
    OBVIOUS
  <2>4. f[m + 1] = step[m + 1][f[m]]
    BY <2>3
  <2> HIDE DEF f
  <2>5. Solves(f, m + 1)
    <3>1. f[0] = base
      BY <2>1, <2>3
    <3>2. ASSUME NEW i \in 1..(m + 1)
          PROVE  f[i] = step[i][f[i - 1]]
      <4>1. CASE i = m + 1
        BY <2>4, <4>1
      <4>2. CASE i # m + 1
        <5>1. i \in 1..m /\ i \in 0..m /\ i - 1 \in 0..m
          BY <4>2
        <5> QED BY <2>1, <2>3, <5>1
      <4> QED BY <4>1, <4>2
    <3> QED BY <3>1, <3>2
  <2> HIDE DEF Solves
  <2> QED BY <2>2, <2>5
<1>3. n \in T
  <2>1. T \in SUBSET (0..n) /\ n \in 0..n
    OBVIOUS
  <2> HIDE DEF T
  <2> QED BY <1>1, <1>2, <2>1, Induction
<1>4. PICK f \in [0..n -> S] : Solves(f, n)
  BY <1>3
<1> QED BY <1>4 DEF Recurs

-----------------------------------------------------------------------------
(* Texts: their letters, and texts put together.                            *)

\* The first i parts of a sequence that is read from the left.
Firsts(s, i) == SubSeq(s, 1, i)

LEMMA FirstsNext ==
    ASSUME NEW S, NEW s \in Seq(S), NEW i \in 0..(Len(s) - 1)
    PROVE  /\ Firsts(s, i) \in Seq(S) /\ s[i + 1] \in S
           /\ Firsts(s, i + 1) = Append(Firsts(s, i), s[i + 1])
<1>1. Len(s) \in Nat /\ i + 1 \in 1..Len(s) /\ 1 \in 1..Len(s) /\ i + 1 \in 1..Len(s) /\ (i + 1) - 1 = i
  BY LenProperties
<1>2. s[i + 1] \in S /\ \A j \in 1..i : s[j] \in S
  BY <1>1, ElementOfSeq
<1>3. SubSeq(s, 1, i) \in Seq(S)
  BY <1>1, <1>2, SubSeqProperties
<1>4. SubSeq(s, 1, i + 1) = SubSeq(s, 1, i) \o <<s[i + 1]>>
  BY <1>1, SubSeqRecursiveSecond
<1>5. Append(SubSeq(s, 1, i), s[i + 1]) = SubSeq(s, 1, i) \o <<s[i + 1]>>
  BY <1>2, <1>3, AppendIsConcat
<1> QED BY <1>2, <1>3, <1>4, <1>5 DEF Firsts

LEMMA FirstsEnds ==
    ASSUME NEW S, NEW s \in Seq(S)
    PROVE  Firsts(s, 0) = <<>> /\ Firsts(s, Len(s)) = s /\ Len(s) \in Nat
  BY SubSeqEmpty, SubSeqFull, LenProperties DEF Firsts

\* Letters, step by step.
KeptOf(text, f) ==
    /\ f \in [0..Len(text) -> Text] /\ f[0] = <<>>
    /\ \A i \in 1..Len(text) : f[i] = IF text[i] = 0 THEN f[i - 1] ELSE Append(f[i - 1], text[i])

LEMMA LettersBy ==
    ASSUME NEW text \in Text
    PROVE  \E f : KeptOf(text, f) /\ Letters(text) = f[Len(text)]
<1> DEFINE n == Len(text)
           step == [i \in 1..n |-> [t \in Text |-> IF text[i] = 0 THEN t ELSE Append(t, text[i])]]
           Kept(f) == f = [i \in 0..n |-> IF i = 0 THEN <<>>
                                          ELSE IF text[i] = 0 THEN f[i - 1] ELSE Append(f[i - 1], text[i])]
           k == CHOOSE f : Kept(f)
<1>1. n \in Nat /\ <<>> \in Text /\ \A i \in 1..n : text[i] \in Nat
  BY LenProperties, ElementOfSeq, EmptySeq DEF Text
<1>2. step \in [1..n -> [Text -> Text]]
  <2>1. \A i \in 1..n, t \in Text : Append(t, text[i]) \in Text
    BY <1>1, AppendProperties DEF Text
  <2> QED BY <2>1
<1>3. PICK g : Recurs(g, n, Text, <<>>, step)
  <2>1. n \in Nat /\ <<>> \in Text
    BY <1>1
  <2> HIDE DEF n, step
  <2> QED BY <1>2, <2>1, Recursion
<1>3a. g \in [0..n -> Text] /\ g[0] = <<>> /\ \A i \in 1..n : g[i] = step[i][g[i - 1]]
  BY <1>3 DEF Recurs
<1>4. \A i \in 1..n : g[i] = IF text[i] = 0 THEN g[i - 1] ELSE Append(g[i - 1], text[i])
  <2> TAKE i \in 1..n
  <2>1. i - 1 \in 0..n
    BY <1>1
  <2> QED BY <1>3a, <2>1
<1>5. Kept(g)
  <2> DEFINE h == [i \in 0..n |-> IF i = 0 THEN <<>>
                                  ELSE IF text[i] = 0 THEN g[i - 1] ELSE Append(g[i - 1], text[i])]
  <2>1. ASSUME NEW i \in 0..n PROVE g[i] = h[i]
    <3>1. i = 0 \/ i \in 1..n
      BY <1>1
    <3> QED BY <1>3a, <1>4, <3>1
  <2>2. g = [i \in 0..n |-> g[i]] /\ h = [i \in 0..n |-> h[i]]
    BY <1>3a
  <2> HIDE DEF h
  <2>3. g = h
    BY <2>1, <2>2
  <2> QED BY <2>3 DEF h
<1>6. Kept(k)
  <2> HIDE DEF Kept
  <2> QED BY <1>5
<1>7. Letters(text) = k[n]
  BY DEF Letters
<1> HIDE DEF k
<1>8. k \in [0..n -> Text]
  <2> DEFINE T == {i \in 0..n : k[i] = g[i]}
  <2>1. 0 \in T
    BY <1>1, <1>3a, <1>6
  <2>2. ASSUME NEW i \in 0..(n - 1), i \in T PROVE i + 1 \in T
    <3>1. i + 1 \in 1..n /\ i + 1 \in 0..n /\ i + 1 # 0 /\ (i + 1) - 1 = i
      BY <1>1
    <3>2. k[i + 1] = IF text[i + 1] = 0 THEN k[i] ELSE Append(k[i], text[i + 1])
      BY <1>6, <3>1
    <3>3. g[i + 1] = IF text[i + 1] = 0 THEN g[i] ELSE Append(g[i], text[i + 1])
      BY <1>4, <3>1
    <3> QED BY <2>2, <3>1, <3>2, <3>3
  <2>3. \A i \in 0..n : i \in T
    <3>1. T \in SUBSET (0..n)
      OBVIOUS
    <3> HIDE DEF T, n
    <3> QED BY <1>1, <2>1, <2>2, <3>1, Induction
  <2>4. \A i \in 0..n : k[i] = g[i]
    BY <2>3
  <2>5. k = [i \in 0..n |-> k[i]]
    BY <1>6
  <2> QED BY <1>3a, <2>4, <2>5
<1>9. KeptOf(text, k)
  <2>1. 0 \in 0..n /\ \A i \in 1..n : i \in 0..n /\ i # 0
    BY <1>1
  <2>2. \A i \in 0..n : k[i] = IF i = 0 THEN <<>>
                                ELSE IF text[i] = 0 THEN k[i - 1] ELSE Append(k[i - 1], text[i])
    <3> HIDE DEF n
    <3> QED BY <1>6
  <2>3. k[0] = <<>>
    BY <2>1, <2>2
  <2>4. \A i \in 1..n : k[i] = IF text[i] = 0 THEN k[i - 1] ELSE Append(k[i - 1], text[i])
    BY <2>1, <2>2
  <2> QED BY <1>8, <2>3, <2>4 DEF KeptOf
<1> QED BY <1>7, <1>9

LEMMA LettersAppend ==
    ASSUME NEW text \in Text, NEW x \in Nat
    PROVE  /\ Letters(text) \in Text /\ Letters(<<>>) = <<>>
           /\ Letters(Append(text, x)) = IF x = 0 THEN Letters(text) ELSE Append(Letters(text), x)
<1> DEFINE n == Len(text)
           longer == Append(text, x)
<1>1. n \in Nat /\ <<>> \in Text /\ Len(<<>>) = 0
  BY LenProperties, EmptySeq DEF Text
<1>2. longer \in Text /\ Len(longer) = n + 1 /\ longer[n + 1] = x /\ \A i \in 1..n : longer[i] = text[i]
  BY AppendProperties DEF Text
<1>3. PICK f : KeptOf(text, f) /\ Letters(text) = f[n]
  BY LettersBy
<1>4. PICK g : KeptOf(longer, g) /\ Letters(longer) = g[n + 1]
  <2> HIDE DEF longer, n
  <2>1. PICK g : KeptOf(longer, g) /\ Letters(longer) = g[Len(longer)]
    BY <1>2, LettersBy
  <2> QED BY <1>2, <2>1
<1>5. PICK e : KeptOf(<<>>, e) /\ Letters(<<>>) = e[Len(<<>>)]
  BY <1>1, LettersBy
<1>6. Letters(<<>>) = <<>>
  BY <1>1, <1>5 DEF KeptOf
<1> HIDE DEF longer, n
<1>7. /\ f \in [0..n -> Text] /\ f[0] = <<>>
      /\ \A i \in 1..n : f[i] = IF text[i] = 0 THEN f[i - 1] ELSE Append(f[i - 1], text[i])
  BY <1>3 DEF KeptOf, n
<1>8. /\ g \in [0..(n + 1) -> Text] /\ g[0] = <<>>
      /\ \A i \in 1..(n + 1) : g[i] = IF longer[i] = 0 THEN g[i - 1] ELSE Append(g[i - 1], longer[i])
  BY <1>2, <1>4 DEF KeptOf
<1>9. f[n] = g[n]
  <2> DEFINE T == {i \in 0..n : f[i] = g[i]}
  <2>1. 0 \in T
    BY <1>1, <1>7, <1>8
  <2>2. ASSUME NEW i \in 0..(n - 1), i \in T PROVE i + 1 \in T
    <3>1. i + 1 \in 1..n /\ i + 1 \in 1..(n + 1) /\ i + 1 \in 0..n /\ (i + 1) - 1 = i
      BY <1>1
    <3>2. f[i + 1] = IF text[i + 1] = 0 THEN f[i] ELSE Append(f[i], text[i + 1])
      BY <1>7, <3>1
    <3>3. g[i + 1] = IF text[i + 1] = 0 THEN g[i] ELSE Append(g[i], text[i + 1])
      BY <1>2, <1>8, <3>1
    <3> QED BY <2>2, <3>1, <3>2, <3>3
  <2>3. \A i \in 0..n : i \in T
    <3>1. T \in SUBSET (0..n)
      OBVIOUS
    <3> HIDE DEF T
    <3> QED BY <1>1, <2>1, <2>2, <3>1, Induction
  <2> QED BY <1>1, <2>3
<1>10. n + 1 \in 1..(n + 1) /\ n \in 0..n /\ (n + 1) - 1 = n
  BY <1>1
<1>11. Letters(longer) = IF x = 0 THEN g[n] ELSE Append(g[n], x)
  BY <1>2, <1>4, <1>8, <1>10
<1> QED BY <1>3, <1>6, <1>7, <1>9, <1>10, <1>11 DEF longer

LEMMA Agreement ==
    ASSUME NEW n \in Nat, NEW f, NEW g, f[0] = g[0], \A i \in 0..(n - 1) : f[i] = g[i] => f[i + 1] = g[i + 1]
    PROVE  \A i \in 0..n : f[i] = g[i]
<1> DEFINE T == {i \in 0..n : f[i] = g[i]}
<1>1. T \in SUBSET (0..n) /\ 0 \in T /\ \A i \in 0..(n - 1) : i \in T => i + 1 \in T
  OBVIOUS
<1>2. \A i \in 0..n : i \in T
  <2> HIDE DEF T
  <2> QED BY <1>1, Induction
<1> QED BY <1>2

\* Concatenation is associative, as a predicate that is matched as a whole.
Regroups(a, b, c) == (a \o b) \o c = a \o (b \o c)

LEMMA ConcatRegroups ==
    ASSUME NEW D, NEW a \in Seq(D), NEW b \in Seq(D), NEW c \in Seq(D)
    PROVE  Regroups(a, b, c)
  BY ConcatAssociative DEF Regroups

LEMMA AppendConcat ==
    ASSUME NEW D, NEW a \in Seq(D), NEW t \in Seq(D), NEW x \in D
    PROVE  a \o t \in Seq(D) /\ a \o Append(t, x) = Append(a \o t, x)
<1>1. <<x>> \in Seq(D)
  OBVIOUS
<1>2. a \o t \in Seq(D)
  BY ConcatProperties
<1>3. Append(t, x) = t \o <<x>> /\ Append(a \o t, x) = (a \o t) \o <<x>>
  BY <1>2, AppendIsConcat
<1>4. (a \o t) \o <<x>> = a \o (t \o <<x>>)
  BY <1>1, ConcatAssociative
<1> QED BY <1>2, <1>3, <1>4

LEMMA TextAppend ==
    ASSUME NEW a \in Text, NEW t \in Text, NEW x \in Nat
    PROVE  a \o t \in Text /\ a \o Append(t, x) = Append(a \o t, x)
<1>1. a \in Seq(Nat) /\ t \in Seq(Nat)
  BY DEF Text
<1>2. a \o t \in Seq(Nat) /\ a \o Append(t, x) = Append(a \o t, x)
  BY <1>1, AppendConcat
<1> QED BY <1>2 DEF Text

\* A text without spaces is its letters.
LEMMA LettersWord ==
    ASSUME NEW word \in Seq(Nat \ {0})
    PROVE  Letters(word) = word /\ word \in Text
<1> DEFINE n == Len(word)
           kept == [i \in 0..n |-> Letters(Firsts(word, i))]
           firsts == [i \in 0..n |-> Firsts(word, i)]
<1>1. n \in Nat /\ Firsts(word, 0) = <<>> /\ Firsts(word, n) = word
  BY FirstsEnds
<1>2. word \in Text
  BY SeqMonotonic DEF Text
<1>3. kept[0] = firsts[0]
  <2>1. <<>> \in Text /\ 0 \in Nat
    BY EmptySeq DEF Text
  <2>2. Letters(<<>>) = <<>>
    BY <2>1, LettersAppend
  <2> QED BY <1>1, <2>2
<1>4. ASSUME NEW i \in 0..(n - 1), kept[i] = firsts[i]
      PROVE  kept[i + 1] = firsts[i + 1]
  <2>1. /\ Firsts(word, i) \in Text /\ word[i + 1] \in Nat \ {0}
        /\ Firsts(word, i + 1) = Append(Firsts(word, i), word[i + 1])
    BY FirstsNext, SeqMonotonic DEF Text
  <2>2. Letters(Firsts(word, i + 1)) = Append(Letters(Firsts(word, i)), word[i + 1])
    BY <2>1, LettersAppend
  <2>3. i \in 0..n /\ i + 1 \in 0..n
    BY <1>1
  <2> QED BY <1>4, <2>1, <2>2, <2>3
<1>5. n \in 0..n
  BY <1>1
<1>6. kept[n] = firsts[n]
  <2> HIDE DEF kept, firsts, n
  <2> QED BY <1>1, <1>3, <1>4, <1>5, Agreement
<1> QED BY <1>1, <1>2, <1>5, <1>6

LEMMA LettersConcat ==
    ASSUME NEW a \in Text, NEW b \in Text
    PROVE  Letters(a \o b) = Letters(a) \o Letters(b) /\ a \o b \in Text
<1> DEFINE n == Len(b)
           joined == [i \in 0..n |-> Letters(a \o Firsts(b, i))]
           apart == [i \in 0..n |-> Letters(a) \o Letters(Firsts(b, i))]
<1>1. n \in Nat /\ Firsts(b, 0) = <<>> /\ Firsts(b, n) = b
  BY FirstsEnds DEF Text
<1>2. a \o b \in Text /\ Letters(a) \in Text /\ Letters(<<>>) = <<>>
  <2>1. 0 \in Nat
    OBVIOUS
  <2> QED BY <2>1, LettersAppend, ConcatProperties DEF Text
<1>3. joined[0] = apart[0]
  <2>1. a \o <<>> = a /\ Letters(a) \o <<>> = Letters(a)
    BY <1>2, ConcatEmptySeq DEF Text
  <2>2. joined[0] = Letters(a \o Firsts(b, 0)) /\ apart[0] = Letters(a) \o Letters(Firsts(b, 0))
    BY <1>1
  <2> HIDE DEF joined, apart
  <2> QED BY <1>1, <1>2, <2>1, <2>2
<1>4. ASSUME NEW i \in 0..(n - 1), joined[i] = apart[i]
      PROVE  joined[i + 1] = apart[i + 1]
  <2> DEFINE t == Firsts(b, i)
             x == b[i + 1]
  <2>1. t \in Text /\ x \in Nat /\ Firsts(b, i + 1) = Append(t, x)
    BY FirstsNext DEF Text
  <2>2. i \in 0..n /\ i + 1 \in 0..n
    BY <1>1
  <2>3. Letters(a \o t) = Letters(a) \o Letters(t)
    BY <1>4, <2>2
  <2>4. joined[i + 1] = Letters(a \o Append(t, x)) /\ apart[i + 1] = Letters(a) \o Letters(Append(t, x))
    BY <2>1, <2>2
  <2> HIDE DEF t, x, joined, apart
  <2>5. a \o t \in Text /\ a \o Append(t, x) = Append(a \o t, x)
    BY <2>1, TextAppend
  <2>6. Letters(t) \in Text /\ Letters(Append(t, x)) = IF x = 0 THEN Letters(t) ELSE Append(Letters(t), x)
    BY <2>1, LettersAppend
  <2>7. Letters(Append(a \o t, x)) = IF x = 0 THEN Letters(a \o t) ELSE Append(Letters(a \o t), x)
    BY <2>1, <2>5, LettersAppend
  <2>8. Letters(a) \o Append(Letters(t), x) = Append(Letters(a) \o Letters(t), x)
    <3> DEFINE p == Letters(a)
               q == Letters(t)
    <3>1. p \in Text /\ q \in Text
      BY <1>2, <2>6
    <3> HIDE DEF p, q
    <3>2. p \o Append(q, x) = Append(p \o q, x)
      BY <2>1, <3>1, TextAppend
    <3> QED BY <3>2 DEF p, q
  <2> QED BY <2>3, <2>4, <2>5, <2>6, <2>7, <2>8
<1>5. n \in 0..n
  BY <1>1
<1>6. joined[n] = apart[n]
  <2> HIDE DEF joined, apart, n
  <2> QED BY <1>1, <1>3, <1>4, <1>5, Agreement
<1> QED BY <1>1, <1>2, <1>5, <1>6

\* What is put together, step by step.
FlatOf(D, s, f) ==
    /\ f \in [0..Len(s) -> Seq(D)] /\ f[0] = <<>>
    /\ \A i \in 1..Len(s) : f[i] = f[i - 1] \o s[i]

LEMMA FlattenBy ==
    ASSUME NEW D, NEW s \in Seq(Seq(D))
    PROVE  \E f : FlatOf(D, s, f) /\ FlattenSeq(s) = f[Len(s)]
<1> DEFINE n == Len(s)
           step == [i \in 1..n |-> [t \in Seq(D) |-> t \o s[i]]]
           Flat(f) == f = [i \in 1..n |-> IF i = 1 THEN s[i] ELSE f[i - 1] \o s[i]]
           k == CHOOSE f : Flat(f)
<1>1. n \in Nat /\ <<>> \in Seq(D) /\ \A i \in 1..n : s[i] \in Seq(D)
  BY LenProperties, ElementOfSeq, EmptySeq
<1>2. step \in [1..n -> [Seq(D) -> Seq(D)]]
  <2>1. \A i \in 1..n, t \in Seq(D) : t \o s[i] \in Seq(D)
    BY <1>1, ConcatProperties
  <2> QED BY <2>1
<1>3. PICK g : Recurs(g, n, Seq(D), <<>>, step)
  <2>1. n \in Nat /\ <<>> \in Seq(D)
    BY <1>1
  <2> HIDE DEF n, step
  <2> QED BY <1>2, <2>1, Recursion
<1>4. g \in [0..n -> Seq(D)] /\ g[0] = <<>> /\ \A i \in 1..n : g[i] = step[i][g[i - 1]]
  BY <1>3 DEF Recurs
<1>5. \A i \in 1..n : g[i] = g[i - 1] \o s[i]
  <2> TAKE i \in 1..n
  <2>1. i - 1 \in 0..n
    BY <1>1
  <2> QED BY <1>4, <2>1
<1>6. FlatOf(D, s, g)
  BY <1>4, <1>5 DEF FlatOf
<1>7. CASE n = 0
  <2>1. s = <<>> /\ FlattenSeq(s) = s
    BY <1>7, EmptySeq DEF FlattenSeq
  <2> QED BY <1>4, <1>6, <1>7, <2>1
<1>8. CASE n # 0
  <2> DEFINE h == [i \in 1..n |-> g[i]]
  <2>1. Flat(h)
    <3> DEFINE e == [i \in 1..n |-> IF i = 1 THEN s[i] ELSE h[i - 1] \o s[i]]
    <3>1. ASSUME NEW i \in 1..n PROVE h[i] = e[i]
      <4>1. CASE i = 1
        <5>1. g[i] = <<>> \o s[i]
          <6>1. g[i] = g[i - 1] \o s[i]
            BY <1>5, Zenon
          <6>2. g[i - 1] = <<>>
            BY <1>4, <4>1
          <6> QED BY <6>1, <6>2, Zenon
        <5>2. <<>> \o s[i] = s[i]
          BY <1>1, ConcatEmptySeq
        <5> QED BY <4>1, <5>1, <5>2
      <4>2. CASE i # 1
        <5>1. i - 1 \in 1..n
          BY <1>1, <4>2
        <5> QED BY <1>5, <4>2, <5>1
      <4> QED BY <4>1, <4>2
    <3>2. h = [i \in 1..n |-> h[i]] /\ e = [i \in 1..n |-> e[i]]
      OBVIOUS
    <3>3. h = e
      <4> HIDE DEF h, e
      <4> QED BY <3>1, <3>2
    <3> QED BY <3>3
  <2>2. Flat(k)
    <3> HIDE DEF Flat, h
    <3> QED BY <2>1
  <2>3. FlattenSeq(s) = k[n]
    BY <1>8 DEF FlattenSeq
  <2> HIDE DEF k, h
  <2> DEFINE a == [i \in 0..(n - 1) |-> k[i + 1]]
             b == [i \in 0..(n - 1) |-> g[i + 1]]
  <2>4. \A i \in 1..n : k[i] = IF i = 1 THEN s[i] ELSE k[i - 1] \o s[i]
    <3> HIDE DEF n
    <3> QED BY <2>2
  <2>5. n - 1 \in Nat /\ 1 \in 1..n
    BY <1>1, <1>8
  <2>6. a[0] = b[0]
    <3>1. k[1] = s[1] /\ g[1] = <<>> \o s[1]
      <4>1. g[1] = g[1 - 1] \o s[1]
        BY <1>5, <2>5, Zenon
      <4>2. g[1 - 1] = <<>> /\ k[1] = s[1]
        BY <1>4, <2>4, <2>5
      <4> QED BY <4>1, <4>2, Zenon
    <3>2. <<>> \o s[1] = s[1]
      BY <1>1, <2>5, ConcatEmptySeq
    <3>3. 0 \in 0..(n - 1) /\ 0 + 1 = 1
      BY <2>5
    <3> QED BY <3>1, <3>2, <3>3
  <2>7. ASSUME NEW i \in 0..((n - 1) - 1), a[i] = b[i]
        PROVE  a[i + 1] = b[i + 1]
    <3>1. i \in 0..(n - 1) /\ i + 1 \in 0..(n - 1) /\ i + 2 \in 1..n /\ i + 2 # 1 /\ (i + 2) - 1 = i + 1
      BY <2>5
    <3>2. k[i + 2] = k[i + 1] \o s[i + 2] /\ g[i + 2] = g[i + 1] \o s[i + 2]
      BY <1>5, <2>4, <3>1
    <3>3. a[i] = k[i + 1] /\ b[i] = g[i + 1] /\ a[i + 1] = k[i + 2] /\ b[i + 1] = g[i + 2]
      <4>1. (i + 1) + 1 = i + 2
        OBVIOUS
      <4> QED BY <3>1, <4>1
    <3> QED BY <2>7, <3>2, <3>3
  <2>8. n - 1 \in 0..(n - 1) /\ (n - 1) + 1 = n
    BY <2>5
  <2>9. a[n - 1] = b[n - 1]
    <3> HIDE DEF a, b, n
    <3> QED BY <2>5, <2>6, <2>7, <2>8, Agreement
  <2>10. k[n] = g[n]
    BY <2>8, <2>9
  <2> QED BY <1>6, <2>3, <2>10
<1> QED BY <1>7, <1>8

LEMMA FlattenAppend ==
    ASSUME NEW D, NEW s \in Seq(Seq(D)), NEW x \in Seq(D)
    PROVE  /\ FlattenSeq(s) \in Seq(D) /\ FlattenSeq(<<>>) = <<>>
           /\ FlattenSeq(Append(s, x)) = FlattenSeq(s) \o x
<1> DEFINE n == Len(s)
           longer == Append(s, x)
<1>1. n \in Nat /\ n \in 0..n /\ FlattenSeq(<<>>) = <<>>
  BY LenProperties DEF FlattenSeq
<1>2. longer \in Seq(Seq(D)) /\ Len(longer) = n + 1 /\ longer[n + 1] = x /\ \A i \in 1..n : longer[i] = s[i]
  BY AppendProperties
<1>3. PICK f : FlatOf(D, s, f) /\ FlattenSeq(s) = f[n]
  BY FlattenBy
<1>4. PICK g : FlatOf(D, longer, g) /\ FlattenSeq(longer) = g[n + 1]
  <2> HIDE DEF longer, n
  <2>1. PICK g : FlatOf(D, longer, g) /\ FlattenSeq(longer) = g[Len(longer)]
    BY <1>2, FlattenBy
  <2> QED BY <1>2, <2>1
<1> HIDE DEF longer, n
<1>5. f \in [0..n -> Seq(D)] /\ f[0] = <<>> /\ \A i \in 1..n : f[i] = f[i - 1] \o s[i]
  BY <1>3 DEF FlatOf, n
<1>6. g[0] = <<>> /\ \A i \in 1..(n + 1) : g[i] = g[i - 1] \o longer[i]
  BY <1>2, <1>4 DEF FlatOf
<1>7. ASSUME NEW i \in 0..(n - 1), f[i] = g[i] PROVE f[i + 1] = g[i + 1]
  <2>1. i + 1 \in 1..n /\ i + 1 \in 1..(n + 1) /\ (i + 1) - 1 = i
    BY <1>1
  <2> QED BY <1>2, <1>5, <1>6, <1>7, <2>1
<1>8. f[n] = g[n]
  <2>1. f[0] = g[0]
    BY <1>5, <1>6
  <2> QED BY <1>1, <1>7, <2>1, Agreement
<1>9. n + 1 \in 1..(n + 1) /\ (n + 1) - 1 = n
  BY <1>1
<1>10. FlattenSeq(longer) = g[n] \o x
  BY <1>2, <1>4, <1>6, <1>9
<1> QED BY <1>1, <1>3, <1>5, <1>8, <1>10 DEF longer

LEMMA FlattenConcat ==
    ASSUME NEW D, NEW a \in Seq(Seq(D)), NEW b \in Seq(Seq(D))
    PROVE  FlattenSeq(a \o b) = FlattenSeq(a) \o FlattenSeq(b)
<1> DEFINE n == Len(b)
           joined == [i \in 0..n |-> FlattenSeq(a \o Firsts(b, i))]
           apart == [i \in 0..n |-> FlattenSeq(a) \o FlattenSeq(Firsts(b, i))]
<1>1. n \in Nat /\ Firsts(b, 0) = <<>> /\ Firsts(b, n) = b
  BY FirstsEnds
<1>2. FlattenSeq(a) \in Seq(D) /\ FlattenSeq(<<>>) = <<>>
  <2>1. <<>> \in Seq(D)
    BY EmptySeq
  <2> QED BY <2>1, FlattenAppend
<1>3. joined[0] = apart[0]
  <2>1. a \o <<>> = a /\ FlattenSeq(a) \o <<>> = FlattenSeq(a)
    BY <1>2, ConcatEmptySeq
  <2>2. joined[0] = FlattenSeq(a \o Firsts(b, 0)) /\ apart[0] = FlattenSeq(a) \o FlattenSeq(Firsts(b, 0))
    BY <1>1
  <2> HIDE DEF joined, apart
  <2> QED BY <1>1, <1>2, <2>1, <2>2
<1>4. ASSUME NEW i \in 0..(n - 1), joined[i] = apart[i]
      PROVE  joined[i + 1] = apart[i + 1]
  <2> DEFINE t == Firsts(b, i)
             x == b[i + 1]
  <2>1. t \in Seq(Seq(D)) /\ x \in Seq(D) /\ Firsts(b, i + 1) = Append(t, x)
    BY FirstsNext
  <2>2. i \in 0..n /\ i + 1 \in 0..n
    BY <1>1
  <2>3. FlattenSeq(a \o t) = FlattenSeq(a) \o FlattenSeq(t)
    BY <1>4, <2>2
  <2>4. joined[i + 1] = FlattenSeq(a \o Append(t, x)) /\ apart[i + 1] = FlattenSeq(a) \o FlattenSeq(Append(t, x))
    BY <2>1, <2>2
  <2> HIDE DEF t, x, joined, apart
  <2>5. a \o t \in Seq(Seq(D)) /\ a \o Append(t, x) = Append(a \o t, x)
    <3> DEFINE E == Seq(D)
    <3>1. a \in Seq(E) /\ t \in Seq(E) /\ x \in E
      BY <2>1
    <3> HIDE DEF E
    <3>2. a \o t \in Seq(E) /\ a \o Append(t, x) = Append(a \o t, x)
      BY <3>1, AppendConcat
    <3> QED BY <3>2 DEF E
  <2>6. FlattenSeq(t) \in Seq(D) /\ FlattenSeq(Append(t, x)) = FlattenSeq(t) \o x
    BY <2>1, FlattenAppend
  <2>7. FlattenSeq(Append(a \o t, x)) = FlattenSeq(a \o t) \o x
    BY <2>1, <2>5, FlattenAppend
  <2>8. FlattenSeq(a) \o (FlattenSeq(t) \o x) = (FlattenSeq(a) \o FlattenSeq(t)) \o x
    <3> DEFINE p == FlattenSeq(a)
               q == FlattenSeq(t)
    <3>1. p \in Seq(D) /\ q \in Seq(D) /\ x \in Seq(D)
      BY <1>2, <2>1, <2>6
    <3> HIDE DEF p, q
    <3>2. (p \o q) \o x = p \o (q \o x)
      <4>1. Regroups(p, q, x)
        BY <3>1, ConcatRegroups
      <4> QED BY <4>1 DEF Regroups
    <3> QED BY <3>2 DEF p, q
  <2> QED BY <2>3, <2>4, <2>5, <2>6, <2>7, <2>8
<1>5. n \in 0..n
  BY <1>1
<1>6. joined[n] = apart[n]
  <2> HIDE DEF joined, apart, n
  <2> QED BY <1>1, <1>3, <1>4, <1>5, Agreement
<1> QED BY <1>1, <1>5, <1>6

-----------------------------------------------------------------------------
(* Pages.                                                                   *)

Word == Seq(Nat \ {0}) \ {<<>>}

\* Pages of which none is empty, and each fits; and with one that is begun.
Fits(pages) == \A i \in 1..Len(pages) : pages[i] # <<>> /\ Len(pages[i]) <= Width
Pages == {pages \in Seq(Text) : Fits(pages)}
Begun == {made \in [pages : Seq(Text), current : Text] : Fits(made.pages) /\ Len(made.current) <= Width}

\* The letters on pages, and with the one that is begun.
Said(pages) == Letters(FlattenSeq(pages))
SaidBy(made) == Said(made.pages) \o Letters(made.current)

LEMMA Sizes == Width \in Nat /\ Chunk \in Nat /\ Width > 0 /\ Chunk > 0
<1>1. Width \in Nat \ {0} /\ Chunk \in Nat \ {0}
  BY DialogueAssumption
<1> QED BY <1>1

LEMMA Dividing ==
    ASSUME NEW a \in Nat, NEW w \in Nat, w > 0
    PROVE  a \div w \in Nat /\ (a \div w) * w <= a /\ a < (a \div w) * w + w
  OBVIOUS

LEMMA SaidText ==
    ASSUME NEW pages \in Seq(Text)
    PROVE  FlattenSeq(pages) \in Text /\ Said(pages) \in Text /\ Said(<<>>) = <<>>
<1>1. pages \in Seq(Seq(Nat)) /\ <<>> \in Seq(Nat) /\ 0 \in Nat
  BY EmptySeq DEF Text
<1>2. FlattenSeq(pages) \in Text /\ FlattenSeq(<<>>) = <<>>
  BY <1>1, FlattenAppend DEF Text
<1>3. Letters(FlattenSeq(pages)) \in Text /\ Letters(<<>>) = <<>>
  BY <1>1, <1>2, LettersAppend
<1> QED BY <1>2, <1>3 DEF Said

LEMMA SaidAppend ==
    ASSUME NEW pages \in Seq(Text), NEW page \in Text
    PROVE  Append(pages, page) \in Seq(Text) /\ Said(Append(pages, page)) = Said(pages) \o Letters(page)
<1>1. pages \in Seq(Seq(Nat)) /\ page \in Seq(Nat)
  BY DEF Text
<1>2. FlattenSeq(Append(pages, page)) = FlattenSeq(pages) \o page
  BY <1>1, FlattenAppend
<1>3. FlattenSeq(pages) \in Text
  BY SaidText
<1> DEFINE f == FlattenSeq(pages)
<1> HIDE DEF f
<1>4. Letters(f \o page) = Letters(f) \o Letters(page)
  BY <1>3, LettersConcat DEF f
<1>5. Append(pages, page) \in Seq(Text)
  BY AppendProperties
<1> QED BY <1>2, <1>4, <1>5 DEF Said, f

LEMMA SaidConcat ==
    ASSUME NEW a \in Seq(Text), NEW b \in Seq(Text)
    PROVE  a \o b \in Seq(Text) /\ Said(a \o b) = Said(a) \o Said(b)
<1>1. a \in Seq(Seq(Nat)) /\ b \in Seq(Seq(Nat))
  BY DEF Text
<1>2. FlattenSeq(a \o b) = FlattenSeq(a) \o FlattenSeq(b)
  BY <1>1, FlattenConcat
<1> DEFINE f == FlattenSeq(a)
           g == FlattenSeq(b)
<1>3. f \in Text /\ g \in Text
  BY SaidText
<1>4. a \o b \in Seq(Text)
  BY ConcatProperties
<1> HIDE DEF f, g
<1>5. Letters(f \o g) = Letters(f) \o Letters(g)
  BY <1>3, LettersConcat
<1> QED BY <1>2, <1>4, <1>5 DEF Said, f, g

LEMMA FitsAppend ==
    ASSUME NEW pages \in Pages, NEW page \in Text, page # <<>>, Len(page) <= Width
    PROVE  Append(pages, page) \in Pages
<1>1. pages \in Seq(Text) /\ Fits(pages)
  BY DEF Pages
<1>2. /\ Append(pages, page) \in Seq(Text) /\ Len(Append(pages, page)) = Len(pages) + 1 /\ Len(pages) \in Nat
      /\ \A i \in 1..Len(pages) : Append(pages, page)[i] = pages[i]
      /\ Append(pages, page)[Len(pages) + 1] = page
  BY <1>1, AppendProperties, LenProperties
<1> DEFINE longer == Append(pages, page)
<1> HIDE DEF longer
<1>3. ASSUME NEW i \in 1..(Len(pages) + 1) PROVE longer[i] # <<>> /\ Len(longer[i]) <= Width
  <2>1. i = Len(pages) + 1 \/ i \in 1..Len(pages)
    BY <1>2
  <2> QED BY <1>1, <1>2, <2>1 DEF Fits, longer
<1> QED BY <1>2, <1>3 DEF Pages, Fits, longer

LEMMA FitsConcat ==
    ASSUME NEW a \in Pages, NEW b \in Pages
    PROVE  a \o b \in Pages
<1>1. a \in Seq(Text) /\ Fits(a) /\ b \in Seq(Text) /\ Fits(b)
  BY DEF Pages
<1> DEFINE c == a \o b
<1>2. /\ c \in Seq(Text) /\ Len(c) = Len(a) + Len(b) /\ Len(a) \in Nat /\ Len(b) \in Nat
      /\ \A i \in 1..(Len(a) + Len(b)) : c[i] = IF i <= Len(a) THEN a[i] ELSE b[i - Len(a)]
  BY <1>1, ConcatProperties, LenProperties
<1> HIDE DEF c
<1>3. ASSUME NEW i \in 1..Len(c) PROVE c[i] # <<>> /\ Len(c[i]) <= Width
  <2>1. (i <= Len(a) /\ i \in 1..Len(a)) \/ (~(i <= Len(a)) /\ i - Len(a) \in 1..Len(b))
    BY <1>2
  <2> QED BY <1>1, <1>2, <2>1 DEF Fits
<1> QED BY <1>2, <1>3 DEF Pages, Fits, c

LEMMA IsSequence ==
    ASSUME NEW S, NEW m \in Nat, NEW s \in [1..m -> S]
    PROVE  s \in Seq(S) /\ Len(s) = m
  OBVIOUS

\* The first n pieces of a word, and what is left of it.
Pieces(word, n) == [i \in 1..n |-> SubSeq(word, (i - 1) * Width + 1, i * Width)]
Left(word, n) == SubSeq(word, n * Width + 1, Len(word))

LEMMA Cutting ==
    ASSUME NEW word \in Word, NEW n \in Nat, n * Width < Len(word)
    PROVE  Pieces(word, n) \in Pages /\ Said(Pieces(word, n)) = Firsts(word, n * Width)
<1> DEFINE said == [i \in 0..n |-> Said(Pieces(word, i))]
           firsts == [i \in 0..n |-> Firsts(word, i * Width)]
           W == Width
<1>1. W \in Nat /\ W > 0 /\ Len(word) \in Nat /\ word \in Text /\ word \in Seq(Nat \ {0})
  BY Sizes, LenProperties, LettersWord DEF Word
<1> HIDE DEF W
<1>2. ASSUME NEW i \in 0..n PROVE i * W \in Nat /\ i * W <= n * W
  <2>1. n - i \in Nat /\ n = i + (n - i)
    OBVIOUS
  <2>2. (n - i) * W \in Nat /\ i * W \in Nat /\ n * W = i * W + (n - i) * W
    BY <1>1, <2>1
  <2> QED BY <2>2
<1>3. ASSUME NEW i \in 1..n
      PROVE  /\ SubSeq(word, (i - 1) * W + 1, i * W) \in Seq(Nat \ {0})
             /\ Len(SubSeq(word, (i - 1) * W + 1, i * W)) = W
  <2>1. i \in 0..n /\ i - 1 \in 0..n
    OBVIOUS
  <2>2. i * W = (i - 1) * W + W
    BY <1>1
  <2>3. (i - 1) * W \in Nat /\ i * W \in Nat /\ i * W <= Len(word) /\ n * W \in Nat
    BY <1>1, <1>2, <2>1 DEF W
  <2> DEFINE p == (i - 1) * W
             q == i * W
  <2>4. p \in Nat /\ q \in Nat /\ q = p + W /\ q <= Len(word)
    BY <2>2, <2>3
  <2> HIDE DEF p, q
  <2>5. \A j \in (p + 1)..q : word[j] \in Nat \ {0}
    BY <1>1, <2>4, ElementOfSeq
  <2>6. SubSeq(word, p + 1, q) \in Seq(Nat \ {0}) /\ Len(SubSeq(word, p + 1, q)) = W
    BY <1>1, <2>4, <2>5, SubSeqProperties
  <2> QED BY <2>6 DEF p, q
<1>4. ASSUME NEW m \in 0..n PROVE Pieces(word, m) \in Pages /\ Len(Pieces(word, m)) = m
  <2>1. \A i \in 1..m : i \in 1..n
    OBVIOUS
  <2>2. \A i \in 1..m : Pieces(word, m)[i] \in Text /\ Len(Pieces(word, m)[i]) = W /\ Pieces(word, m)[i] # <<>>
    <3> TAKE i \in 1..m
    <3>1. Pieces(word, m)[i] = SubSeq(word, (i - 1) * W + 1, i * W)
      BY DEF Pieces, W
    <3>2. Pieces(word, m)[i] \in Seq(Nat \ {0}) /\ Len(Pieces(word, m)[i]) = W
      BY <1>3, <2>1, <3>1
    <3>3. Pieces(word, m)[i] \in Text
      BY <3>2, LettersWord
    <3>4. Pieces(word, m)[i] # <<>>
      BY <1>1, <3>2, EmptySeq
    <3> QED BY <3>2, <3>3, <3>4
  <2>3. Pieces(word, m) = [i \in 1..m |-> Pieces(word, m)[i]]
    BY DEF Pieces
  <2>4. Pieces(word, m) \in Seq(Text) /\ Len(Pieces(word, m)) = m
    <3>1. m \in Nat
      OBVIOUS
    <3>2. Pieces(word, m) \in [1..m -> Text]
      BY <2>2, <2>3
    <3> QED BY <3>1, <3>2, IsSequence
  <2> QED BY <1>1, <2>2, <2>4 DEF Pages, Fits, W
<1>5. ASSUME NEW i \in 0..(n - 1)
      PROVE  Pieces(word, i + 1) = Append(Pieces(word, i), SubSeq(word, i * W + 1, (i + 1) * W))
  <2> DEFINE piece == SubSeq(word, i * W + 1, (i + 1) * W)
             p == Pieces(word, i)
             q == Pieces(word, i + 1)
  <2>1. i \in 0..n /\ i + 1 \in 0..n /\ i + 1 \in 1..n /\ (i + 1) - 1 = i /\ i \in Nat
    OBVIOUS
  <2>2. p \in Seq(Text) /\ q \in Seq(Text) /\ Len(p) = i /\ Len(q) = i + 1
    BY <1>4, <2>1 DEF Pages
  <2>3. piece \in Text
    BY <1>3, <2>1, LettersWord
  <2>4. q[i + 1] = piece /\ \A j \in 1..i : q[j] = p[j]
    <3>1. q[i + 1] = SubSeq(word, ((i + 1) - 1) * W + 1, (i + 1) * W)
      <4>1. i + 1 \in 1..(i + 1)
        BY <2>1
      <4> QED BY <4>1 DEF Pieces, W
    <3>2. \A j \in 1..i : q[j] = p[j]
      <4> TAKE j \in 1..i
      <4>1. j \in 1..(i + 1)
        BY <2>1
      <4> QED BY <4>1 DEF Pieces
    <3> QED BY <2>1, <3>1, <3>2
  <2> HIDE DEF p, q, piece
  <2>5. /\ Append(p, piece) \in Seq(Text) /\ Len(Append(p, piece)) = i + 1
        /\ \A j \in 1..i : Append(p, piece)[j] = p[j]
        /\ Append(p, piece)[i + 1] = piece
    BY <2>2, <2>3, AppendProperties
  <2>6. \A j \in 1..(i + 1) : q[j] = Append(p, piece)[j]
    <3> TAKE j \in 1..(i + 1)
    <3>1. j = i + 1 \/ j \in 1..i
      BY <2>1
    <3> QED BY <2>4, <2>5, <3>1
  <2>7. q = Append(p, piece)
    BY <2>2, <2>5, <2>6, SeqEqual
  <2> QED BY <2>7 DEF p, q, piece
<1>6. said[0] = firsts[0]
  <2>1. Pieces(word, 0) = <<>>
    BY DEF Pieces
  <2>2. Said(<<>>) = <<>> /\ 0 * Width = 0
    <3>1. <<>> \in Seq(Text) /\ 0 * Width = 0
      BY EmptySeq, Sizes
    <3>2. Said(<<>>) = <<>>
      BY <3>1, SaidText, Zenon
    <3> QED BY <3>1, <3>2
  <2>3. Firsts(word, 0) = <<>>
    BY <1>1, FirstsEnds
  <2>4. said[0] = Said(Pieces(word, 0)) /\ firsts[0] = Firsts(word, 0 * Width)
    OBVIOUS
  <2> QED BY <2>1, <2>2, <2>3, <2>4
<1>7. ASSUME NEW i \in 0..(n - 1), said[i] = firsts[i]
      PROVE  said[i + 1] = firsts[i + 1]
  <2> DEFINE piece == SubSeq(word, i * W + 1, (i + 1) * W)
  <2>1. i \in 0..n /\ i + 1 \in 0..n /\ i + 1 \in 1..n /\ (i + 1) - 1 = i
    OBVIOUS
  <2>2. Pieces(word, i + 1) = Append(Pieces(word, i), piece) /\ Pieces(word, i) \in Seq(Text)
    BY <1>4, <1>5, <2>1 DEF Pages
  <2>3. piece \in Seq(Nat \ {0})
    BY <1>3, <2>1
  <2>4. piece \in Text /\ Letters(piece) = piece
    BY <2>3, LettersWord
  <2>5. Said(Pieces(word, i + 1)) = Said(Pieces(word, i)) \o piece
    <3> HIDE DEF piece
    <3> QED BY <2>2, <2>4, SaidAppend
  <2>6. Said(Pieces(word, i)) = Firsts(word, i * W)
    BY <1>7, <2>1 DEF W
  <2>7. Firsts(word, i * W) \o piece = Firsts(word, (i + 1) * W)
    <3> DEFINE k == i * W
               m == (i + 1) * W
    <3>1. k \in Nat /\ m \in Nat /\ k <= m /\ m <= Len(word)
      <4>1. n * W \in Nat /\ n * W < Len(word)
        BY <1>1, <1>2 DEF W
      <4>2. m = k + W
        BY <1>1
      <4> QED BY <1>1, <1>2, <2>1, <4>1, <4>2
    <3> HIDE DEF k, m
    <3>2. 1 \in 1..(Len(word) + 1) /\ k \in (1 - 1)..Len(word) /\ m \in k..Len(word)
      BY <1>1, <3>1
    <3>3. SubSeq(word, 1, k) \o SubSeq(word, k + 1, m) = SubSeq(word, 1, m)
      BY <1>1, <3>2, ConcatAdjacentSubSeq
    <3> QED BY <3>3 DEF Firsts, k, m
  <2>8. said[i + 1] = Said(Pieces(word, i + 1)) /\ firsts[i + 1] = Firsts(word, (i + 1) * W)
    BY <2>1 DEF W
  <2> QED BY <2>5, <2>6, <2>7, <2>8
<1>8. n \in 0..n
  OBVIOUS
<1>9. said[n] = firsts[n]
  <2> HIDE DEF said, firsts
  <2> QED BY <1>6, <1>7, <1>8, Agreement
<1> QED BY <1>4, <1>8, <1>9

\* What is left of a word is a word, and the pieces and it are the whole.
LEMMA Remaining ==
    ASSUME NEW word \in Word, NEW n \in Nat, n * Width < Len(word), Len(word) <= n * Width + Width
    PROVE  /\ Left(word, n) \in Word /\ Len(Left(word, n)) <= Width
           /\ Firsts(word, n * Width) \o Left(word, n) = word
<1> DEFINE k == n * Width
           m == Len(word)
<1>1. /\ k \in Nat /\ m \in Nat /\ k < m /\ m <= k + Width /\ Width \in Nat
      /\ word \in Seq(Nat \ {0}) /\ \A i \in 1..m : word[i] \in Nat \ {0}
  BY Sizes, LenProperties, ElementOfSeq DEF Word
<1>2. SubSeq(word, 1, m) = word
  BY <1>1, SubSeqFull
<1> HIDE DEF k, m
<1>3. SubSeq(word, k + 1, m) \in Seq(Nat \ {0}) /\ Len(SubSeq(word, k + 1, m)) = m - k
  <2>1. k + 1 \in Int /\ m \in Int /\ (\A i \in (k + 1)..m : word[i] \in Nat \ {0}) /\ k + 1 <= m
    BY <1>1
  <2> QED BY <1>1, <2>1, SubSeqProperties
<1>4. SubSeq(word, k + 1, m) # <<>>
  BY <1>1, <1>3, EmptySeq
<1>5. SubSeq(word, 1, k) \o SubSeq(word, k + 1, m) = word
  <2>1. 1 \in 1..(Len(word) + 1) /\ k \in (1 - 1)..Len(word) /\ m \in k..Len(word)
    BY <1>1 DEF m
  <2> QED BY <1>1, <1>2, <2>1, ConcatAdjacentSubSeq
<1>6. Left(word, n) = SubSeq(word, k + 1, m) /\ Firsts(word, n * Width) = SubSeq(word, 1, k)
  BY DEF Left, Firsts, k, m
<1>7. Len(Left(word, n)) <= Width
  BY <1>1, <1>3, <1>6
<1>8. Left(word, n) \in Word
  BY <1>3, <1>4, <1>6 DEF Word
<1>9. Firsts(word, n * Width) \o Left(word, n) = word
  BY <1>5, <1>6, Zenon
<1> QED BY <1>7, <1>8, <1>9

LEMMA SaidByRecord ==
    ASSUME NEW p, NEW c
    PROVE  SaidBy([pages |-> p, current |-> c]) = Said(p) \o Letters(c)
  BY DEF SaidBy

LEMMA BegunRecord ==
    ASSUME NEW p \in Pages, NEW c \in Text, Len(c) <= Width
    PROVE  [pages |-> p, current |-> c] \in Begun
  BY DEF Begun, Pages

\* A word of one piece goes on the page that is begun, or on the next.
Adding(made, rest) ==
    LET candidate == IF made.current = <<>> THEN rest ELSE made.current \o <<0>> \o rest
    IN  IF Len(candidate) <= Width THEN [pages |-> made.pages, current |-> candidate]
        ELSE [pages |-> Append(made.pages, made.current), current |-> rest]

LEMMA AddingRest ==
    ASSUME NEW made \in Begun, NEW rest \in Word, Len(rest) <= Width
    PROVE  /\ Adding(made, rest) \in Begun /\ Adding(made, rest).current # <<>>
           /\ SaidBy(Adding(made, rest)) = SaidBy(made) \o rest
<1> DEFINE pages == made.pages
           current == made.current
<1>1. /\ pages \in Seq(Text) /\ current \in Text /\ Fits(pages) /\ Len(current) <= Width
      /\ pages \in Pages
  BY DEF Begun, Pages
<1>2. rest \in Text /\ Letters(rest) = rest /\ rest # <<>> /\ rest \in Seq(Nat) /\ rest \in Seq(Nat \ {0})
  BY LettersWord DEF Word, Text
<1>3. Said(pages) \in Text /\ Letters(current) \in Text
  <2>1. 0 \in Nat
    OBVIOUS
  <2> QED BY <1>1, <2>1, SaidText, LettersAppend
<1> DEFINE said == Said(pages)
           letters == Letters(current)
<1>4. SaidBy(made) = said \o letters /\ said \in Text /\ letters \in Text
  BY <1>3 DEF SaidBy
<1> HIDE DEF pages, current, said, letters
<1>5. CASE current = <<>>
  <2>1. Adding(made, rest) = [pages |-> pages, current |-> rest]
    BY <1>5 DEF Adding, pages, current
  <2>2. letters = <<>>
    <3>1. <<>> \in Text /\ 0 \in Nat
      BY EmptySeq DEF Text
    <3> QED BY <1>5, <3>1, LettersAppend DEF letters
  <2>3. SaidBy(Adding(made, rest)) = said \o rest
    BY <1>2, <2>1 DEF SaidBy, said
  <2>4. said \o <<>> = said
    BY <1>4, ConcatEmptySeq DEF Text
  <2>5. Adding(made, rest) \in Begun /\ Adding(made, rest).current = rest
    <3>1. [pages |-> pages, current |-> rest] \in Begun
      BY <1>1, <1>2, BegunRecord
    <3> QED BY <2>1, <3>1
  <2>6. SaidBy(made) = said
    BY <1>4, <2>2, <2>4
  <2> QED BY <1>2, <2>3, <2>5, <2>6
<1>6. CASE current # <<>>
  <2> DEFINE candidate == current \o <<0>> \o rest
  <2>1. candidate \in Text /\ Letters(candidate) = letters \o rest /\ candidate # <<>>
    <3> DEFINE spaced == Append(current, 0)
    <3>1. 0 \in Nat /\ spaced = current \o <<0>>
      BY <1>1, AppendIsConcat DEF Text
    <3>2. spaced \in Text /\ Letters(spaced) = letters
      <4>1. spaced \in Text
        BY <1>1, AppendProperties DEF Text
      <4>2. Letters(spaced) = Letters(current)
        BY <1>1, <3>1, LettersAppend
      <4> QED BY <4>1, <4>2 DEF letters
    <3> HIDE DEF spaced
    <3>3. spaced \o rest \in Text /\ Letters(spaced \o rest) = Letters(spaced) \o Letters(rest)
      BY <1>2, <3>2, LettersConcat
    <3>4. spaced \o rest # <<>>
      <4>1. spaced \in Seq(Nat) /\ rest \in Seq(Nat)
        BY <1>2, <3>2 DEF Text
      <4> QED BY <1>2, <4>1, ConcatEqualIffEmpty
    <3> QED BY <1>2, <3>1, <3>2, <3>3, <3>4
  <2> HIDE DEF candidate
  <2>2. CASE Len(candidate) <= Width
    <3>1. Adding(made, rest) = [pages |-> pages, current |-> candidate]
      BY <1>6, <2>2 DEF Adding, pages, current, candidate
    <3>2. SaidBy(Adding(made, rest)) = said \o (letters \o rest)
      <4>1. SaidBy(Adding(made, rest)) = Said(pages) \o Letters(candidate)
        BY <3>1, SaidByRecord
      <4> QED BY <2>1, <4>1, Zenon DEF said
    <3>3. Regroups(said, letters, rest)
      BY <1>2, <1>4, ConcatRegroups DEF Text
    <3>4. Adding(made, rest) \in Begun /\ Adding(made, rest).current = candidate
      <4>1. [pages |-> pages, current |-> candidate] \in Begun
        BY <1>1, <2>1, <2>2, BegunRecord
      <4> QED BY <3>1, <4>1
    <3>5. SaidBy(Adding(made, rest)) = SaidBy(made) \o rest
      BY <1>4, <3>2, <3>3 DEF Regroups
    <3> QED BY <2>1, <3>4, <3>5
  <2>3. CASE ~(Len(candidate) <= Width)
    <3>1. Adding(made, rest) = [pages |-> Append(pages, current), current |-> rest]
      BY <1>6, <2>3 DEF Adding, pages, current, candidate
    <3>2. Append(pages, current) \in Pages
      BY <1>1, <1>6, FitsAppend
    <3>3. Said(Append(pages, current)) = said \o letters
      BY <1>1, SaidAppend DEF said, letters
    <3>4. SaidBy(Adding(made, rest)) = (said \o letters) \o rest
      <4>1. SaidBy(Adding(made, rest)) = Said(Append(pages, current)) \o Letters(rest)
        BY <3>1, SaidByRecord
      <4> QED BY <1>2, <3>3, <4>1, Zenon
    <3>5. Adding(made, rest) \in Begun /\ Adding(made, rest).current = rest
      <4> DEFINE p == Append(pages, current)
      <4> HIDE DEF p
      <4>1. p \in Pages /\ rest \in Text /\ Len(rest) <= Width
        BY <1>2, <3>2 DEF p
      <4>2. [pages |-> p, current |-> rest] \in Begun
        BY <4>1, BegunRecord
      <4> QED BY <3>1, <4>2 DEF p
    <3> QED BY <1>2, <1>4, <3>4, <3>5
  <2> QED BY <2>2, <2>3
<1> QED BY <1>5, <1>6

LEMMA AddWordSays ==
    ASSUME NEW made \in Begun, NEW word \in Word
    PROVE  /\ AddWord(made, word) \in Begun /\ AddWord(made, word).current # <<>>
           /\ SaidBy(AddWord(made, word)) = SaidBy(made) \o word
<1> DEFINE n == (Len(word) - 1) \div Width
           k == n * Width
           pages == made.pages
           current == made.current
           front == Firsts(word, k)
           rest == Left(word, n)
           closed == IF n > 0 /\ current # <<>> THEN Append(pages, current) ELSE pages
           mid == [pages |-> closed \o Pieces(word, n), current |-> IF n > 0 THEN <<>> ELSE current]
<1>1. n \in Nat /\ k \in Nat /\ k < Len(word) /\ Len(word) <= k + Width /\ Width \in Nat
  <2>1. Len(word) \in Nat /\ Len(word) # 0
    BY LenProperties, EmptySeq DEF Word
  <2>2. Len(word) - 1 \in Nat
    BY <2>1
  <2> DEFINE m == Len(word) - 1
  <2> HIDE DEF m
  <2>3. m \div Width \in Nat /\ (m \div Width) * Width <= m /\ m < (m \div Width) * Width + Width
    BY <2>2, Dividing, Sizes DEF m
  <2>4. n = m \div Width /\ m = Len(word) - 1
    BY DEF m
  <2> HIDE DEF n
  <2> QED BY <2>1, <2>3, <2>4, Sizes
<1>2. AddWord(made, word) = Adding(mid, rest)
  BY DEF AddWord, Adding, Pieces, Left
<1> HIDE DEF n, k
<1>3. rest \in Word /\ Len(rest) <= Width /\ front \o rest = word
  BY <1>1, Remaining DEF k
<1>4. Pieces(word, n) \in Pages /\ Said(Pieces(word, n)) = front
  BY <1>1, Cutting DEF k
<1>5. /\ pages \in Seq(Text) /\ current \in Text /\ Fits(pages) /\ Len(current) <= Width
      /\ pages \in Pages /\ <<>> \in Text /\ Len(<<>>) = 0
  BY EmptySeq DEF Begun, Pages, Text
<1>6. Said(pages) \in Text /\ Letters(current) \in Text /\ Letters(<<>>) = <<>>
  <2>1. 0 \in Nat
    OBVIOUS
  <2> QED BY <1>5, <2>1, SaidText, LettersAppend
<1>7. front \in Text /\ rest \in Text
  <2>1. Pieces(word, n) \in Seq(Text)
    BY <1>4 DEF Pages
  <2>2. Said(Pieces(word, n)) \in Text
    BY <2>1, SaidText
  <2> QED BY <1>3, <1>4, <2>2, LettersWord DEF Word
<1> HIDE DEF front, rest, pages, current
<1>8. mid \in Begun /\ SaidBy(mid) = SaidBy(made) \o front
  <2>1. SaidBy(made) = Said(pages) \o Letters(current)
    BY DEF SaidBy, pages, current
  <2>2. CASE n = 0
    <3>1. Pieces(word, n) = <<>>
      BY <2>2 DEF Pieces
    <3>2. pages \o <<>> = pages
      BY <1>5, ConcatEmptySeq
    <3>3. mid = [pages |-> pages, current |-> current]
      <4>1. closed = pages /\ ~(n > 0)
        BY <2>2
      <4> HIDE DEF closed
      <4> QED BY <3>1, <3>2, <4>1
    <3>4. front = <<>>
      <4>1. Said(<<>>) = <<>>
        BY <1>5, SaidText
      <4> QED BY <1>4, <3>1, <4>1
    <3> HIDE DEF mid
    <3>5. SaidBy(made) \in Text
      BY <1>6, <2>1, TextAppend
    <3>6. SaidBy(made) \o <<>> = SaidBy(made)
      BY <3>5, ConcatEmptySeq DEF Text
    <3>7. SaidBy(mid) = SaidBy(made)
      BY <2>1, <3>3 DEF SaidBy
    <3> QED BY <1>5, <3>3, <3>4, <3>6, <3>7 DEF Begun
  <2>3. CASE n > 0
    <3>1. closed \in Pages /\ Said(closed) = Said(pages) \o Letters(current)
      <4>1. CASE current = <<>>
        <5>1. Said(pages) \o <<>> = Said(pages)
          BY <1>6, ConcatEmptySeq DEF Text
        <5> QED BY <1>5, <1>6, <4>1, <5>1
      <4>2. CASE current # <<>>
        <5>1. closed = Append(pages, current)
          BY <2>3, <4>2
        <5>2. Append(pages, current) \in Pages
          BY <1>5, <4>2, FitsAppend
        <5>3. Said(Append(pages, current)) = Said(pages) \o Letters(current)
          BY <1>5, SaidAppend
        <5> QED BY <5>1, <5>2, <5>3
      <4> QED BY <4>1, <4>2
    <3> HIDE DEF closed
    <3>2. mid = [pages |-> closed \o Pieces(word, n), current |-> <<>>]
      BY <2>3
    <3>3. closed \o Pieces(word, n) \in Pages
      BY <1>4, <3>1, FitsConcat
    <3>4. Said(closed \o Pieces(word, n)) = Said(closed) \o front
      BY <1>4, <3>1, SaidConcat DEF Pages
    <3> HIDE DEF mid
    <3>5. SaidBy(mid) = (Said(closed) \o front) \o <<>>
      BY <1>6, <3>2, <3>4 DEF SaidBy
    <3>6. Said(closed) \in Text
      BY <3>1, SaidText DEF Pages
    <3>7. Said(closed) \o front \in Text
      BY <1>7, <3>6, TextAppend
    <3>8. (Said(closed) \o front) \o <<>> = Said(closed) \o front
      <4> DEFINE t == Said(closed) \o front
      <4>1. t \in Seq(Nat)
        BY <3>7 DEF Text
      <4> HIDE DEF t
      <4>2. t \o <<>> = t
        BY <4>1, ConcatEmptySeq
      <4> QED BY <4>2 DEF t
    <3>9. mid \in Begun
      <4> DEFINE p == closed \o Pieces(word, n)
                 none == <<>>
      <4>1. p \in Pages /\ none \in Text /\ Len(none) <= Width
        BY <1>1, <1>5, <3>3
      <4> HIDE DEF p, none
      <4>2. [pages |-> p, current |-> none] \in Begun
        BY <4>1, BegunRecord
      <4> QED BY <3>2, <4>2 DEF p, none
    <3>10. SaidBy(mid) = SaidBy(made) \o front
      <4> DEFINE a == Said(pages) \o Letters(current)
      <4>1. SaidBy(made) = a /\ Said(closed) = a
        BY <2>1, <3>1
      <4> HIDE DEF a
      <4> QED BY <3>5, <3>8, <4>1
    <3> QED BY <3>9, <3>10
  <2> HIDE DEF mid
  <2> QED BY <1>1, <2>2, <2>3
<1> HIDE DEF mid
<1>9. /\ Adding(mid, rest) \in Begun /\ Adding(mid, rest).current # <<>>
      /\ SaidBy(Adding(mid, rest)) = SaidBy(mid) \o rest
  BY <1>3, <1>8, AddingRest
<1>10. (SaidBy(made) \o front) \o rest = SaidBy(made) \o word
  <2>1. SaidBy(made) \in Text
    BY <1>6, TextAppend DEF SaidBy, pages, current
  <2>2. Regroups(SaidBy(made), front, rest)
    BY <1>7, <2>1, ConcatRegroups DEF Text
  <2> QED BY <1>3, <2>2 DEF Regroups
<1> QED BY <1>2, <1>8, <1>9, <1>10

-----------------------------------------------------------------------------
(* The whole text.                                                          *)

Speech == {s \in Seq(Seq(Seq(Nat \ {0}))) :
              s # <<>> /\ \A i \in 1..Len(s) : s[i] # <<>> /\ \A j \in 1..Len(s[i]) : s[i][j] # <<>>}

LEMMA SpeechTyped == Scenes \subseteq Speech
<1> SUFFICES ASSUME NEW s \in Scenes PROVE s \in Speech
  OBVIOUS
<1>1. s \in Seq(Seq(Seq(Nat \ {0}))) /\ s # <<>>
  BY DialogueAssumption
<1>2. DOMAIN s = 1..Len(s)
  BY <1>1, LenProperties
<1>3. ASSUME NEW i \in 1..Len(s) PROVE s[i] # <<>> /\ \A j \in 1..Len(s[i]) : s[i][j] # <<>>
  <2>1. s[i] # <<>> /\ <<>> \notin Range(s[i])
    BY <1>2, DialogueAssumption
  <2>2. s[i] \in Seq(Seq(Nat \ {0}))
    BY <1>1, ElementOfSeq
  <2>3. DOMAIN s[i] = 1..Len(s[i])
    BY <2>2, LenProperties
  <2> QED BY <2>1, <2>3 DEF Range
<1> QED BY <1>1, <1>3 DEF Speech

\* A paragraph, word by word.
LEMMA AddParagraphSays ==
    ASSUME NEW pages \in Pages, NEW words \in Seq(Word), words # <<>>
    PROVE  /\ AddParagraph(pages, words) \in Pages /\ AddParagraph(pages, words) # <<>>
           /\ Said(AddParagraph(pages, words)) = Said(pages) \o FlattenSeq(words)
<1> DEFINE n == Len(words)
           none == [pages |-> pages, current |-> <<>>]
           step == [i \in 1..n |-> [made \in Begun |-> AddWord(made, words[i])]]
           Makes(f) == f = [i \in 0..n |-> IF i = 0 THEN none ELSE AddWord(f[i - 1], words[i])]
           k == CHOOSE f : Makes(f)
<1>1. n \in Nat /\ n # 0 /\ n \in 0..n /\ \A i \in 1..n : words[i] \in Word
  BY LenProperties, ElementOfSeq, EmptySeq
<1>2. none \in Begun
  <2>1. <<>> \in Text /\ Len(<<>>) <= Width
    BY EmptySeq, Sizes DEF Text
  <2> QED BY <2>1, BegunRecord
<1>3. step \in [1..n -> [Begun -> Begun]]
  <2>1. \A i \in 1..n, made \in Begun : AddWord(made, words[i]) \in Begun
    BY <1>1, AddWordSays
  <2> QED BY <2>1
<1>4. PICK g : Recurs(g, n, Begun, none, step)
  <2> HIDE DEF n, step, none
  <2> QED BY <1>1, <1>2, <1>3, Recursion
<1>5. g \in [0..n -> Begun] /\ g[0] = none /\ \A i \in 1..n : g[i] = step[i][g[i - 1]]
  BY <1>4 DEF Recurs
<1>6. \A i \in 1..n : g[i] = AddWord(g[i - 1], words[i])
  <2> TAKE i \in 1..n
  <2>1. i - 1 \in 0..n
    BY <1>1
  <2> QED BY <1>5, <2>1
<1> HIDE DEF none, step
<1>7. Makes(g)
  <2> DEFINE h == [i \in 0..n |-> IF i = 0 THEN none ELSE AddWord(g[i - 1], words[i])]
  <2>1. ASSUME NEW i \in 0..n PROVE g[i] = h[i]
    <3>1. i = 0 \/ i \in 1..n
      BY <1>1
    <3> QED BY <1>5, <1>6, <3>1
  <2>2. g = [i \in 0..n |-> g[i]] /\ h = [i \in 0..n |-> h[i]]
    BY <1>5
  <2> HIDE DEF h
  <2>3. g = h
    BY <2>1, <2>2
  <2> QED BY <2>3 DEF h
<1>8. Makes(k)
  <2> HIDE DEF Makes
  <2> QED BY <1>7
<1>9. AddParagraph(pages, words) = Append(k[n].pages, k[n].current)
  BY DEF AddParagraph, none
<1> HIDE DEF k
<1>10. \A i \in 0..n : k[i] = IF i = 0 THEN none ELSE AddWord(k[i - 1], words[i])
  <2> HIDE DEF n
  <2> QED BY <1>8
<1>11. k[n] = g[n]
  <2>1. k[0] = g[0]
    BY <1>1, <1>5, <1>10
  <2>2. ASSUME NEW i \in 0..(n - 1), k[i] = g[i] PROVE k[i + 1] = g[i + 1]
    <3>1. i + 1 \in 1..n /\ i + 1 \in 0..n /\ i + 1 # 0 /\ (i + 1) - 1 = i
      BY <1>1
    <3>2. k[i + 1] = AddWord(k[i], words[i + 1])
      BY <1>10, <3>1
    <3>3. g[i + 1] = AddWord(g[i], words[i + 1])
      BY <1>6, <3>1
    <3> QED BY <2>2, <3>2, <3>3
  <2> HIDE DEF n
  <2> QED BY <1>1, <2>1, <2>2, Agreement
<1> DEFINE said == [i \in 0..n |-> SaidBy(g[i])]
           text == [i \in 0..n |-> Said(pages) \o FlattenSeq(Firsts(words, i))]
<1>12. words \in Seq(Seq(Nat)) /\ Firsts(words, 0) = <<>> /\ Firsts(words, n) = words
  <2>1. Word \subseteq Seq(Nat)
    <3> SUFFICES ASSUME NEW w \in Word PROVE w \in Seq(Nat)
      OBVIOUS
    <3> QED BY LettersWord DEF Word, Text
  <2> QED BY <2>1, FirstsEnds, SeqMonotonic
<1>13. Said(pages) \in Text
  BY SaidText DEF Pages
<1>14. said[0] = text[0]
  <2>1. said[0] = SaidBy(none) /\ text[0] = Said(pages) \o FlattenSeq(Firsts(words, 0))
    BY <1>1, <1>5
  <2>2. SaidBy(none) = Said(pages) \o Letters(<<>>)
    BY SaidByRecord DEF none
  <2>3. Letters(<<>>) = <<>> /\ FlattenSeq(<<>>) = <<>>
    <3>1. <<>> \in Text /\ 0 \in Nat
      BY EmptySeq DEF Text
    <3>2. Letters(<<>>) = <<>>
      BY <3>1, LettersAppend
    <3> QED BY <3>2 DEF FlattenSeq
  <2> QED BY <1>12, <2>1, <2>2, <2>3
<1>15. ASSUME NEW i \in 0..(n - 1), said[i] = text[i]
       PROVE  said[i + 1] = text[i + 1]
  <2>1. i \in 0..n /\ i + 1 \in 1..n /\ i + 1 \in 0..n /\ (i + 1) - 1 = i
    BY <1>1
  <2> DEFINE w == words[i + 1]
             t == Firsts(words, i)
  <2>2. w \in Word /\ t \in Seq(Seq(Nat)) /\ w \in Seq(Nat) /\ Firsts(words, i + 1) = Append(t, w)
    BY <1>1, <1>12, <2>1, FirstsNext
  <2>3. g[i] \in Begun /\ g[i + 1] = AddWord(g[i], w)
    BY <1>5, <1>6, <2>1
  <2>4. said[i + 1] = SaidBy(g[i + 1]) /\ text[i + 1] = Said(pages) \o FlattenSeq(Firsts(words, i + 1))
    BY <2>1
  <2>5. SaidBy(g[i]) = Said(pages) \o FlattenSeq(t)
    BY <1>15, <2>1
  <2> HIDE DEF w, t, said, text
  <2>6. SaidBy(g[i + 1]) = SaidBy(g[i]) \o w
    BY <2>2, <2>3, AddWordSays
  <2>7. FlattenSeq(Append(t, w)) = FlattenSeq(t) \o w /\ FlattenSeq(t) \in Seq(Nat)
    BY <2>2, FlattenAppend
  <2>8. Regroups(Said(pages), FlattenSeq(t), w)
    BY <1>13, <2>2, <2>7, ConcatRegroups DEF Text
  <2> QED BY <2>2, <2>4, <2>5, <2>6, <2>7, <2>8 DEF Regroups
<1>16. SaidBy(g[n]) = Said(pages) \o FlattenSeq(words)
  <2>1. said[n] = text[n]
    <3> HIDE DEF said, text, n
    <3> QED BY <1>1, <1>14, <1>15, Agreement
  <2> QED BY <1>1, <1>12, <2>1
<1>17. g[n] \in Begun /\ g[n].current # <<>>
  <2>1. n \in 1..n /\ n - 1 \in 0..n
    BY <1>1
  <2>2. g[n - 1] \in Begun /\ g[n] = AddWord(g[n - 1], words[n]) /\ words[n] \in Word
    BY <1>1, <1>5, <1>6, <2>1
  <2> QED BY <2>2, AddWordSays
<1> DEFINE p == g[n].pages
           c == g[n].current
<1>18. p \in Pages /\ c \in Text /\ c # <<>> /\ Len(c) <= Width
  BY <1>17 DEF Begun, Pages
<1>19. SaidBy(g[n]) = Said(p) \o Letters(c)
  BY DEF SaidBy
<1> HIDE DEF p, c
<1>20. Append(p, c) \in Pages /\ Append(p, c) # <<>> /\ Said(Append(p, c)) = Said(p) \o Letters(c)
  <2>1. Append(p, c) \in Pages
    BY <1>18, FitsAppend
  <2>2. p \in Seq(Text) /\ c \in Text
    BY <1>18 DEF Pages
  <2>3. Append(p, c) # <<>>
    BY <2>2, AppendProperties
  <2>4. Said(Append(p, c)) = Said(p) \o Letters(c)
    BY <2>2, SaidAppend
  <2> QED BY <2>1, <2>3, <2>4
<1> QED BY <1>9, <1>11, <1>16, <1>19, <1>20 DEF p, c

\* Whatever is said is on the pages of its scene to the letter and in its order; no page
\* is empty and each fits (paginate_dialogue_text).
Faithful(paragraphs, pages) ==
    pages \in Pages /\ pages # <<>> /\ Said(pages) = FlattenSeq(FlattenSeq(paragraphs))

\* For every scene, as long and with words as long as they may be: paragraphs begin a
\* page of their own, lines are broken between words, a longer word is cut.
THEOREM Paginated ==
    ASSUME NEW paragraphs \in Scenes
    PROVE  Faithful(paragraphs, paginate_dialogue_text(paragraphs))
<1> DEFINE n == Len(paragraphs)
           step == [i \in 1..n |-> [pages \in Pages |-> AddParagraph(pages, paragraphs[i])]]
           Makes(f) == f = [i \in 0..n |-> IF i = 0 THEN <<>> ELSE AddParagraph(f[i - 1], paragraphs[i])]
           k == CHOOSE f : Makes(f)
<1>1. paragraphs \in Speech
  BY SpeechTyped
<1>2. /\ n \in Nat /\ n # 0 /\ n \in 0..n
      /\ \A i \in 1..n : paragraphs[i] \in Seq(Word) /\ paragraphs[i] # <<>>
  <2>1. n \in Nat /\ n # 0
    BY <1>1, LenProperties, EmptySeq DEF Speech
  <2>2. ASSUME NEW i \in 1..n PROVE paragraphs[i] \in Seq(Word) /\ paragraphs[i] # <<>>
    <3> DEFINE t == paragraphs[i]
    <3>1. t \in Seq(Seq(Nat \ {0})) /\ t # <<>> /\ \A j \in 1..Len(t) : t[j] # <<>>
      BY <1>1, ElementOfSeq DEF Speech
    <3>2. Len(t) \in Nat /\ DOMAIN t = 1..Len(t) /\ \A j \in 1..Len(t) : t[j] \in Seq(Nat \ {0})
      BY <3>1, LenProperties, ElementOfSeq
    <3> HIDE DEF t
    <3>3. \A j \in 1..Len(t) : t[j] \in Word
      BY <3>1, <3>2 DEF Word
    <3>4. t = [j \in 1..Len(t) |-> t[j]]
      BY <3>1, <3>2
    <3>5. t \in [1..Len(t) -> Word]
      BY <3>3, <3>4
    <3>6. t \in Seq(Word)
      BY <3>2, <3>5, IsSequence
    <3> QED BY <3>1, <3>6 DEF t
  <2> QED BY <2>1, <2>2
<1>3. <<>> \in Pages
  BY EmptySeq DEF Pages, Fits
<1>4. step \in [1..n -> [Pages -> Pages]]
  <2>1. \A i \in 1..n, pages \in Pages : AddParagraph(pages, paragraphs[i]) \in Pages
    BY <1>2, AddParagraphSays
  <2> QED BY <2>1
<1>5. PICK g : Recurs(g, n, Pages, <<>>, step)
  <2> HIDE DEF n, step
  <2> QED BY <1>2, <1>3, <1>4, Recursion
<1>6. g \in [0..n -> Pages] /\ g[0] = <<>> /\ \A i \in 1..n : g[i] = step[i][g[i - 1]]
  BY <1>5 DEF Recurs
<1>7. \A i \in 1..n : g[i] = AddParagraph(g[i - 1], paragraphs[i])
  <2> TAKE i \in 1..n
  <2>1. i - 1 \in 0..n
    BY <1>2
  <2> QED BY <1>6, <2>1
<1> HIDE DEF step
<1>8. Makes(g)
  <2> DEFINE h == [i \in 0..n |-> IF i = 0 THEN <<>> ELSE AddParagraph(g[i - 1], paragraphs[i])]
  <2>1. ASSUME NEW i \in 0..n PROVE g[i] = h[i]
    <3>1. i = 0 \/ i \in 1..n
      BY <1>2
    <3> QED BY <1>6, <1>7, <3>1
  <2>2. g = [i \in 0..n |-> g[i]] /\ h = [i \in 0..n |-> h[i]]
    BY <1>6
  <2> HIDE DEF h
  <2>3. g = h
    BY <2>1, <2>2
  <2> QED BY <2>3 DEF h
<1>9. Makes(k)
  <2> HIDE DEF Makes
  <2> QED BY <1>8
<1>10. paginate_dialogue_text(paragraphs) = k[n]
  BY DEF paginate_dialogue_text
<1> HIDE DEF k
<1>11. \A i \in 0..n : k[i] = IF i = 0 THEN <<>> ELSE AddParagraph(k[i - 1], paragraphs[i])
  <2> HIDE DEF n
  <2> QED BY <1>9
<1>12. k[n] = g[n]
  <2>1. k[0] = g[0]
    BY <1>2, <1>6, <1>11
  <2>2. ASSUME NEW i \in 0..(n - 1), k[i] = g[i] PROVE k[i + 1] = g[i + 1]
    <3>1. i + 1 \in 1..n /\ i + 1 \in 0..n /\ i + 1 # 0 /\ (i + 1) - 1 = i
      BY <1>2
    <3>2. k[i + 1] = AddParagraph(k[i], paragraphs[i + 1])
      BY <1>11, <3>1
    <3>3. g[i + 1] = AddParagraph(g[i], paragraphs[i + 1])
      BY <1>7, <3>1
    <3> QED BY <2>2, <3>2, <3>3
  <2>3. \A i \in 0..(n - 1) : k[i] = g[i] => k[i + 1] = g[i + 1]
    BY <2>2
  <2>0. n \in Nat
    BY <1>2
  <2> HIDE DEF n
  <2>4. \A i \in 0..n : k[i] = g[i]
    BY <2>0, <2>1, <2>3, Agreement
  <2> QED BY <1>2, <2>4
<1> DEFINE said == [i \in 0..n |-> Said(g[i])]
           text == [i \in 0..n |-> FlattenSeq(FlattenSeq(Firsts(paragraphs, i)))]
<1>13. /\ paragraphs \in Seq(Seq(Seq(Nat))) /\ Firsts(paragraphs, 0) = <<>>
       /\ Firsts(paragraphs, n) = paragraphs
  <2>1. Seq(Nat \ {0}) \subseteq Seq(Nat)
    BY SeqMonotonic
  <2>2. Seq(Seq(Nat \ {0})) \subseteq Seq(Seq(Nat))
    BY <2>1, SeqMonotonic
  <2>3. paragraphs \in Seq(Seq(Seq(Nat)))
    BY <1>1, <2>2, SeqMonotonic DEF Speech
  <2> QED BY <2>3, FirstsEnds
<1>14. said[0] = text[0]
  <2>1. said[0] = Said(<<>>) /\ text[0] = FlattenSeq(FlattenSeq(<<>>))
    BY <1>2, <1>6, <1>13
  <2>2. Said(<<>>) = <<>>
    BY <1>3, SaidText DEF Pages
  <2>3. FlattenSeq(<<>>) = <<>>
    BY DEF FlattenSeq
  <2> QED BY <2>1, <2>2, <2>3
<1>15. ASSUME NEW i \in 0..(n - 1), said[i] = text[i]
       PROVE  said[i + 1] = text[i + 1]
  <2>1. i \in 0..n /\ i + 1 \in 1..n /\ i + 1 \in 0..n /\ (i + 1) - 1 = i
    BY <1>2
  <2> DEFINE t == Firsts(paragraphs, i)
             x == paragraphs[i + 1]
  <2>2. /\ x \in Seq(Word) /\ x # <<>> /\ t \in Seq(Seq(Seq(Nat))) /\ x \in Seq(Seq(Nat))
        /\ Firsts(paragraphs, i + 1) = Append(t, x)
    BY <1>2, <1>13, <2>1, FirstsNext
  <2>3. g[i] \in Pages /\ g[i + 1] = AddParagraph(g[i], x)
    BY <1>6, <1>7, <2>1
  <2>4. said[i + 1] = Said(g[i + 1]) /\ text[i + 1] = FlattenSeq(FlattenSeq(Firsts(paragraphs, i + 1)))
    BY <2>1
  <2>5. Said(g[i]) = FlattenSeq(FlattenSeq(t))
    BY <1>15, <2>1
  <2> HIDE DEF t, x, said, text
  <2>6. Said(g[i + 1]) = Said(g[i]) \o FlattenSeq(x)
    BY <2>2, <2>3, AddParagraphSays
  <2>7. FlattenSeq(Append(t, x)) = FlattenSeq(t) \o x /\ FlattenSeq(t) \in Seq(Seq(Nat))
    BY <2>2, FlattenAppend
  <2> DEFINE f == FlattenSeq(t)
  <2> HIDE DEF f
  <2>8. FlattenSeq(f \o x) = FlattenSeq(f) \o FlattenSeq(x)
    BY <2>2, <2>7, FlattenConcat DEF f
  <2> QED BY <2>2, <2>4, <2>5, <2>6, <2>7, <2>8 DEF f
<1>16. Said(g[n]) = FlattenSeq(FlattenSeq(paragraphs))
  <2>1. said[n] = text[n]
    <3> HIDE DEF said, text, n
    <3>1. \A i \in 0..(n - 1) : said[i] = text[i] => said[i + 1] = text[i + 1]
      BY <1>15
    <3>0. n \in Nat
      BY <1>2
    <3>2. \A i \in 0..n : said[i] = text[i]
      BY <3>0, <1>14, <3>1, Agreement
    <3> QED BY <1>2, <3>2
  <2> QED BY <1>2, <1>13, <2>1
<1>17. g[n] \in Pages /\ g[n] # <<>>
  <2>1. n \in 1..n /\ n - 1 \in 0..n
    BY <1>2
  <2>2. g[n - 1] \in Pages /\ g[n] = AddParagraph(g[n - 1], paragraphs[n])
    BY <1>6, <1>7, <2>1
  <2> QED BY <1>2, <2>1, <2>2, AddParagraphSays
<1> QED BY <1>10, <1>12, <1>16, <1>17 DEF Faithful

-----------------------------------------------------------------------------
(* The invariant.                                                           *)

Whole == paginate_dialogue_text(speech)
Count(i) == Len(dialogue_page_chunks(Whole[i]))
Reported == [pickup : Nat, decline : BOOLEAN]
Client == [text : Text, next_chunk : Nat, page_index : Nat, last : BOOLEAN, dirty : BOOLEAN,
           request : BOOLEAN, active : BOOLEAN, shown : Nat, waiting : BOOLEAN, pickup : Nat]
Past == [lost : Nat, early : Nat, drawn : Seq(Text), again : BOOLEAN, said : {"none", "A", "B"}]

\* A scene is at a page of its speech, of which some chunks were sent.
Open(d) ==
    /\ d \in Scene /\ d.pages = Whole /\ d.index \in 1..Len(Whole) /\ d.chunk <= Count(d.index)

TypeOK ==
    /\ speech \in Scenes /\ answered \in Nat /\ outcome \in {"none", "accepted", "declined"}
    /\ scene = Nothing \/ Open(scene)
    /\ outcome = "none" <=> scene # Nothing
    /\ latest \in Reported /\ up \in Seq(Reported)
    /\ slot \in Packet \cup {Nothing} /\ down \in Seq(Packet)
    /\ client \in Client /\ past \in Past

\* The counters of reports under way do not fall, and are in bounds.
Rising(low, reports, high) ==
    /\ \A i \in 1..Len(reports) : low <= reports[i].pickup /\ reports[i].pickup <= high
    /\ \A i, j \in 1..Len(reports) : i <= j => reports[i].pickup <= reports[j].pickup

\* Without early answers the counters of the answer rise from the server's last to the
\* client's, which is of a page that was drawn; and a player who is asked has not answered.
Counted ==
    past.early = 0 =>
        /\ Turned <= answered /\ answered <= latest.pickup /\ latest.pickup <= client.pickup
        /\ client.pickup <= Len(past.drawn)
        /\ Rising(latest.pickup, up, client.pickup)
        /\ client.active /\ client.shown # 0 /\ ~client.waiting => client.pickup < Len(past.drawn)

\* The page being told, the chunks of it that were sent, and those that came.
Page == IF scene = Nothing THEN Len(Whole) ELSE scene.index
Sent == IF scene = Nothing THEN Count(Len(Whole)) ELSE scene.chunk
Came == IF client.page_index = Page THEN client.next_chunk ELSE 0

PacketOf(i, x) ==
    [index |-> i, chunk |-> x - 1, text |-> dialogue_page_chunks(Whole[i])[x],
     end |-> x = Count(i), last |-> x = Count(i) /\ i = Len(Whole)]

\* The letters of a page in its first m chunks.
Part(page, m) == Firsts(page, IF m * Chunk <= Len(page) THEN m * Chunk ELSE Len(page))

\* What the client does while page i is on its way; when it is there; drawn; answered.
Waits(i) ==
    /\ Came < Count(i) /\ ~client.dirty /\ ~client.request
    /\ Len(past.drawn) = i - 1 /\ client.pickup = i - 1
    /\ IF i = 1 THEN ~client.active ELSE client.active /\ client.waiting /\ client.shown = i - 1
There(i) ==
    /\ Came = Count(i) /\ client.last = (i = Len(Whole)) /\ client.dirty
    /\ Len(past.drawn) = i - 1 /\ client.pickup = i - 1
    /\ \/ i = 1 /\ ~client.active
       \/ i = 1 /\ client.active /\ client.shown = 0 /\ ~client.request
       \/ i > 1 /\ client.active /\ client.waiting /\ client.shown = i - 1 /\ ~client.request
Drawn(i) ==
    /\ Came = Count(i) /\ client.last = (i = Len(Whole)) /\ ~client.dirty /\ ~client.request
    /\ Len(past.drawn) = i /\ client.pickup = i - 1
    /\ client.active /\ ~client.waiting /\ client.shown = i
Answered(i) ==
    /\ Came = Count(i) /\ ~client.dirty /\ ~client.request
    /\ Len(past.drawn) = i /\ client.pickup = i
    /\ IF i = Len(Whole) THEN ~client.active ELSE client.active /\ client.waiting /\ client.shown = i

\* The chunks under way are those that were sent and did not come, in their order.
Ordered ==
    /\ \A x \in 1..Len(down) : down[x] = PacketOf(Page, Came + x)
    /\ slot # Nothing => slot = PacketOf(Page, Came + Len(down) + 1)
    /\ Sent = Came + Len(down) + (IF slot = Nothing THEN 0 ELSE 1)

Clean == past.lost = 0 /\ past.early = 0 /\ ~past.again

\* While nothing was lost or sent again, and nobody answered early, one page is under way.
Following ==
    Clean =>
        /\ client.page_index \in {Page - 1, Page} /\ Ordered
        /\ Came > 0 => client.text = Part(Whole[Page], Came)
        /\ Waits(Page) \/ There(Page) \/ Drawn(Page) \/ Answered(Page)
        /\ IF scene = Nothing THEN Answered(Page) ELSE answered = Page - 1
        /\ past.drawn = Firsts(Whole, Len(past.drawn))

DialogueInv == TypeOK /\ Counted /\ Following

-----------------------------------------------------------------------------
(* Chunks.                                                                  *)

LEMMA MinOf ==
    ASSUME NEW a \in Nat, NEW b \in Nat
    PROVE  Min({a, b}) = IF a <= b THEN a ELSE b
<1> DEFINE S == {a, b}
<1>1. \E x \in S : \A y \in S : x <= y
  BY a <= b \/ b <= a
<1>2. Min(S) \in S /\ \A y \in S : Min(S) <= y
  BY <1>1 DEF Min
<1> QED BY <1>2

LEMMA PartText ==
    ASSUME NEW page \in Text, NEW k \in 0..Len(page)
    PROVE  Firsts(page, k) \in Text
<1>1. Len(page) \in Nat /\ \A j \in 1..k : page[j] \in Nat
  BY LenProperties, ElementOfSeq DEF Text
<1> QED BY <1>1, SubSeqProperties DEF Firsts, Text

\* A page's chunks, one after the other, are the page.
LEMMA ChunksOf ==
    ASSUME NEW page \in Text, page # <<>>
    PROVE  LET chunks == dialogue_page_chunks(page)
           IN  /\ Len(chunks) \in Nat \ {0} /\ Part(page, Len(chunks)) = page
               /\ \A m \in 1..Len(chunks) : chunks[m] \in Text
               /\ \A m \in 1..(Len(chunks) - 1) : Part(page, m) \o chunks[m + 1] = Part(page, m + 1)
               /\ chunks[1] = Part(page, 1)
<1> DEFINE chunks == dialogue_page_chunks(page)
           n == (Len(page) + Chunk - 1) \div Chunk
           C == Chunk
           L == Len(page)
           End(m) == IF m * C <= L THEN m * C ELSE L
<1>1. C \in Nat /\ C > 0 /\ L \in Nat /\ L > 0
  BY Sizes, LenProperties, EmptySeq DEF Text
<1>2. n \in Nat /\ n * C <= L + C - 1 /\ L + C - 1 < n * C + C
  <2> DEFINE a == L + C - 1
  <2>1. a \in Nat
    BY <1>1
  <2>2. n = a \div C
    OBVIOUS
  <2> HIDE DEF a, n, C
  <2>3. n \in Nat /\ n * C <= a /\ a < n * C + C
    BY <1>1, <2>1, <2>2, Dividing
  <2> QED BY <2>3 DEF a
<1> HIDE DEF C, L
<1>3. n # 0
  <2>1. n = 0 => n * C = 0
    BY <1>1
  <2> HIDE DEF n
  <2> QED BY <1>1, <1>2, <2>1
<1>4. ASSUME NEW m \in 1..n
      PROVE  /\ (m - 1) * C \in Nat /\ m * C \in Nat /\ m * C = (m - 1) * C + C /\ (m - 1) * C < L
             /\ (m < n => m * C < L)
  <2> HIDE DEF n
  <2>1. (m - 1) * C \in Nat /\ m * C \in Nat /\ m * C = (m - 1) * C + C
    BY <1>1, <1>2
  <2>2. n * C = m * C + (n - m) * C /\ (n - m) * C \in Nat
    BY <1>1, <1>2
  <2>3. m < n => (n - m) * C >= C
    <3> SUFFICES ASSUME m < n PROVE (n - m) * C >= C
      OBVIOUS
    <3>1. (n - m) * C = (n - m - 1) * C + C /\ (n - m - 1) * C \in Nat
      BY <1>1, <1>2
    <3> QED BY <1>1, <3>1
  <2>4. n * C \in Nat
    BY <1>1, <1>2
  <2> DEFINE a == (m - 1) * C
             b == m * C
             c == (n - m) * C
             d == n * C
  <2>5. a \in Nat /\ b = a + C /\ d = b + c /\ c \in Nat /\ (m < n => c >= C) /\ d <= L + C - 1
    BY <1>2, <2>1, <2>2, <2>3
  <2> HIDE DEF a, b, c, d
  <2>6. a < L /\ (m < n => b < L)
    BY <1>1, <2>5
  <2> QED BY <2>1, <2>6 DEF a, b
<1>5. ASSUME NEW m \in 1..n
      PROVE  chunks[m] = SubSeq(page, (m - 1) * C + 1, End(m)) /\ End(m) \in Nat /\ End(m) <= L /\ (m - 1) * C < End(m)
  <2>1. chunks[m] = SubSeq(page, (m - 1) * C + 1, Min({m * C, L}))
    BY DEF dialogue_page_chunks, C, L
  <2>2. m * C \in Nat /\ L \in Nat
    BY <1>1, <1>4
  <2>3. Min({m * C, L}) = End(m)
    BY <2>2, MinOf
  <2>4. End(m) \in Nat /\ End(m) <= L /\ (m - 1) * C < End(m)
    BY <1>1, <1>4
  <2> QED BY <2>1, <2>3, <2>4
<1>6. Len(chunks) = n
  <2>1. chunks = [i \in 1..n |-> chunks[i]]
    BY DEF dialogue_page_chunks
  <2> HIDE DEF chunks, n
  <2> QED BY <1>2, <2>1
<1>7. \A m \in Nat : Part(page, m) = Firsts(page, End(m))
  BY DEF Part, C, L
<1>8. page \in Seq(Nat) /\ \A j \in 1..L : page[j] \in Nat
  BY ElementOfSeq DEF Text, L
<1> HIDE DEF chunks, n
<1>9. End(n) = L
  <2> DEFINE d == n * C
  <2>1. d \in Nat /\ L + C - 1 < d + C
    BY <1>1, <1>2
  <2> HIDE DEF d
  <2>2. ~(d < L)
    BY <1>1, <2>1
  <2> QED BY <1>1, <2>1, <2>2 DEF d
<1>10. Part(page, n) = page
  <2>1. Firsts(page, L) = page
    BY <1>8, FirstsEnds DEF L
  <2> HIDE DEF End
  <2> QED BY <1>2, <1>7, <1>9, <2>1
<1>11. ASSUME NEW m \in 1..n PROVE chunks[m] \in Text
  <2> DEFINE a == (m - 1) * C
             b == End(m)
  <2>1. a \in Nat /\ b \in Nat /\ b <= L /\ a < b /\ chunks[m] = SubSeq(page, a + 1, b)
    BY <1>4, <1>5
  <2> HIDE DEF a, b
  <2>2. \A j \in (a + 1)..b : page[j] \in Nat
    <3> TAKE j \in (a + 1)..b
    <3>1. j \in 1..L
      BY <1>1, <2>1
    <3> QED BY <1>8, <3>1
  <2>3. SubSeq(page, a + 1, b) \in Seq(Nat)
    BY <2>1, <2>2, SubSeqProperties
  <2> QED BY <2>1, <2>3 DEF Text
<1>12. ASSUME NEW m \in 1..(n - 1) PROVE Part(page, m) \o chunks[m + 1] = Part(page, m + 1)
  <2>1. m \in 1..n /\ m + 1 \in 1..n /\ m < n /\ (m + 1) - 1 = m /\ m \in Nat /\ m + 1 \in Nat
    BY <1>2
  <2> DEFINE a == m * C
             b == End(m + 1)
  <2>2. a \in Nat /\ b \in Nat /\ b <= L /\ a < b /\ chunks[m + 1] = SubSeq(page, a + 1, b)
    BY <1>4, <1>5, <2>1
  <2>3. Part(page, m) = SubSeq(page, 1, a)
    <3>1. End(m) = a
      BY <1>1, <1>4, <2>1
    <3> HIDE DEF End, a
    <3> QED BY <1>7, <2>1, <3>1 DEF Firsts
  <2>4. Part(page, m + 1) = SubSeq(page, 1, b)
    <3> HIDE DEF End
    <3> QED BY <1>7, <2>1 DEF Firsts
  <2> HIDE DEF a, b
  <2>5. 1 \in 1..(Len(page) + 1) /\ a \in (1 - 1)..Len(page) /\ b \in a..Len(page)
    BY <1>1, <2>2 DEF L
  <2>6. SubSeq(page, 1, a) \o SubSeq(page, a + 1, b) = SubSeq(page, 1, b)
    BY <1>8, <2>5, ConcatAdjacentSubSeq
  <2> QED BY <2>2, <2>3, <2>4, <2>6
<1>13. chunks[1] = Part(page, 1)
  <2>1. 1 \in 1..n /\ (1 - 1) * C = 0
    BY <1>1, <1>2, <1>3
  <2>2. chunks[1] = SubSeq(page, (1 - 1) * C + 1, End(1))
    BY <1>5, <2>1
  <2> HIDE DEF End
  <2>3. (1 - 1) * C + 1 = 1
    BY <2>1
  <2> QED BY <1>7, <2>2, <2>3 DEF Firsts
<1> QED BY <1>2, <1>3, <1>6, <1>10, <1>11, <1>12, <1>13 DEF chunks

\* The pages of what is said, and their chunks.
LEMMA WholeText ==
    ASSUME speech \in Scenes
    PROVE  /\ Whole \in Seq(Text) /\ Len(Whole) \in Nat \ {0} /\ Said(Whole) = FlattenSeq(FlattenSeq(speech))
           /\ \A i \in 1..Len(Whole) : Whole[i] \in Text /\ Whole[i] # <<>> /\ Len(Whole[i]) <= Width
<1>1. Faithful(speech, Whole)
  BY Paginated DEF Whole
<1>2. Whole \in Seq(Text) /\ Whole # <<>> /\ Fits(Whole) /\ Said(Whole) = FlattenSeq(FlattenSeq(speech))
  BY <1>1 DEF Faithful, Pages
<1> HIDE DEF Whole
<1>3. Len(Whole) \in Nat \ {0}
  BY <1>2, LenProperties, EmptySeq
<1>4. \A i \in 1..Len(Whole) : Whole[i] \in Text
  BY <1>2, ElementOfSeq
<1> QED BY <1>2, <1>3, <1>4 DEF Fits

LEMMA WholeChunks ==
    ASSUME speech \in Scenes, NEW i \in 1..Len(Whole)
    PROVE  /\ Count(i) \in Nat \ {0} /\ Part(Whole[i], Count(i)) = Whole[i]
           /\ \A x \in 1..Count(i) : PacketOf(i, x) \in Packet
           /\ PacketOf(i, 1).text = Part(Whole[i], 1)
           /\ \A x \in 1..(Count(i) - 1) : Part(Whole[i], x) \o PacketOf(i, x + 1).text = Part(Whole[i], x + 1)
<1> DEFINE page == Whole[i]
           chunks == dialogue_page_chunks(page)
           k == Count(i)
<1>1. page \in Text /\ page # <<>> /\ Len(Whole) \in Nat
  BY WholeText
<1>2. k = Len(chunks)
  BY DEF Count
<1> HIDE DEF page
<1>3. /\ Len(chunks) \in Nat \ {0} /\ Part(page, Len(chunks)) = page
      /\ \A m \in 1..Len(chunks) : chunks[m] \in Text
      /\ \A m \in 1..(Len(chunks) - 1) : Part(page, m) \o chunks[m + 1] = Part(page, m + 1)
      /\ chunks[1] = Part(page, 1)
  BY <1>1, ChunksOf
<1>4. \A x : PacketOf(i, x).text = chunks[x]
  BY DEF PacketOf, page
<1> HIDE DEF k, chunks
<1>5. ASSUME NEW x \in 1..k PROVE PacketOf(i, x) \in Packet
  <2>1. x - 1 \in Nat /\ i \in Nat \ {0} /\ chunks[x] \in Text
    BY <1>1, <1>2, <1>3
  <2>2. PacketOf(i, x) = [index |-> i, chunk |-> x - 1, text |-> chunks[x], end |-> x = k, last |-> x = k /\ i = Len(Whole)]
    BY DEF PacketOf, k, chunks, page
  <2> DEFINE end == x = k
             last == x = k /\ i = Len(Whole)
  <2>3. end \in BOOLEAN /\ last \in BOOLEAN
    OBVIOUS
  <2> HIDE DEF end, last
  <2>4. PacketOf(i, x) = [index |-> i, chunk |-> x - 1, text |-> chunks[x], end |-> end, last |-> last]
    BY <2>2 DEF end, last
  <2> QED BY <2>1, <2>3, <2>4 DEF Packet
<1> HIDE DEF Part
<1> QED BY <1>2, <1>3, <1>4, <1>5 DEF k, page

\* The speech stays, and its pages with it.
LEMMA WholeStays ==
    ASSUME speech' = speech
    PROVE  /\ Whole' = Whole /\ \A i : Count(i)' = Count(i) /\ Whole'[i] = Whole[i]
           /\ \A i, x : PacketOf(i, x)' = PacketOf(i, x)
<1>1. Whole' = Whole
  BY DEF Whole
<1> HIDE DEF Whole
<1>2. \A i : Count(i)' = Count(i)
  BY <1>1 DEF Count
<1> QED BY <1>1, <1>2 DEF PacketOf

-----------------------------------------------------------------------------
(* What a tick sends.                                                       *)

LEMMA Building ==
    ASSUME speech \in Scenes, NEW r, Open(r), r.chunk # Count(r.index)
    PROVE  /\ _build_dialogue_packet(r) = PacketOf(r.index, r.chunk + 1)
           /\ _build_dialogue_packet(r) \in Packet /\ _build_dialogue_packet(r) # Nothing
<1>1. r.chunk \in Nat /\ r.index \in 1..Len(Whole) /\ r.chunk <= Count(r.index) /\ r.pages = Whole
  BY DEF Open, Scene
<1>2. Count(r.index) \in Nat \ {0}
  BY <1>1, WholeChunks
<1>3. r.chunk + 1 \in 1..Count(r.index) /\ (r.chunk + 1) - 1 = r.chunk
  BY <1>1, <1>2
<1>4. _build_dialogue_packet(r) = PacketOf(r.index, r.chunk + 1)
  BY <1>1, <1>3 DEF _build_dialogue_packet, PacketOf, Count
<1>5. PacketOf(r.index, r.chunk + 1) \in Packet
  BY <1>1, <1>3, WholeChunks
<1> QED BY <1>4, <1>5, NothingAssumption

LEMMA Rewinding ==
    ASSUME speech \in Scenes, NEW d, Open(d)
    PROVE  /\ Open(Rewound(d)) /\ Rewound(d).index = d.index
           /\ \/ Rewound(d).chunk = d.chunk /\ Rewound(d).resends_left = d.resends_left
              \/ Rewound(d).resends_left < d.resends_left
<1> DEFINE r == Rewound(d)
           late == [d EXCEPT !.resend_timer = @ - 1]
           again == [d EXCEPT !.resend_timer = Interval, !.resends_left = @ - 1, !.chunk = 0]
<1>1. /\ d \in Scene /\ d.pages = Whole /\ d.index \in 1..Len(Whole) /\ d.chunk <= Count(d.index)
      /\ d.resend_timer \in Nat /\ d.resends_left \in Nat /\ Interval \in Nat
  BY DialogueAssumption DEF Open, Scene
<1>2. Count(d.index) \in Nat
  BY <1>1, WholeChunks
<1>3. \/ r = d
      \/ d.resends_left # 0 /\ ((r = late /\ d.resend_timer > 1) \/ r = again)
  BY DEF Rewound
<1> HIDE DEF r
<1>4. CASE r = d
  BY <1>1, <1>4 DEF r
<1>5. CASE r = late /\ d.resend_timer > 1
  <2>1. r \in Scene /\ r.pages = d.pages /\ r.index = d.index /\ r.chunk = d.chunk /\ r.resends_left = d.resends_left
    BY <1>1, <1>5 DEF Scene
  <2> QED BY <1>1, <2>1 DEF r, Open
<1>6. CASE r = again /\ d.resends_left # 0
  <2> DEFINE left == d.resends_left - 1
  <2>0. left \in Nat /\ r = [d EXCEPT !.resend_timer = Interval, !.resends_left = left, !.chunk = 0]
    BY <1>1, <1>6
  <2> HIDE DEF again, left
  <2>1. r \in Scene /\ r.pages = d.pages /\ r.index = d.index /\ r.chunk = 0 /\ r.resends_left = left
    BY <1>1, <2>0 DEF Scene
  <2>2. r.resends_left < d.resends_left
    BY <1>1, <2>1 DEF left
  <2>3. r.index \in 1..Len(Whole) /\ r.chunk <= Count(r.index) /\ r.pages = Whole
    BY <1>1, <1>2, <2>1
  <2>4. Open(r)
    BY <2>1, <2>3 DEF Open
  <2> QED BY <2>1, <2>2, <2>4 DEF r
<1> QED BY <1>3, <1>4, <1>5, <1>6

\* The next chunk, nothing once all were sent, or a page again.
LEMMA Sending ==
    ASSUME speech \in Scenes, NEW d, Open(d)
    PROVE  LET out == dialogue_page_to_send(d)
           IN  /\ Open(out[1]) /\ out[1].index = d.index /\ out[2] \in Packet \cup {Nothing}
               /\ \/ out[2] = Nothing /\ d.chunk = Count(d.index) /\ out[1].chunk = d.chunk
                  \/ /\ out[2] = PacketOf(d.index, d.chunk + 1) /\ out[2] \in Packet /\ out[2] # Nothing
                     /\ d.chunk < Count(d.index) /\ out[1].chunk = d.chunk + 1
                  \/ out[1].resends_left < d.resends_left
<1> DEFINE r == Rewound(d)
           k == Count(d.index)
           out == dialogue_page_to_send(d)
           next == [r EXCEPT !.chunk = @ + 1]
<1>1. d # Nothing
  BY NothingAssumption DEF Open
<1>2. Open(r) /\ r.index = d.index
  BY Rewinding
<1>3. (r.chunk = d.chunk /\ r.resends_left = d.resends_left) \/ r.resends_left < d.resends_left
  BY Rewinding
<1>4. r \in Scene /\ r.pages = Whole /\ r.index \in 1..Len(Whole) /\ r.chunk <= k /\ r.chunk \in Nat
  BY <1>2 DEF Open, Scene
<1>5. k \in Nat
  BY <1>2, <1>4, WholeChunks
<1>6. out = IF r.chunk = k THEN <<r, Nothing>> ELSE <<next, _build_dialogue_packet(r)>>
  BY <1>1, <1>2, <1>4 DEF dialogue_page_to_send, Count
<1>7. r.chunk # k => /\ _build_dialogue_packet(r) = PacketOf(r.index, r.chunk + 1)
                     /\ _build_dialogue_packet(r) \in Packet /\ _build_dialogue_packet(r) # Nothing
  BY <1>2, Building
<1>8. next \in Scene /\ next.pages = r.pages /\ next.index = r.index /\ next.chunk = r.chunk + 1 /\ next.resends_left = r.resends_left
  BY <1>4 DEF Scene
<1> HIDE DEF r, out, next, k
<1>9. CASE r.chunk = k
  <2>1. out[1] = r /\ out[2] = Nothing
    BY <1>6, <1>9
  <2> QED BY <1>2, <1>3, <1>9, <2>1 DEF k, out
<1>10. CASE r.chunk # k
  <2>1. out[1] = next /\ out[2] = _build_dialogue_packet(r)
    BY <1>6, <1>10
  <2>2. r.chunk < k
    BY <1>4, <1>5, <1>10
  <2>3. Open(next)
    BY <1>2, <1>4, <1>5, <1>8, <2>2 DEF Open, k
  <2> QED BY <1>2, <1>3, <1>7, <1>8, <1>10, <2>1, <2>2, <2>3 DEF k, out
<1> QED BY <1>9, <1>10

\* An answer that is new turns the page or closes the scene.
LEMMA Turning ==
    ASSUME speech \in Scenes, outcome \in {"none", "accepted", "declined"}, NEW s,
           scene = Nothing \/ Open(scene), outcome = "none" <=> scene # Nothing
    PROVE  LET after == _apply_player_state_pickup(s)
           IN  /\ after[1] = Nothing \/ Open(after[1])
               /\ after[2] \in {"none", "accepted", "declined"} /\ (after[2] = "none" <=> after[1] # Nothing)
               /\ s.pickup = answered \/ scene = Nothing => after[1] = scene
               /\ s.pickup # answered /\ scene # Nothing =>
                     IF scene.index = Len(Whole) THEN after[1] = Nothing
                     ELSE after[1] # Nothing /\ after[1].index = scene.index + 1 /\ after[1].chunk = 0
<1> DEFINE after == _apply_player_state_pickup(s)
           next == AtPage(Whole, scene.index + 1)
<1>1. CASE s.pickup = answered \/ scene = Nothing
  <2>1. after[1] = scene /\ after[2] = outcome
    BY <1>1 DEF _apply_player_state_pickup
  <2> HIDE DEF after
  <2> QED BY <1>1, <2>1 DEF after
<1>2. CASE s.pickup # answered /\ scene # Nothing
  <2>1. scene \in Scene /\ scene.pages = Whole /\ scene.index \in 1..Len(Whole) /\ Len(Whole) \in Nat
    BY <1>2, WholeText DEF Open
  <2>2. after = IF scene.index < Len(Whole) THEN <<next, outcome>>
                ELSE <<Nothing, IF ~s.decline THEN "accepted" ELSE "declined">>
    BY <1>2, <2>1 DEF _apply_player_state_pickup, advance_dialogue
  <2> HIDE DEF after
  <2>3. CASE scene.index < Len(Whole)
    <3>1. after[1] = next /\ after[2] = outcome
      BY <2>2, <2>3
    <3>2. Whole \in Seq(Text) /\ Interval \in Nat /\ Resends \in Nat
      BY WholeText, DialogueAssumption
    <3>3. next \in Scene /\ next.pages = Whole /\ next.index = scene.index + 1 /\ next.chunk = 0
      BY <2>1, <3>2 DEF AtPage, Scene
    <3>4. next.index \in 1..Len(Whole)
      BY <2>1, <2>3, <3>3
    <3>5. Count(next.index) \in Nat
      BY <3>4, WholeChunks
    <3>6. Open(next) /\ next # Nothing
      BY <3>3, <3>4, <3>5, NothingAssumption DEF Open
    <3> HIDE DEF next
    <3> QED BY <1>2, <2>1, <2>3, <3>1, <3>3, <3>6 DEF after
  <2>4. CASE ~(scene.index < Len(Whole))
    <3>1. after[1] = Nothing /\ after[2] \in {"accepted", "declined"}
      BY <2>2, <2>4
    <3>2. scene.index = Len(Whole)
      BY <2>1, <2>4
    <3> QED BY <1>2, <3>1, <3>2 DEF after
  <2> QED BY <2>3, <2>4
<1> QED BY <1>1, <1>2

-----------------------------------------------------------------------------
(* The invariant holds at first.                                            *)

LEMMA Initially == Init => DialogueInv
<1> SUFFICES ASSUME Init PROVE DialogueInv
  OBVIOUS
<1>1. /\ speech \in Scenes /\ answered = 0 /\ outcome = "none" /\ latest = [pickup |-> 0, decline |-> FALSE]
      /\ slot = Nothing /\ down = <<>> /\ up = <<>>
  BY DEF Init
<1>2. scene = AtPage(Whole, 1)
  BY DEF Init, open_dialogue, Whole
<1>3. /\ client.next_chunk = 0 /\ client.page_index = 0 /\ client.last = FALSE /\ client.dirty = FALSE
      /\ client.request = FALSE /\ client.active = FALSE /\ client.shown = 0 /\ client.waiting = FALSE
      /\ client.pickup = 0 /\ client \in Client
  <2>1. <<>> \in Text
    BY EmptySeq DEF Text
  <2> QED BY <2>1 DEF Init, Client
<1>4. past.lost = 0 /\ past.early = 0 /\ past.drawn = <<>> /\ past.again = FALSE /\ past \in Past
  <2>1. <<>> \in Seq(Text)
    BY EmptySeq
  <2> QED BY <2>1 DEF Init, Past
<1>5. /\ Whole \in Seq(Text) /\ Len(Whole) \in Nat \ {0} /\ 1 \in 1..Len(Whole)
      /\ Count(1) \in Nat \ {0} /\ Interval \in Nat /\ Resends \in Nat
  <2>1. Whole \in Seq(Text) /\ Len(Whole) \in Nat \ {0} /\ Interval \in Nat /\ Resends \in Nat
    BY <1>1, WholeText, DialogueAssumption
  <2>2. 1 \in 1..Len(Whole)
    BY <2>1
  <2> QED BY <1>1, <2>1, <2>2, WholeChunks
<1>6. scene \in Scene /\ scene.pages = Whole /\ scene.index = 1 /\ scene.chunk = 0
  BY <1>2, <1>5 DEF AtPage, Scene
<1>7. Open(scene) /\ scene # Nothing
  BY <1>5, <1>6, NothingAssumption DEF Open
<1>8. down \in Seq(Packet) /\ up \in Seq(Reported) /\ Len(down) = 0 /\ Len(up) = 0 /\ Len(past.drawn) = 0
  BY <1>1, <1>4, EmptySeq
<1>9. TypeOK
  BY <1>1, <1>3, <1>4, <1>7, <1>8 DEF TypeOK, Reported
<1>10. Counted
  BY <1>1, <1>3, <1>6, <1>7, <1>8 DEF Counted, Turned, Rising
<1>11. Page = 1 /\ Sent = 0 /\ Came = 0
  BY <1>3, <1>6, <1>7 DEF Page, Sent, Came
<1>12. Ordered /\ Waits(1)
  BY <1>1, <1>3, <1>5, <1>8, <1>11 DEF Ordered, Waits
<1>13. past.drawn = Firsts(Whole, Len(past.drawn))
  BY <1>4, <1>5, <1>8, FirstsEnds
<1>14. Following
  <2>1. client.page_index \in {Page - 1, Page} /\ answered = Page - 1 /\ ~(Came > 0)
    BY <1>1, <1>3, <1>11
  <2> QED BY <1>7, <1>11, <1>12, <1>13, <2>1 DEF Following
<1> QED BY <1>9, <1>10, <1>14 DEF DialogueInv

-----------------------------------------------------------------------------
(* A tick.                                                                  *)

\* A scene of what is said is one of what is still said.
LEMMA OpenStays ==
    ASSUME speech' = speech, Open(scene')
    PROVE  Open(scene)'
  BY WholeStays DEF Open

\* The page after the latest answer, and what of it was sent.
NextPage == IF latest.pickup = answered THEN scene.index ELSE scene.index + 1
NextChunk == IF latest.pickup = answered THEN scene.chunk ELSE 0
Ends == latest.pickup # answered /\ scene.index = Len(Whole)

LEMMA Ticking ==
    ASSUME TypeOK, Tick
    PROVE  /\ scene' = Nothing \/ Open(scene')
           /\ outcome' \in {"none", "accepted", "declined"} /\ (outcome' = "none" <=> scene' # Nothing)
           /\ answered' = latest.pickup /\ slot' \in Packet \cup {Nothing}
           /\ past' \in Past /\ past'.early = past.early /\ past'.drawn = past.drawn /\ (Clean' => Clean)
           /\ scene = Nothing \/ Ends => scene' = Nothing /\ slot' = slot
           /\ scene # Nothing /\ ~Ends =>
                 /\ scene' # Nothing /\ scene'.index = NextPage
                 /\ Clean' =>
                       \/ slot' = slot /\ NextChunk = Count(NextPage) /\ scene'.chunk = NextChunk
                       \/ /\ slot = Nothing /\ slot' = PacketOf(NextPage, NextChunk + 1) /\ slot' # Nothing
                          /\ NextChunk < Count(NextPage) /\ scene'.chunk = NextChunk + 1
<1> DEFINE after == _apply_player_state_pickup(latest)
           out == dialogue_page_to_send(after[1])
           over == out[2] # Nothing /\ slot # Nothing
           back == after[1] # Nothing /\ out[1].resends_left < after[1].resends_left
           lost == IF over THEN past.lost + 1 ELSE past.lost
           again == past.again \/ back
<1>1. /\ speech \in Scenes /\ slot \in Packet \cup {Nothing} /\ past \in Past
      /\ outcome \in {"none", "accepted", "declined"} /\ (scene = Nothing \/ Open(scene))
      /\ outcome = "none" <=> scene # Nothing
  BY DEF TypeOK
<1>2. /\ scene' = out[1] /\ outcome' = after[2] /\ answered' = latest.pickup
      /\ slot' = IF out[2] = Nothing THEN slot ELSE out[2]
      /\ past' = [past EXCEPT !.lost = lost, !.again = again]
  BY DEF Tick
<1>3. /\ after[1] = Nothing \/ Open(after[1])
      /\ after[2] \in {"none", "accepted", "declined"} /\ (after[2] = "none" <=> after[1] # Nothing)
      /\ latest.pickup = answered \/ scene = Nothing => after[1] = scene
      /\ latest.pickup # answered /\ scene # Nothing =>
            IF scene.index = Len(Whole) THEN after[1] = Nothing
            ELSE after[1] # Nothing /\ after[1].index = scene.index + 1 /\ after[1].chunk = 0
  BY <1>1, Turning
<1> HIDE DEF after
<1>4. after[1] = Nothing => out[1] = Nothing /\ out[2] = Nothing
  BY DEF dialogue_page_to_send
<1>5. after[1] # Nothing =>
         /\ Open(out[1]) /\ out[1].index = after[1].index /\ out[2] \in Packet \cup {Nothing}
         /\ \/ out[2] = Nothing /\ after[1].chunk = Count(after[1].index) /\ out[1].chunk = after[1].chunk
            \/ /\ out[2] = PacketOf(after[1].index, after[1].chunk + 1) /\ out[2] \in Packet /\ out[2] # Nothing
               /\ after[1].chunk < Count(after[1].index) /\ out[1].chunk = after[1].chunk + 1
            \/ back
  <2> SUFFICES ASSUME after[1] # Nothing
               PROVE  /\ Open(out[1]) /\ out[1].index = after[1].index /\ out[2] \in Packet \cup {Nothing}
                      /\ \/ out[2] = Nothing /\ after[1].chunk = Count(after[1].index) /\ out[1].chunk = after[1].chunk
                         \/ /\ out[2] = PacketOf(after[1].index, after[1].chunk + 1) /\ out[2] \in Packet /\ out[2] # Nothing
                            /\ after[1].chunk < Count(after[1].index) /\ out[1].chunk = after[1].chunk + 1
                         \/ back
    OBVIOUS
  <2> DEFINE d == after[1]
  <2>1. Open(d)
    BY <1>3
  <2> HIDE DEF d
  <2> QED BY <1>1, <2>1, Sending DEF d
<1> HIDE DEF out, over, back, lost, again
<1>6. lost \in Nat /\ again \in BOOLEAN /\ (again <=> past.again \/ back) /\ (lost = 0 => ~over /\ past.lost = 0)
  <2>1. past.lost \in Nat /\ past.again \in BOOLEAN
    BY <1>1 DEF Past
  <2>2. again \in BOOLEAN /\ (again <=> past.again \/ back)
    BY DEF again, back
  <2> QED BY <2>1, <2>2 DEF lost
<1>7. /\ past' \in Past /\ past'.early = past.early /\ past'.drawn = past.drawn
      /\ past'.lost = lost /\ past'.again = again
  BY <1>1, <1>2, <1>6 DEF Past
<1>8. Clean' => Clean /\ ~over /\ ~back
  BY <1>6, <1>7 DEF Clean
<1>9. scene' = Nothing \/ Open(scene')
  BY <1>2, <1>3, <1>4, <1>5
<1>10. out[2] \in Packet \cup {Nothing} /\ slot' \in Packet \cup {Nothing}
  BY <1>1, <1>2, <1>4, <1>5
<1>11. scene' = Nothing <=> after[1] = Nothing
  <2>1. \A d : Open(d) => d # Nothing
    BY NothingAssumption DEF Open
  <2> QED BY <1>2, <1>4, <1>5, <2>1
<1>12. scene = Nothing \/ Ends => scene' = Nothing /\ slot' = slot
  BY <1>2, <1>3, <1>4 DEF Ends
<1>13. ASSUME scene # Nothing, ~Ends
       PROVE  after[1] # Nothing /\ after[1].index = NextPage /\ after[1].chunk = NextChunk
  BY <1>3, <1>13 DEF Ends, NextPage, NextChunk
<1>14. ASSUME scene # Nothing, ~Ends, Clean'
       PROVE  \/ slot' = slot /\ NextChunk = Count(NextPage) /\ scene'.chunk = NextChunk
              \/ /\ slot = Nothing /\ slot' = PacketOf(NextPage, NextChunk + 1) /\ slot' # Nothing
                 /\ NextChunk < Count(NextPage) /\ scene'.chunk = NextChunk + 1
  <2>1. ~back /\ ~over
    BY <1>8, <1>14
  <2> QED BY <1>2, <1>5, <1>13, <1>14, <2>1 DEF over
<1>15. scene # Nothing /\ ~Ends => scene' # Nothing /\ scene'.index = NextPage
  BY <1>2, <1>5, <1>11, <1>13
<1> QED BY <1>2, <1>3, <1>7, <1>8, <1>9, <1>10, <1>11, <1>12, <1>14, <1>15

LEMMA TickTyped ==
    ASSUME TypeOK, Tick
    PROVE  TypeOK'
<1>1. /\ scene' = Nothing \/ Open(scene')
      /\ outcome' \in {"none", "accepted", "declined"} /\ (outcome' = "none" <=> scene' # Nothing)
      /\ answered' = latest.pickup /\ slot' \in Packet \cup {Nothing} /\ past' \in Past
  BY Ticking
<1>2. UNCHANGED <<speech, latest, down, up, client>>
  BY DEF Tick
<1>3. latest.pickup \in Nat
  BY DEF TypeOK, Reported
<1>4. (scene = Nothing \/ Open(scene))'
  BY <1>1, <1>2, OpenStays
<1> QED BY <1>1, <1>2, <1>3, <1>4 DEF TypeOK

\* How many pages were turned, of a scene that is told or has ended.
LEMMA TurnedPages ==
    ASSUME speech \in Scenes
    PROVE  Turned = IF scene = Nothing THEN Len(Whole) ELSE scene.index - 1
<1>1. open_dialogue(speech).pages = Whole
  BY DEF open_dialogue, AtPage, Whole
<1> QED BY <1>1 DEF Turned

LEMMA TickCounted ==
    ASSUME TypeOK, Counted, Tick
    PROVE  Counted'
<1> SUFFICES ASSUME (past.early = 0)' PROVE Counted'
  BY DEF Counted
<1>1. UNCHANGED <<speech, latest, up, client>> /\ past'.early = past.early /\ past'.drawn = past.drawn /\ answered' = latest.pickup
  BY Ticking DEF Tick
<1>2. /\ Turned <= answered /\ answered <= latest.pickup /\ latest.pickup <= client.pickup
      /\ client.pickup <= Len(past.drawn)
      /\ Rising(latest.pickup, up, client.pickup)
      /\ client.active /\ client.shown # 0 /\ ~client.waiting => client.pickup < Len(past.drawn)
  BY <1>1 DEF Counted
<1>3. answered \in Nat /\ latest.pickup \in Nat /\ speech \in Scenes /\ speech' \in Scenes
  BY <1>1 DEF TypeOK, Reported
<1>4. /\ Turned = IF scene = Nothing THEN Len(Whole) ELSE scene.index - 1
      /\ Turned' = IF scene' = Nothing THEN Len(Whole) ELSE scene'.index - 1
      /\ Len(Whole) \in Nat
  <2>1. open_dialogue(speech)'.pages = Whole'
    BY DEF open_dialogue, AtPage, Whole
  <2>2. Turned' = IF scene' = Nothing THEN Len(Whole)' ELSE scene'.index - 1
    BY <2>1 DEF Turned
  <2> QED BY <1>1, <1>3, <2>2, TurnedPages, WholeStays, WholeText
<1>5. scene # Nothing => scene.index \in Nat
  BY DEF TypeOK, Open
<1>6. Turned' <= latest.pickup
  <2>1. CASE scene = Nothing
    <3>1. scene' = Nothing
      BY <2>1, Ticking
    <3> QED BY <1>2, <1>3, <1>4, <2>1, <3>1
  <2>2. CASE scene # Nothing /\ Ends
    <3>1. scene' = Nothing
      BY <2>2, Ticking
    <3> QED BY <1>2, <1>3, <1>4, <1>5, <2>2, <3>1 DEF Ends
  <2>3. CASE scene # Nothing /\ ~Ends
    <3>1. scene' # Nothing /\ scene'.index = NextPage
      BY <2>3, Ticking
    <3> QED BY <1>2, <1>3, <1>4, <1>5, <2>3, <3>1 DEF NextPage
  <2> QED BY <2>1, <2>2, <2>3
<1> HIDE DEF Turned
<1> QED BY <1>1, <1>2, <1>3, <1>6 DEF Counted

\* Nothing moves on the client's side.
LEMMA TickFollowing ==
    ASSUME TypeOK, Counted, Following, Tick
    PROVE  Following'
<1> SUFFICES ASSUME Clean' PROVE Following'
  BY DEF Following
<1>1. /\ UNCHANGED <<speech, latest, down, up, client>> /\ past'.drawn = past.drawn /\ answered' = latest.pickup
      /\ Clean /\ past.early = 0 /\ speech \in Scenes
  BY Ticking DEF Tick, Clean, TypeOK
<1>2. /\ client.page_index \in {Page - 1, Page} /\ Ordered
      /\ Came > 0 => client.text = Part(Whole[Page], Came)
      /\ Waits(Page) \/ There(Page) \/ Drawn(Page) \/ Answered(Page)
      /\ IF scene = Nothing THEN Answered(Page) ELSE answered = Page - 1
      /\ past.drawn = Firsts(Whole, Len(past.drawn))
  BY <1>1 DEF Following
<1>3. /\ Whole' = Whole /\ \A i : Count(i)' = Count(i) /\ Whole'[i] = Whole[i]
      /\ \A i, x : PacketOf(i, x)' = PacketOf(i, x)
  BY <1>1, WholeStays
<1>4. /\ answered <= latest.pickup /\ latest.pickup <= client.pickup
      /\ answered \in Nat /\ latest.pickup \in Nat /\ client.pickup \in Nat /\ client.next_chunk \in Nat
      /\ client.page_index \in Nat /\ down \in Seq(Packet) /\ Len(down) \in Nat
  <2>1. down \in Seq(Packet) /\ Len(down) \in Nat
    BY LenProperties DEF TypeOK
  <2> QED BY <1>1, <2>1 DEF Counted, TypeOK, Reported, Client
<1>5. Page \in 1..Len(Whole) /\ Len(Whole) \in Nat \ {0} /\ Count(Page) \in Nat \ {0} /\ Came \in Nat
  <2>1. Len(Whole) \in Nat \ {0}
    BY <1>1, WholeText
  <2>2. Page \in 1..Len(Whole)
    BY <2>1 DEF Page, TypeOK, Open
  <2> QED BY <1>1, <1>4, <2>1, <2>2, WholeChunks DEF Came
<1>6. CASE Page' = Page /\ Came' = Came /\ Ordered' /\ (IF scene' = Nothing THEN Answered(Page) ELSE answered' = Page - 1)
  <2>1. Waits(Page)' \/ There(Page)' \/ Drawn(Page)' \/ Answered(Page)'
    BY <1>1, <1>2, <1>3, <1>6 DEF Waits, There, Drawn, Answered
  <2>2. scene' = Nothing => Answered(Page)'
    BY <1>1, <1>3, <1>6 DEF Answered
  <2> QED BY <1>1, <1>2, <1>3, <1>6, <2>1, <2>2 DEF Following
<1>7. ASSUME Page' = Page
      PROVE  Came' = Came
  BY <1>1, <1>7 DEF Came
<1>8. /\ \A x \in 1..Len(down) : down[x] = PacketOf(Page, Came + x)
      /\ slot # Nothing => slot = PacketOf(Page, Came + Len(down) + 1)
      /\ Sent = Came + Len(down) + (IF slot = Nothing THEN 0 ELSE 1)
  BY <1>2 DEF Ordered
<1>9. ASSUME Page' = Page, slot' = slot, Sent' = Sent
      PROVE  Ordered'
  BY <1>1, <1>3, <1>7, <1>8, <1>9 DEF Ordered
<1>10. ASSUME scene # Nothing, latest.pickup # answered
       PROVE  /\ answered = Page - 1 /\ latest.pickup = Page /\ Answered(Page) /\ Came = Count(Page)
              /\ client.page_index = Page
              /\ Sent = Count(Page) /\ Len(down) = 0 /\ slot = Nothing
  <2>1. answered = Page - 1
    BY <1>2, <1>10
  <2>2. ~(client.pickup = Page - 1)
    BY <1>4, <1>5, <1>10, <2>1
  <2>3. Answered(Page)
    BY <1>2, <2>2 DEF Waits, There, Drawn
  <2>4. Came = Count(Page) /\ client.pickup = Page
    BY <2>3 DEF Answered
  <2>5. client.page_index = Page
    BY <1>5, <2>4 DEF Came
  <2>6. Sent <= Count(Page) /\ Sent \in Nat
    <3>1. Open(scene)
      BY <1>10 DEF TypeOK
    <3> QED BY <1>10, <3>1 DEF Sent, Page, Open, Scene
  <2>7. Sent = Count(Page) /\ Len(down) = 0 /\ slot = Nothing
    BY <1>4, <1>5, <1>8, <2>4, <2>6
  <2> QED BY <1>4, <1>5, <1>10, <2>1, <2>3, <2>4, <2>5, <2>7
<1>11. CASE scene = Nothing
  <2>1. scene' = Nothing /\ slot' = slot
    BY <1>11, Ticking
  <2>2. Page' = Page /\ Sent' = Sent
    BY <1>3, <1>11, <2>1 DEF Page, Sent
  <2> QED BY <1>2, <1>6, <1>7, <1>9, <1>11, <2>1, <2>2
<1>12. CASE scene # Nothing /\ Ends
  <2>1. scene' = Nothing /\ slot' = slot
    BY <1>12, Ticking
  <2>2. Page = Len(Whole)
    BY <1>12 DEF Ends, Page
  <2>3. Page' = Page /\ Sent' = Count(Page)
    BY <1>3, <2>1, <2>2 DEF Page, Sent
  <2>4. Answered(Page) /\ Sent = Count(Page)
    BY <1>10, <1>12 DEF Ends
  <2> QED BY <1>6, <1>7, <1>9, <2>1, <2>3, <2>4
<1>13. CASE scene # Nothing /\ ~Ends /\ latest.pickup = answered
  <2>1. scene' # Nothing /\ scene'.index = scene.index
    BY <1>13, Ticking DEF NextPage
  <2>2. Page' = Page /\ Came' = Came
    BY <1>7, <1>13, <2>1 DEF Page
  <2>3. Sent = scene.chunk /\ Sent' = scene'.chunk /\ NextChunk = Sent /\ NextPage = Page
    BY <1>13, <2>1 DEF Sent, NextChunk, NextPage, Page
  <2>4. answered' = Page - 1
    BY <1>1, <1>2, <1>13
  <2>5. CASE slot' = slot /\ scene'.chunk = NextChunk
    BY <1>6, <1>9, <2>1, <2>2, <2>3, <2>4, <2>5
  <2>6. CASE slot = Nothing /\ slot' = PacketOf(NextPage, NextChunk + 1) /\ slot' # Nothing /\ scene'.chunk = NextChunk + 1
    <3>1. Sent = Came + Len(down) /\ Sent' = Sent + 1 /\ slot' = PacketOf(Page, Sent + 1) /\ slot' # Nothing
      BY <1>8, <2>3, <2>6, <1>4, <1>5
    <3>2. Ordered'
      BY <1>1, <1>3, <1>4, <1>5, <1>8, <2>2, <3>1 DEF Ordered
    <3> QED BY <1>6, <2>1, <2>2, <2>4, <3>2
  <2> QED BY <1>13, <2>5, <2>6, Ticking
<1>14. CASE scene # Nothing /\ ~Ends /\ latest.pickup # answered
  <2>1. scene' # Nothing /\ scene'.index = Page + 1 /\ Page # Len(Whole) /\ NextPage = Page + 1 /\ NextChunk = 0
    BY <1>14, Ticking DEF NextPage, NextChunk, Page, Ends
  <2>2. Page' = Page + 1 /\ Sent' = scene'.chunk /\ Came' = 0
    <3>1. Page' = Page + 1 /\ Sent' = scene'.chunk
      BY <2>1 DEF Page, Sent
    <3> QED BY <1>1, <1>5, <1>10, <1>14, <3>1 DEF Came
  <2>3. Page + 1 \in 1..Len(Whole)
    BY <1>5, <2>1
  <2>4. Count(Page + 1) \in Nat \ {0}
    BY <1>1, <2>3, WholeChunks
  <2>5. slot' = PacketOf(Page + 1, 1) /\ slot' # Nothing /\ scene'.chunk = 1
    <3>1. ~(0 = Count(Page + 1)) /\ 0 + 1 = 1
      BY <2>4
    <3>2. \/ slot' = slot /\ NextChunk = Count(NextPage) /\ scene'.chunk = NextChunk
          \/ /\ slot = Nothing /\ slot' = PacketOf(NextPage, NextChunk + 1) /\ slot' # Nothing
             /\ NextChunk < Count(NextPage) /\ scene'.chunk = NextChunk + 1
      BY <1>14, Ticking
    <3> QED BY <2>1, <3>1, <3>2
  <2>6. Ordered'
    <3>1. Len(down)' = 0
      BY <1>1, <1>10, <1>14
    <3> QED BY <1>3, <2>2, <2>5, <3>1 DEF Ordered
  <2>7. Waits(Page)'
    <3>1. /\ ~client.dirty /\ ~client.request /\ Len(past.drawn) = Page /\ client.pickup = Page
          /\ client.active /\ client.waiting /\ client.shown = Page
      BY <1>10, <1>14, <2>1 DEF Answered
    <3>2. Page + 1 # 1 /\ (Page + 1) - 1 = Page
      BY <1>5
    <3> QED BY <1>1, <1>3, <2>2, <2>4, <3>1, <3>2 DEF Waits
  <2>8. client'.page_index \in {Page' - 1, Page'} /\ ~(Came' > 0) /\ answered' = Page' - 1
    BY <1>1, <1>5, <1>10, <1>14, <2>2
  <2>9. past'.drawn = Firsts(Whole', Len(past'.drawn))
    BY <1>1, <1>2, <1>3
  <2> QED BY <2>1, <2>6, <2>7, <2>8, <2>9 DEF Following
<1> QED BY <1>11, <1>12, <1>13, <1>14

-----------------------------------------------------------------------------
(* The link.                                                                *)

\* The scene stays where it is.
LEMMA SceneStays ==
    ASSUME speech' = speech, scene' = scene
    PROVE  /\ Whole' = Whole /\ (\A i : Count(i)' = Count(i) /\ Whole'[i] = Whole[i])
           /\ (\A i, x : PacketOf(i, x)' = PacketOf(i, x))
           /\ Page' = Page /\ Sent' = Sent /\ Turned' = Turned
           /\ Open(scene) => Open(scene)'
<1>1. /\ Whole' = Whole /\ (\A i : Count(i)' = Count(i) /\ Whole'[i] = Whole[i])
      /\ (\A i, x : PacketOf(i, x)' = PacketOf(i, x))
  BY WholeStays
<1>2. Turned' = Turned
  BY DEF Turned
<1>3. Open(scene) => Open(scene)'
  BY <1>1 DEF Open
<1>4. Page' = Page /\ Sent' = Sent
  BY <1>1 DEF Page, Sent
<1> QED BY <1>1, <1>2, <1>3, <1>4

LEMMA Flushed ==
    ASSUME TypeOK, Counted, Following, Flush
    PROVE  TypeOK' /\ Counted' /\ Following'
<1>1. /\ UNCHANGED <<speech, scene, answered, outcome, latest, up, client, past>>
      /\ down' = Append(down, slot) /\ slot' = Nothing /\ slot # Nothing
  BY DEF Flush
<1>2. /\ Whole' = Whole /\ (\A i : Count(i)' = Count(i) /\ Whole'[i] = Whole[i])
      /\ (\A i, x : PacketOf(i, x)' = PacketOf(i, x))
      /\ Page' = Page /\ Sent' = Sent /\ Turned' = Turned
      /\ Open(scene) => Open(scene)'
  BY <1>1, SceneStays
<1>3. down \in Seq(Packet) /\ slot \in Packet /\ client.next_chunk \in Nat /\ speech \in Scenes
  BY <1>1 DEF TypeOK, Client
<1>4. /\ down' \in Seq(Packet) /\ Len(down) \in Nat /\ Len(down') = Len(down) + 1
      /\ \A x \in 1..Len(down) : down'[x] = down[x]
      /\ down'[Len(down) + 1] = slot
  BY <1>1, <1>3, AppendProperties, LenProperties
<1>5. TypeOK'
  BY <1>1, <1>2, <1>4 DEF TypeOK
<1>6. Counted'
  BY <1>1, <1>2 DEF Counted
<1>7. ASSUME Clean' PROVE Following'
  <2>1. Clean /\ Came' = Came
    BY <1>1, <1>2, <1>7 DEF Clean, Came
  <2>2. /\ client.page_index \in {Page - 1, Page} /\ Ordered
        /\ Came > 0 => client.text = Part(Whole[Page], Came)
        /\ Waits(Page) \/ There(Page) \/ Drawn(Page) \/ Answered(Page)
        /\ IF scene = Nothing THEN Answered(Page) ELSE answered = Page - 1
        /\ past.drawn = Firsts(Whole, Len(past.drawn))
    BY <2>1 DEF Following
  <2>3. /\ Waits(Page)' \/ There(Page)' \/ Drawn(Page)' \/ Answered(Page)'
        /\ scene' = Nothing => Answered(Page)'
    BY <1>1, <1>2, <2>1, <2>2 DEF Waits, There, Drawn, Answered
  <2>4. Came \in Nat
    BY <1>3 DEF Came
  <2>5. Ordered'
    <3>1. /\ \A x \in 1..Len(down) : down[x] = PacketOf(Page, Came + x)
          /\ slot = PacketOf(Page, Came + Len(down) + 1)
          /\ Sent = Came + Len(down) + 1
      BY <1>1, <2>2 DEF Ordered
    <3>2. \A x \in 1..(Len(down) + 1) : down'[x] = PacketOf(Page, Came + x)
      <4> TAKE x \in 1..(Len(down) + 1)
      <4>1. CASE x \in 1..Len(down)
        BY <1>4, <3>1, <4>1
      <4>2. CASE x = Len(down) + 1
        <5>1. Came + x = Came + Len(down) + 1
          BY <1>4, <2>4, <4>2
        <5> QED BY <1>4, <3>1, <4>2, <5>1
      <4> QED BY <1>4, <4>1, <4>2
    <3>3. Sent' = Came' + Len(down') + 0
      BY <1>2, <1>4, <2>1, <2>4, <3>1
    <3> QED BY <1>1, <1>2, <1>4, <2>1, <3>2, <3>3 DEF Ordered
  <2> QED BY <1>1, <1>2, <2>1, <2>2, <2>3, <2>5 DEF Following
<1> QED BY <1>5, <1>6, <1>7 DEF Following

\* Where the scene, the chunks and the client stay, a page follows as it did.
LEMMA FollowingStays ==
    ASSUME Following, UNCHANGED <<speech, scene, answered, slot, down, client, past>>
    PROVE  Following'
<1> SUFFICES ASSUME Clean' PROVE Following'
  BY DEF Following
<1>1. UNCHANGED <<speech, scene, answered, slot, down, client, past>>
  OBVIOUS
<1>2. /\ Whole' = Whole /\ (\A i : Count(i)' = Count(i) /\ Whole'[i] = Whole[i])
      /\ (\A i, x : PacketOf(i, x)' = PacketOf(i, x))
      /\ Page' = Page /\ Sent' = Sent
  BY <1>1, SceneStays
<1>3. Clean /\ Came' = Came
  BY <1>1, <1>2 DEF Clean, Came
<1>4. /\ client.page_index \in {Page - 1, Page} /\ Ordered
      /\ Came > 0 => client.text = Part(Whole[Page], Came)
      /\ Waits(Page) \/ There(Page) \/ Drawn(Page) \/ Answered(Page)
      /\ IF scene = Nothing THEN Answered(Page) ELSE answered = Page - 1
      /\ past.drawn = Firsts(Whole, Len(past.drawn))
  BY <1>3 DEF Following
<1>5. Ordered'
  BY <1>1, <1>2, <1>3, <1>4 DEF Ordered
<1>6. /\ Waits(Page)' \/ There(Page)' \/ Drawn(Page)' \/ Answered(Page)'
      /\ scene' = Nothing => Answered(Page)'
  BY <1>1, <1>2, <1>3, <1>4 DEF Waits, There, Drawn, Answered
<1> QED BY <1>1, <1>2, <1>3, <1>4, <1>5, <1>6 DEF Following

\* The reports under way lose the first, or all get behind a new one.
LEMMA RisingTail ==
    ASSUME NEW low \in Nat, NEW high \in Nat, NEW reports \in Seq(Reported), reports # <<>>,
           Rising(low, reports, high)
    PROVE  /\ Head(reports) \in Reported /\ Tail(reports) \in Seq(Reported)
           /\ low <= Head(reports).pickup /\ Head(reports).pickup <= high
           /\ Rising(Head(reports).pickup, Tail(reports), high) /\ Rising(low, Tail(reports), high)
<1>1. /\ Len(reports) \in Nat /\ 1 \in 1..Len(reports) /\ Head(reports) = reports[1]
      /\ Tail(reports) \in Seq(Reported) /\ Len(Tail(reports)) = Len(reports) - 1
      /\ \A i \in 1..Len(Tail(reports)) : Tail(reports)[i] = reports[i + 1] /\ i + 1 \in 1..Len(reports)
  BY EmptySeq, LenProperties, HeadTailProperties
<1> DEFINE rest == Tail(reports)
           n == Len(rest)
<1>2. \A i \in 1..n : rest[i] = reports[i + 1] /\ i + 1 \in 1..Len(reports)
  BY <1>1
<1>3. n \in Nat
  BY <1>1
<1> HIDE DEF rest, n
<1>4. \A i \in 1..n : reports[1].pickup <= rest[i].pickup /\ low <= rest[i].pickup /\ rest[i].pickup <= high
  <2> TAKE i \in 1..n
  <2>1. i + 1 \in 1..Len(reports) /\ 1 <= i + 1 /\ rest[i] = reports[i + 1]
    BY <1>2, <1>3
  <2> QED BY <1>1, <2>1 DEF Rising
<1>5. \A i, j \in 1..n : i <= j => rest[i].pickup <= rest[j].pickup
  <2> TAKE i, j \in 1..n
  <2>1. /\ i + 1 \in 1..Len(reports) /\ rest[i] = reports[i + 1]
        /\ j + 1 \in 1..Len(reports) /\ rest[j] = reports[j + 1] /\ (i <= j => i + 1 <= j + 1)
    BY <1>2, <1>3
  <2> QED BY <2>1 DEF Rising
<1>6. reports[1] \in Reported /\ low <= reports[1].pickup /\ reports[1].pickup <= high
  BY <1>1, ElementOfSeq DEF Rising
<1> QED BY <1>1, <1>4, <1>5, <1>6 DEF Rising, rest, n

LEMMA RisingAppend ==
    ASSUME NEW low \in Nat, NEW high \in Nat, NEW reports \in Seq(Reported), NEW r \in Reported,
           Rising(low, reports, high), high <= r.pickup, low <= high
    PROVE  Append(reports, r) \in Seq(Reported) /\ Rising(low, Append(reports, r), r.pickup)
<1> DEFINE all == Append(reports, r)
           n == Len(reports)
<1>1. /\ all \in Seq(Reported) /\ n \in Nat /\ Len(all) = n + 1 /\ all[n + 1] = r
      /\ \A i \in 1..n : all[i] = reports[i] /\ reports[i].pickup \in Nat
  <2>1. \A i \in 1..n : reports[i].pickup \in Nat
    <3>1. \A i \in 1..n : reports[i] \in Reported
      BY ElementOfSeq
    <3> QED BY <3>1 DEF Reported
  <2> QED BY <2>1, AppendProperties, LenProperties
<1>2. r.pickup \in Nat
  BY DEF Reported
<1> HIDE DEF all
<1>3. \A i \in 1..n : low <= reports[i].pickup /\ reports[i].pickup <= high
  BY DEF Rising
<1>4. \A i \in 1..(n + 1) : i \in 1..n \/ i = n + 1
  BY <1>1
<1>5. \A i \in 1..(n + 1) : low <= all[i].pickup /\ all[i].pickup <= r.pickup
  BY <1>1, <1>2, <1>3, <1>4
<1>6. ASSUME NEW i \in 1..(n + 1), NEW j \in 1..(n + 1), i <= j
      PROVE  all[i].pickup <= all[j].pickup
  <2>1. CASE j = n + 1
    BY <1>1, <1>5, <2>1
  <2>2. CASE j \in 1..n
    <3>1. i \in 1..n
      BY <1>1, <1>6, <2>2
    <3> QED BY <1>1, <1>6, <2>2, <3>1 DEF Rising
  <2> QED BY <1>4, <2>1, <2>2
<1> QED BY <1>1, <1>5, <1>6 DEF Rising, all

LEMMA ReportReceived ==
    ASSUME TypeOK, Counted, Following, ReceiveReport
    PROVE  TypeOK' /\ Counted' /\ Following'
<1>1. /\ UNCHANGED <<speech, scene, answered, outcome, slot, down, client, past>>
      /\ latest' = Head(up) /\ up' = Tail(up) /\ up # <<>> /\ up \in Seq(Reported)
  BY DEF ReceiveReport, TypeOK
<1>2. /\ Turned' = Turned
      /\ Open(scene) => Open(scene)'
  BY <1>1, SceneStays
<1>3. latest' \in Reported /\ up' \in Seq(Reported)
  BY <1>1, EmptySeq, HeadTailProperties
<1>4. TypeOK'
  BY <1>1, <1>2, <1>3 DEF TypeOK
<1>5. ASSUME past.early = 0 PROVE Counted'
  <2>1. latest.pickup \in Nat /\ client.pickup \in Nat /\ answered \in Nat /\ latest'.pickup \in Nat
    BY <1>3 DEF TypeOK, Reported, Client
  <2>2. /\ Turned <= answered /\ answered <= latest.pickup /\ latest.pickup <= client.pickup
        /\ client.pickup <= Len(past.drawn) /\ Rising(latest.pickup, up, client.pickup)
        /\ client.active /\ client.shown # 0 /\ ~client.waiting => client.pickup < Len(past.drawn)
    BY <1>5 DEF Counted
  <2>3. latest.pickup <= latest'.pickup /\ latest'.pickup <= client.pickup /\ Rising(latest'.pickup, up', client.pickup)
    BY <1>1, <2>1, <2>2, RisingTail
  <2> QED BY <1>1, <1>2, <2>1, <2>2, <2>3 DEF Counted
<1>6. Counted'
  BY <1>1, <1>5 DEF Counted
<1> QED BY <1>1, <1>4, <1>6, FollowingStays

\* Nothing follows any more.
LEMMA Lost ==
    ASSUME TypeOK, Counted, Following, Lose
    PROVE  TypeOK' /\ Counted' /\ Following'
<1>1. /\ UNCHANGED <<speech, scene, answered, outcome, latest, slot, client>>
      /\ past' = [past EXCEPT !.lost = @ + 1] /\ past \in Past
      /\ \/ down # <<>> /\ down' = Tail(down) /\ up' = up
         \/ up # <<>> /\ up' = Tail(up) /\ down' = down
      /\ up \in Seq(Reported) /\ down \in Seq(Packet)
  BY DEF Lose, TypeOK
<1>2. /\ Turned' = Turned
      /\ Open(scene) => Open(scene)'
  BY <1>1, SceneStays
<1>3. up' \in Seq(Reported) /\ down' \in Seq(Packet)
  BY <1>1, EmptySeq, HeadTailProperties
<1>4. /\ past' \in Past /\ past'.early = past.early /\ past'.drawn = past.drawn /\ past'.lost # 0
  <2> DEFINE more == past.lost + 1
  <2>1. past.lost \in Nat
    BY <1>1 DEF Past
  <2>2. more \in Nat /\ more # 0 /\ past' = [past EXCEPT !.lost = more]
    BY <1>1, <2>1
  <2> HIDE DEF more
  <2> QED BY <1>1, <2>2 DEF Past
<1>5. TypeOK'
  BY <1>1, <1>2, <1>3, <1>4 DEF TypeOK
<1>6. ASSUME past.early = 0 PROVE Counted'
  <2>1. latest.pickup \in Nat /\ client.pickup \in Nat
    BY DEF TypeOK, Reported, Client
  <2>2. /\ Turned <= answered /\ answered <= latest.pickup /\ latest.pickup <= client.pickup
        /\ client.pickup <= Len(past.drawn) /\ Rising(latest.pickup, up, client.pickup)
        /\ client.active /\ client.shown # 0 /\ ~client.waiting => client.pickup < Len(past.drawn)
    BY <1>6 DEF Counted
  <2>3. Rising(latest.pickup, up', client.pickup)
    BY <1>1, <2>1, <2>2, RisingTail
  <2> QED BY <1>1, <1>2, <1>4, <2>2, <2>3 DEF Counted
<1>7. Counted'
  BY <1>4, <1>6 DEF Counted
<1> QED BY <1>4, <1>5, <1>7 DEF Following, Clean

-----------------------------------------------------------------------------
(* The client.                                                              *)

\* A chunk that came is dropped, or is the first, or is put behind the others.
LEMMA Applied ==
    ASSUME NEW c \in Client, NEW w \in Packet
    PROVE  LET new == apply_dialogue_page(c, w)
           IN  /\ new \in Client
               /\ new.active = c.active /\ new.shown = c.shown /\ new.waiting = c.waiting /\ new.pickup = c.pickup
               /\ w.chunk = 0 \/ w.chunk = c.next_chunk =>
                     /\ new.text = IF w.chunk = 0 THEN w.text ELSE c.text \o w.text
                     /\ new.next_chunk = w.chunk + 1 /\ new.page_index = w.index
                     /\ new.last = IF w.end THEN w.last ELSE c.last
                     /\ new.dirty <=> c.dirty \/ w.end
                     /\ new.request <=> c.request \/ (w.end /\ ~c.active)
<1> DEFINE text == IF w.chunk = 0 THEN w.text ELSE c.text \o w.text
           chunk == w.chunk + 1
           last == IF w.end THEN w.last ELSE c.last
           dirty == c.dirty \/ w.end
           request == c.request \/ (w.end /\ ~c.active)
           made == [c EXCEPT !.text = text, !.next_chunk = chunk, !.page_index = w.index,
                             !.last = last, !.dirty = dirty, !.request = request]
           new == apply_dialogue_page(c, w)
<1>1. /\ c.text \in Text /\ c.last \in BOOLEAN /\ c.dirty \in BOOLEAN /\ c.request \in BOOLEAN /\ c.active \in BOOLEAN
      /\ w.text \in Text /\ w.chunk \in Nat /\ w.index \in Nat /\ w.end \in BOOLEAN /\ w.last \in BOOLEAN
  BY DEF Client, Packet
<1>2. text \in Text
  BY <1>1, ConcatProperties DEF Text
<1>3. chunk \in Nat /\ last \in BOOLEAN /\ dirty \in BOOLEAN /\ request \in BOOLEAN
  BY <1>1
<1>4. new = IF w.chunk # 0 /\ w.chunk # c.next_chunk THEN c ELSE made
  BY DEF apply_dialogue_page
<1>5. (dirty <=> c.dirty \/ w.end) /\ (request <=> c.request \/ (w.end /\ ~c.active))
  OBVIOUS
<1> HIDE DEF text, chunk, last, dirty, request
<1>6. /\ made \in Client /\ made.text = text /\ made.next_chunk = chunk /\ made.page_index = w.index
      /\ made.last = last /\ made.dirty = dirty /\ made.request = request
      /\ made.active = c.active /\ made.shown = c.shown /\ made.waiting = c.waiting /\ made.pickup = c.pickup
  BY <1>1, <1>2, <1>3 DEF Client
<1> HIDE DEF made, new
<1>7. CASE w.chunk # 0 /\ w.chunk # c.next_chunk
  <2>1. new = c
    BY <1>4, <1>7
  <2> QED BY <1>7, <2>1 DEF new
<1>8. CASE ~(w.chunk # 0 /\ w.chunk # c.next_chunk)
  <2>1. new = made
    BY <1>4, <1>8
  <2> QED BY <1>5, <1>6, <2>1 DEF new, text, chunk, last
<1> QED BY <1>7, <1>8

\* The chunk is the next of the page being told.
LEMMA ChunkFollowing ==
    ASSUME TypeOK, Following, ReceiveChunk, Clean
    PROVE  Following'
<1>1. /\ UNCHANGED <<speech, scene, answered, outcome, latest, slot, up, past>>
      /\ down # <<>> /\ client' = apply_dialogue_page(client, Head(down)) /\ down' = Tail(down)
  BY DEF ReceiveChunk
<1>2. /\ Whole' = Whole /\ (\A i : Count(i)' = Count(i) /\ Whole'[i] = Whole[i])
      /\ (\A i, x : PacketOf(i, x)' = PacketOf(i, x))
      /\ Page' = Page /\ Sent' = Sent
  BY <1>1, SceneStays
<1>3. /\ client \in Client /\ client.next_chunk \in Nat /\ down \in Seq(Packet) /\ speech \in Scenes
      /\ scene = Nothing \/ Open(scene)
      /\ client.dirty \in BOOLEAN /\ client.request \in BOOLEAN /\ client.active \in BOOLEAN
  BY DEF TypeOK, Client
<1> DEFINE w == Head(down)
           k == Count(Page)
<1>4. /\ Len(down) \in Nat /\ 1 \in 1..Len(down) /\ w = down[1] /\ w \in Packet /\ w.index \in Nat
      /\ Tail(down) \in Seq(Packet) /\ Len(down') = Len(down) - 1
      /\ \A x \in 1..Len(down') : down'[x] = down[x + 1] /\ x + 1 \in 1..Len(down)
  <2>1. Len(down) \in Nat /\ 1 \in 1..Len(down) /\ w = down[1]
    BY <1>1, <1>3, EmptySeq, LenProperties, HeadTailProperties
  <2>2. w \in Packet
    BY <1>3, <2>1, ElementOfSeq
  <2>3. /\ Tail(down) \in Seq(Packet) /\ Len(down') = Len(down) - 1
        /\ \A x \in 1..Len(down') : down'[x] = down[x + 1] /\ x + 1 \in 1..Len(down)
    BY <1>1, <1>3, EmptySeq, LenProperties, HeadTailProperties
  <2>4. w.index \in Nat
    BY <2>2 DEF Packet
  <2> QED BY <2>1, <2>2, <2>3, <2>4
<1>5. /\ client.page_index \in {Page - 1, Page}
      /\ Came > 0 => client.text = Part(Whole[Page], Came)
      /\ Waits(Page) \/ There(Page) \/ Drawn(Page) \/ Answered(Page)
      /\ IF scene = Nothing THEN Answered(Page) ELSE answered = Page - 1
      /\ past.drawn = Firsts(Whole, Len(past.drawn))
      /\ \A x \in 1..Len(down) : down[x] = PacketOf(Page, Came + x)
      /\ slot # Nothing => slot = PacketOf(Page, Came + Len(down) + 1)
      /\ Sent = Came + Len(down) + (IF slot = Nothing THEN 0 ELSE 1)
  BY DEF Following, Ordered
<1>6. Page \in 1..Len(Whole) /\ Len(Whole) \in Nat \ {0} /\ k \in Nat \ {0} /\ Came \in Nat /\ Sent \in Nat /\ Sent <= k
  <2>1. Len(Whole) \in Nat \ {0}
    BY <1>3, WholeText
  <2>2. Page \in 1..Len(Whole)
    BY <1>3, <2>1 DEF Page, Open
  <2>3. k \in Nat \ {0}
    BY <1>3, <2>2, WholeChunks
  <2>4. Sent \in Nat /\ Sent <= k
    BY <1>3, <2>3 DEF Sent, Page, Open, Scene
  <2> QED BY <1>3, <2>1, <2>2, <2>3, <2>4 DEF Came
<1>7. Came + 1 <= k /\ Came + 1 \in 1..k
  BY <1>4, <1>5, <1>6
<1>8. w = PacketOf(Page, Came + 1)
  BY <1>4, <1>5
<1>9. w.index = Page /\ w.chunk = Came /\ (w.end <=> Came + 1 = k) /\ w.last = (Came + 1 = k /\ Page = Len(Whole))
  <2> DEFINE end == Came + 1 = Count(Page)
             last == Came + 1 = Count(Page) /\ Page = Len(Whole)
             text == dialogue_page_chunks(Whole[Page])[Came + 1]
  <2>1. (Came + 1) - 1 = Came
    BY <1>6
  <2>2. w = [index |-> Page, chunk |-> (Came + 1) - 1, text |-> text, end |-> end, last |-> last]
    BY <1>8 DEF PacketOf
  <2> HIDE DEF end, last, text, w
  <2>3. w.index = Page /\ w.chunk = Came /\ w.end = end /\ w.last = last
    BY <2>1, <2>2
  <2> QED BY <2>3 DEF end, last, w
<1>10. Waits(Page) /\ scene # Nothing
  BY <1>5, <1>6, <1>7 DEF There, Drawn, Answered
<1>11. w.chunk = 0 \/ w.chunk = client.next_chunk
  BY <1>9 DEF Came
<1>12. /\ client'.active = client.active /\ client'.shown = client.shown /\ client'.waiting = client.waiting
       /\ client'.pickup = client.pickup
       /\ client'.text = IF w.chunk = 0 THEN w.text ELSE client.text \o w.text
       /\ client'.next_chunk = Came + 1 /\ client'.page_index = Page
       /\ client'.last = IF w.end THEN w.last ELSE client.last
       /\ client'.dirty <=> client.dirty \/ w.end
       /\ client'.request <=> client.request \/ (w.end /\ ~client.active)
  BY <1>1, <1>3, <1>4, <1>9, <1>11, Applied
<1>13. Came' = Came + 1
  BY <1>2, <1>12 DEF Came
<1>14. client'.text = Part(Whole[Page], Came + 1)
  <2>1. PacketOf(Page, 1).text = Part(Whole[Page], 1)
    BY <1>3, <1>6, WholeChunks
  <2>2. CASE Came = 0
    <3>1. Came + 1 = 1
      BY <2>2
    <3> QED BY <1>8, <1>9, <1>12, <2>1, <2>2, <3>1
  <2>3. CASE Came # 0
    <3>1. Came \in 1..(k - 1) /\ Came > 0
      BY <1>6, <1>7, <2>3
    <3>2. Part(Whole[Page], Came) \o PacketOf(Page, Came + 1).text = Part(Whole[Page], Came + 1)
      BY <1>3, <1>6, <3>1, WholeChunks
    <3> QED BY <1>5, <1>8, <1>9, <1>12, <2>3, <3>1, <3>2
  <2> QED BY <2>2, <2>3
<1>15. Ordered'
  <2>1. \A x \in 1..Len(down') : down'[x] = PacketOf(Page, (Came + 1) + x)
    <3> TAKE x \in 1..Len(down')
    <3>1. down'[x] = down[x + 1] /\ x + 1 \in 1..Len(down) /\ Came + (x + 1) = (Came + 1) + x
      BY <1>4, <1>6
    <3> QED BY <1>5, <3>1
  <2>2. (Came + 1) + Len(down') = Came + Len(down)
    BY <1>4, <1>6
  <2> QED BY <1>1, <1>2, <1>5, <1>13, <2>1, <2>2 DEF Ordered
<1>16. Waits(Page)' \/ There(Page)'
  <2>1. /\ ~client.dirty /\ ~client.request
        /\ Len(past.drawn) = Page - 1 /\ client.pickup = Page - 1
        /\ IF Page = 1 THEN ~client.active ELSE client.active /\ client.waiting /\ client.shown = Page - 1
    BY <1>10 DEF Waits
  <2>2. CASE Came + 1 = k
    <3>1. There(Page)'
      BY <1>1, <1>2, <1>6, <1>9, <1>12, <1>13, <2>1, <2>2 DEF There
    <3> QED BY <3>1
  <2>3. CASE Came + 1 # k
    <3>1. Waits(Page)'
      BY <1>1, <1>2, <1>6, <1>7, <1>9, <1>12, <1>13, <2>1, <2>3 DEF Waits
    <3> QED BY <3>1
  <2> QED BY <2>2, <2>3
<1>17. scene' # Nothing /\ answered' = Page' - 1 /\ client'.page_index = Page' /\ past'.drawn = Firsts(Whole', Len(past'.drawn))
  BY <1>1, <1>2, <1>5, <1>10, <1>12
<1> QED BY <1>2, <1>13, <1>14, <1>15, <1>16, <1>17 DEF Following

LEMMA ChunkReceived ==
    ASSUME TypeOK, Counted, Following, ReceiveChunk
    PROVE  TypeOK' /\ Counted' /\ Following'
<1>1. /\ UNCHANGED <<speech, scene, answered, outcome, latest, slot, up, past>>
      /\ down # <<>> /\ client' = apply_dialogue_page(client, Head(down)) /\ down' = Tail(down)
      /\ client \in Client /\ down \in Seq(Packet)
  BY DEF ReceiveChunk, TypeOK
<1>2. Turned' = Turned /\ (Open(scene) => Open(scene)')
  BY <1>1, SceneStays
<1>3. down' \in Seq(Packet) /\ Head(down) \in Packet
  BY <1>1, EmptySeq, HeadTailProperties
<1>4. /\ client' \in Client /\ client'.active = client.active /\ client'.shown = client.shown
      /\ client'.waiting = client.waiting /\ client'.pickup = client.pickup
  BY <1>1, <1>3, Applied
<1>5. TypeOK'
  BY <1>1, <1>2, <1>3, <1>4 DEF TypeOK
<1>6. Counted'
  BY <1>1, <1>2, <1>4 DEF Counted
<1>7. Clean' => Clean
  BY <1>1 DEF Clean
<1> QED BY <1>5, <1>6, <1>7, ChunkFollowing DEF Following

\* The page that is there is not drawn yet.
LEMMA Opened ==
    ASSUME TypeOK, Counted, Following, OpenModal
    PROVE  TypeOK' /\ Counted' /\ Following'
<1>1. /\ UNCHANGED <<speech, scene, answered, outcome, latest, slot, down, up, past>>
      /\ client.request /\ ~client.active /\ client \in Client
      /\ client' = [client EXCEPT !.request = FALSE, !.active = TRUE, !.shown = 0, !.waiting = FALSE]
  BY DEF OpenModal, TypeOK
<1>2. /\ Whole' = Whole /\ (\A i : Count(i)' = Count(i) /\ Whole'[i] = Whole[i])
      /\ (\A i, x : PacketOf(i, x)' = PacketOf(i, x))
      /\ Page' = Page /\ Sent' = Sent /\ Turned' = Turned
      /\ Open(scene) => Open(scene)'
  BY <1>1, SceneStays
<1>3. /\ client' \in Client /\ client'.text = client.text /\ client'.next_chunk = client.next_chunk
      /\ client'.page_index = client.page_index /\ client'.last = client.last /\ client'.dirty = client.dirty
      /\ client'.request = FALSE /\ client'.active = TRUE /\ client'.shown = 0 /\ client'.waiting = FALSE
      /\ client'.pickup = client.pickup
  BY <1>1 DEF Client
<1>4. TypeOK'
  BY <1>1, <1>2, <1>3 DEF TypeOK
<1>5. Counted'
  BY <1>1, <1>2, <1>3 DEF Counted
<1>6. ASSUME Clean' PROVE Following'
  <2>1. Clean /\ Came' = Came
    BY <1>1, <1>2, <1>3, <1>6 DEF Clean, Came
  <2>2. /\ client.page_index \in {Page - 1, Page} /\ Ordered
        /\ Came > 0 => client.text = Part(Whole[Page], Came)
        /\ Waits(Page) \/ There(Page) \/ Drawn(Page) \/ Answered(Page)
        /\ IF scene = Nothing THEN Answered(Page) ELSE answered = Page - 1
        /\ past.drawn = Firsts(Whole, Len(past.drawn))
    BY <2>1 DEF Following
  <2>3. There(Page) /\ scene # Nothing
    BY <1>1, <2>2 DEF Waits, Drawn, Answered
  <2>4. There(Page)'
    BY <1>1, <1>2, <1>3, <2>1, <2>3 DEF There
  <2>5. Ordered'
    BY <1>1, <1>2, <2>1, <2>2 DEF Ordered
  <2> QED BY <1>1, <1>2, <1>3, <2>1, <2>2, <2>3, <2>4, <2>5 DEF Following
<1> QED BY <1>4, <1>5, <1>6 DEF Following

\* What a button does where no page waits to be drawn, and what no button does.
LEMMA Stepped ==
    ASSUME NEW c \in Client
    PROVE  /\ LET new == dlg_modal_step(c, "none")
                  turned == c.dirty /\ c.page_index # c.shown
              IN  /\ new \in Client /\ new.text = c.text /\ new.next_chunk = c.next_chunk /\ new.page_index = c.page_index
                  /\ new.last = c.last /\ new.dirty = FALSE /\ new.request = c.request /\ new.active = c.active
                  /\ new.pickup = c.pickup /\ new.shown = (IF turned THEN c.page_index ELSE c.shown)
                  /\ new.waiting <=> c.waiting /\ ~turned
           /\ ~c.dirty /\ ~c.waiting =>
                LET new == dlg_modal_step(c, "A")
                IN  /\ new \in Client /\ new.text = c.text /\ new.next_chunk = c.next_chunk /\ new.page_index = c.page_index
                    /\ new.last = c.last /\ new.dirty = FALSE /\ new.pickup = c.pickup + 1 /\ new.shown = c.shown
                    /\ c.last => new.active = FALSE /\ new.request = FALSE
                    /\ ~c.last => new.active = c.active /\ new.request = c.request /\ new.waiting = TRUE
           /\ ~c.dirty =>
                LET new == dlg_modal_step(c, "B")
                IN  /\ new \in Client /\ new.text = c.text /\ new.next_chunk = c.next_chunk /\ new.page_index = c.page_index
                    /\ new.last = c.last /\ new.dirty = FALSE /\ new.pickup = c.pickup + 1 /\ new.shown = c.shown
                    /\ new.active = FALSE /\ new.request = FALSE
<1> DEFINE turned == c.dirty /\ c.page_index # c.shown
           shown == IF turned THEN c.page_index ELSE c.shown
           waiting == c.waiting /\ ~turned
           drawn == [c EXCEPT !.dirty = FALSE, !.shown = shown, !.waiting = waiting]
           more == drawn.pickup + 1
           told == [drawn EXCEPT !.pickup = more]
           closed == Closed(told)
           waits == [drawn EXCEPT !.pickup = more, !.waiting = TRUE]
<1>1. /\ c.shown \in Nat /\ c.page_index \in Nat /\ c.pickup \in Nat
      /\ c.waiting \in BOOLEAN /\ c.dirty \in BOOLEAN /\ c.last \in BOOLEAN
  BY DEF Client
<1>2. shown \in Nat /\ waiting \in BOOLEAN
  BY <1>1
<1>3. ~c.dirty => shown = c.shown /\ waiting = c.waiting
  <2>1. ~c.dirty => shown = c.shown
    OBVIOUS
  <2>2. ~c.dirty => (waiting <=> c.waiting)
    OBVIOUS
  <2> HIDE DEF waiting
  <2> QED BY <1>1, <1>2, <2>1, <2>2
<1>4. /\ dlg_modal_step(c, "none") = drawn /\ dlg_modal_step(c, "B") = closed
      /\ dlg_modal_step(c, "A") = IF ~drawn.waiting THEN IF drawn.last THEN closed ELSE waits ELSE drawn
  <2> HIDE DEF shown, waiting
  <2> DEFINE step(button) ==
        IF button = "B" THEN closed
        ELSE IF button = "A" /\ ~drawn.waiting THEN IF drawn.last THEN closed ELSE waits ELSE drawn
  <2>1. \A button : dlg_modal_step(c, button) = step(button)
    BY DEF dlg_modal_step, shown, waiting
  <2> HIDE DEF closed, waits, drawn
  <2> QED BY <2>1
<1>5. waiting <=> c.waiting /\ ~turned
  OBVIOUS
<1> HIDE DEF waiting, shown
<1>6. /\ drawn \in Client /\ drawn.text = c.text /\ drawn.next_chunk = c.next_chunk /\ drawn.page_index = c.page_index
      /\ drawn.last = c.last /\ drawn.dirty = FALSE /\ drawn.request = c.request /\ drawn.active = c.active
      /\ drawn.pickup = c.pickup /\ drawn.shown = shown /\ drawn.waiting = waiting
  BY <1>1, <1>2 DEF Client
<1> HIDE DEF drawn
<1>7. more \in Nat /\ more = c.pickup + 1
  BY <1>1, <1>6
<1> HIDE DEF more
<1>8. /\ waits \in Client /\ waits.text = c.text /\ waits.next_chunk = c.next_chunk /\ waits.page_index = c.page_index
      /\ waits.last = c.last /\ waits.dirty = FALSE /\ waits.request = c.request /\ waits.active = c.active
      /\ waits.pickup = c.pickup + 1 /\ waits.shown = shown /\ waits.waiting = TRUE
  BY <1>6, <1>7 DEF Client
<1>9. /\ told \in Client /\ told.text = c.text /\ told.next_chunk = c.next_chunk /\ told.page_index = c.page_index
      /\ told.last = c.last /\ told.pickup = c.pickup + 1 /\ told.shown = shown
  BY <1>6, <1>7 DEF Client
<1> HIDE DEF told, waits
<1>10. /\ closed \in Client /\ closed.text = c.text /\ closed.next_chunk = c.next_chunk /\ closed.page_index = c.page_index
       /\ closed.last = c.last /\ closed.dirty = FALSE /\ closed.request = FALSE /\ closed.active = FALSE
       /\ closed.pickup = c.pickup + 1 /\ closed.shown = shown
  BY <1>9 DEF Client, Closed
<1> HIDE DEF closed
<1>11. /\ LET new == dlg_modal_step(c, "none")
          IN  /\ new \in Client /\ new.text = c.text /\ new.next_chunk = c.next_chunk /\ new.page_index = c.page_index
              /\ new.last = c.last /\ new.dirty = FALSE /\ new.request = c.request /\ new.active = c.active
              /\ new.pickup = c.pickup /\ new.shown = (IF turned THEN c.page_index ELSE c.shown)
              /\ new.waiting <=> c.waiting /\ ~turned
  BY <1>4, <1>5, <1>6 DEF shown
<1>12. ASSUME ~c.dirty, ~c.waiting
       PROVE  LET new == dlg_modal_step(c, "A")
              IN  /\ new \in Client /\ new.text = c.text /\ new.next_chunk = c.next_chunk /\ new.page_index = c.page_index
                  /\ new.last = c.last /\ new.dirty = FALSE /\ new.pickup = c.pickup + 1 /\ new.shown = c.shown
                  /\ c.last => new.active = FALSE /\ new.request = FALSE
                  /\ ~c.last => new.active = c.active /\ new.request = c.request /\ new.waiting = TRUE
  <2>1. ~drawn.waiting /\ drawn.last = c.last
    BY <1>3, <1>6, <1>12
  <2>2. dlg_modal_step(c, "A") = IF c.last THEN closed ELSE waits
    BY <1>4, <2>1
  <2>3. CASE c.last
    <3>1. dlg_modal_step(c, "A") = closed
      BY <2>2, <2>3
    <3> QED BY <1>3, <1>10, <1>12, <2>3, <3>1
  <2>4. CASE ~c.last
    <3>1. dlg_modal_step(c, "A") = waits
      BY <2>2, <2>4
    <3> QED BY <1>3, <1>8, <1>12, <2>4, <3>1
  <2> QED BY <2>3, <2>4
<1>13. ASSUME ~c.dirty
       PROVE  LET new == dlg_modal_step(c, "B")
              IN  /\ new \in Client /\ new.text = c.text /\ new.next_chunk = c.next_chunk /\ new.page_index = c.page_index
                  /\ new.last = c.last /\ new.dirty = FALSE /\ new.pickup = c.pickup + 1 /\ new.shown = c.shown
                  /\ new.active = FALSE /\ new.request = FALSE
  BY <1>3, <1>4, <1>10, <1>13
<1> QED BY <1>11, <1>12, <1>13

\* What is remembered of a turn of the loop.
LEMMA Remembered ==
    ASSUME TypeOK, NEW button \in {"none", "A", "B"}, ModalStep(button)
    PROVE  LET early == button = "B" /\ (client.waiting \/ ~client.last)
           IN  /\ past' \in Past /\ past'.lost = past.lost /\ past'.again = past.again
               /\ past'.early = (IF early THEN past.early + 1 ELSE past.early)
               /\ past'.drawn = (IF client.dirty /\ client.page_index # client.shown
                                 THEN Append(past.drawn, client.text) ELSE past.drawn)
<1> DEFINE early == button = "B" /\ (client.waiting \/ ~client.last)
           turned == client.dirty /\ client.page_index # client.shown
           count == IF early THEN past.early + 1 ELSE past.early
           pages == IF turned THEN Append(past.drawn, client.text) ELSE past.drawn
           said == IF client.last /\ button # "none" THEN button ELSE past.said
<1>1. past' = [past EXCEPT !.early = count, !.drawn = pages, !.said = said]
  BY DEF ModalStep
<1>2. past \in Past /\ past.drawn \in Seq(Text) /\ client.text \in Text /\ past.early \in Nat /\ past.said \in {"none", "A", "B"}
  BY DEF TypeOK, Past, Client
<1>3. count \in Nat /\ said \in {"none", "A", "B"}
  BY <1>2
<1>4. pages \in Seq(Text)
  BY <1>2, AppendProperties
<1> HIDE DEF count, pages, said
<1>5. past' \in Past /\ past'.lost = past.lost /\ past'.again = past.again /\ past'.early = count /\ past'.drawn = pages
  BY <1>1, <1>2, <1>3, <1>4 DEF Past
<1> QED BY <1>5 DEF count, pages

LEMMA PageDrawn ==
    ASSUME TypeOK, Counted, Following, ModalStep("none")
    PROVE  TypeOK' /\ Counted' /\ Following'
<1> DEFINE turned == client.dirty /\ client.page_index # client.shown
<1>1. /\ UNCHANGED <<speech, scene, answered, outcome, latest, slot, down>>
      /\ client.active /\ client.dirty /\ client \in Client /\ past \in Past
      /\ client' = dlg_modal_step(client, "none")
      /\ up' = IF client'.pickup = client.pickup THEN up ELSE Append(up, Report(client', FALSE))
  BY DEF ModalStep, TypeOK
<1>2. /\ Whole' = Whole /\ (\A i : Count(i)' = Count(i) /\ Whole'[i] = Whole[i])
      /\ (\A i, x : PacketOf(i, x)' = PacketOf(i, x))
      /\ Page' = Page /\ Sent' = Sent /\ Turned' = Turned
      /\ Open(scene) => Open(scene)'
  BY <1>1, SceneStays
<1>3. /\ client' \in Client /\ client'.text = client.text /\ client'.next_chunk = client.next_chunk
      /\ client'.page_index = client.page_index /\ client'.last = client.last /\ client'.dirty = FALSE
      /\ client'.request = client.request /\ client'.active = client.active /\ client'.pickup = client.pickup
      /\ client'.shown = (IF turned THEN client.page_index ELSE client.shown)
      /\ client'.waiting <=> client.waiting /\ ~turned
  BY <1>1, Stepped
<1>4. /\ past' \in Past /\ past'.lost = past.lost /\ past'.again = past.again /\ past'.early = past.early
      /\ past'.drawn = (IF turned THEN Append(past.drawn, client.text) ELSE past.drawn)
  BY Remembered
<1>5. up' = up
  BY <1>1, <1>3
<1>6. TypeOK'
  BY <1>1, <1>2, <1>3, <1>4, <1>5 DEF TypeOK
<1>7. past.drawn \in Seq(Text) /\ client.text \in Text /\ client.pickup \in Nat
  BY <1>1 DEF Past, Client
<1>8. Len(past.drawn) \in Nat /\ Len(Append(past.drawn, client.text)) = Len(past.drawn) + 1
  BY <1>7, AppendProperties, LenProperties
<1>9. ASSUME past.early = 0 PROVE Counted'
  <2>1. /\ Turned <= answered /\ answered <= latest.pickup /\ latest.pickup <= client.pickup
        /\ client.pickup <= Len(past.drawn) /\ Rising(latest.pickup, up, client.pickup)
        /\ client.active /\ client.shown # 0 /\ ~client.waiting => client.pickup < Len(past.drawn)
    BY <1>9 DEF Counted
  <2>2. CASE turned
    <3>1. client.pickup <= Len(past'.drawn) /\ client.pickup < Len(past'.drawn)
      BY <1>4, <1>7, <1>8, <2>1, <2>2
    <3> QED BY <1>1, <1>2, <1>3, <1>5, <2>1, <3>1 DEF Counted
  <2>3. CASE ~turned
    BY <1>1, <1>2, <1>3, <1>4, <1>5, <2>1, <2>3 DEF Counted
  <2> QED BY <2>2, <2>3
<1>10. ASSUME Clean' PROVE Following'
  <2>1. Clean /\ Came' = Came
    BY <1>2, <1>3, <1>4, <1>10 DEF Clean, Came
  <2>2. /\ client.page_index \in {Page - 1, Page} /\ Ordered
        /\ Came > 0 => client.text = Part(Whole[Page], Came)
        /\ Waits(Page) \/ There(Page) \/ Drawn(Page) \/ Answered(Page)
        /\ IF scene = Nothing THEN Answered(Page) ELSE answered = Page - 1
        /\ past.drawn = Firsts(Whole, Len(past.drawn))
    BY <2>1 DEF Following
  <2>3. There(Page) /\ scene # Nothing
    BY <1>1, <2>2 DEF Waits, Drawn, Answered
  <2>4. speech \in Scenes /\ Len(Whole) \in Nat \ {0} /\ Whole \in Seq(Text)
    BY WholeText DEF TypeOK
  <2>5. Page \in 1..Len(Whole)
    BY <2>3, <2>4 DEF TypeOK, Page, Open
  <2>6. Count(Page) \in Nat \ {0} /\ Part(Whole[Page], Count(Page)) = Whole[Page]
    BY <2>4, <2>5, WholeChunks
  <2>7. /\ Came = Count(Page) /\ client.last = (Page = Len(Whole)) /\ client.active
        /\ Len(past.drawn) = Page - 1 /\ client.pickup = Page - 1 /\ ~client.request
        /\ client.shown = Page - 1
    BY <1>1, <2>3 DEF There
  <2>8. client.page_index = Page /\ client.text = Whole[Page]
    BY <2>2, <2>6, <2>7 DEF Came
  <2>9. turned
    BY <1>1, <2>5, <2>7, <2>8
  <2>10. Len(past'.drawn) = Page /\ past'.drawn = Firsts(Whole, Page)
    <3>1. Page - 1 \in 0..(Len(Whole) - 1) /\ (Page - 1) + 1 = Page
      BY <2>4, <2>5
    <3>2. Firsts(Whole, Page) = Append(Firsts(Whole, Page - 1), Whole[Page])
      BY <2>4, <3>1, FirstsNext
    <3> QED BY <1>4, <1>8, <2>2, <2>7, <2>8, <2>9, <3>1, <3>2
  <2>11. Drawn(Page)'
    BY <1>2, <1>3, <2>1, <2>7, <2>8, <2>9, <2>10 DEF Drawn
  <2>12. Ordered'
    BY <1>1, <1>2, <2>1, <2>2 DEF Ordered
  <2> QED BY <1>1, <1>2, <1>3, <2>1, <2>2, <2>3, <2>10, <2>11, <2>12 DEF Following
<1> QED BY <1>4, <1>6, <1>9, <1>10 DEF Following, Counted

\* The player turns the page he sees, or leaves from the last.
LEMMA PageAnswered ==
    ASSUME TypeOK, Counted, Following, NEW button \in {"A", "B"}, ModalStep(button)
    PROVE  TypeOK' /\ Counted' /\ Following'
<1> DEFINE early == button = "B" /\ (client.waiting \/ ~client.last)
           report == Report(client', button = "B")
<1>1. /\ UNCHANGED <<speech, scene, answered, outcome, latest, slot, down>>
      /\ client.active /\ client.shown # 0 /\ ~client.dirty /\ client \in Client /\ past \in Past
      /\ client.pickup \in Nat /\ client.last \in BOOLEAN /\ client.waiting \in BOOLEAN
      /\ button = "A" => ~client.waiting
      /\ client' = dlg_modal_step(client, button)
      /\ up' = IF client'.pickup = client.pickup THEN up ELSE Append(up, report)
  BY DEF ModalStep, TypeOK, Client
<1>2. /\ Whole' = Whole /\ (\A i : Count(i)' = Count(i) /\ Whole'[i] = Whole[i])
      /\ (\A i, x : PacketOf(i, x)' = PacketOf(i, x))
      /\ Page' = Page /\ Sent' = Sent /\ Turned' = Turned
      /\ Open(scene) => Open(scene)'
  BY <1>1, SceneStays
<1>3. /\ client' \in Client /\ client'.text = client.text /\ client'.next_chunk = client.next_chunk
      /\ client'.page_index = client.page_index /\ client'.last = client.last /\ client'.dirty = FALSE
      /\ client'.pickup = client.pickup + 1 /\ client'.shown = client.shown
      /\ client.last \/ button = "B" => client'.active = FALSE /\ client'.request = FALSE
      /\ ~client.last /\ button = "A" =>
            client'.active = client.active /\ client'.request = client.request /\ client'.waiting = TRUE
  <2>1. CASE button = "A"
    <3> DEFINE new == dlg_modal_step(client, "A")
    <3>1. client' = new /\ ~client.waiting /\ ~client.dirty /\ client \in Client /\ button # "B"
      BY <1>1, <2>1
    <3>2. /\ new \in Client /\ new.text = client.text /\ new.next_chunk = client.next_chunk /\ new.page_index = client.page_index
          /\ new.last = client.last /\ new.dirty = FALSE /\ new.pickup = client.pickup + 1 /\ new.shown = client.shown
          /\ client.last => new.active = FALSE /\ new.request = FALSE
          /\ ~client.last => new.active = client.active /\ new.request = client.request /\ new.waiting = TRUE
      BY <3>1, Stepped
    <3> HIDE DEF new
    <3> QED BY <3>1, <3>2
  <2>2. CASE button = "B"
    <3> DEFINE new == dlg_modal_step(client, "B")
    <3>1. client' = new /\ ~client.dirty /\ client \in Client /\ button # "A"
      BY <1>1, <2>2
    <3>2. /\ new \in Client /\ new.text = client.text /\ new.next_chunk = client.next_chunk /\ new.page_index = client.page_index
          /\ new.last = client.last /\ new.dirty = FALSE /\ new.pickup = client.pickup + 1 /\ new.shown = client.shown
          /\ new.active = FALSE /\ new.request = FALSE
      BY <3>1, Stepped
    <3> HIDE DEF new
    <3> QED BY <3>1, <3>2
  <2> QED BY <2>1, <2>2
<1>4. /\ past' \in Past /\ past'.lost = past.lost /\ past'.again = past.again /\ past'.drawn = past.drawn
      /\ past'.early = (IF early THEN past.early + 1 ELSE past.early)
  BY <1>1, Remembered
<1>5. report \in Reported /\ report.pickup = client.pickup + 1
  BY <1>1, <1>3 DEF Report, Reported
<1> HIDE DEF report
<1>6. up' = Append(up, report) /\ up' \in Seq(Reported) /\ up \in Seq(Reported)
  <2>1. up \in Seq(Reported)
    BY DEF TypeOK
  <2> QED BY <1>1, <1>3, <1>5, <2>1, AppendProperties
<1>7. TypeOK'
  BY <1>1, <1>2, <1>3, <1>4, <1>6 DEF TypeOK
<1>8. ASSUME past'.early = 0 PROVE ~early /\ past.early = 0
  <2>1. past.early \in Nat
    BY <1>1 DEF Past
  <2> QED BY <1>4, <1>8, <2>1
<1>9. ~early => ~client.waiting /\ (button = "B" => client.last)
  BY <1>1
<1> HIDE DEF early
<1>10. ASSUME past'.early = 0 PROVE Counted'
  <2>1. /\ Turned <= answered /\ answered <= latest.pickup /\ latest.pickup <= client.pickup
        /\ client.pickup <= Len(past.drawn) /\ Rising(latest.pickup, up, client.pickup)
        /\ client.pickup < Len(past.drawn)
    BY <1>1, <1>8, <1>9, <1>10 DEF Counted
  <2>2. past.drawn \in Seq(Text) /\ Len(past.drawn) \in Nat /\ latest.pickup \in Nat /\ client.pickup \in Nat
    <3>1. past.drawn \in Seq(Text) /\ latest.pickup \in Nat
      BY <1>1 DEF TypeOK, Past, Reported
    <3> QED BY <1>1, <3>1, LenProperties
  <2>3. Rising(latest.pickup, up', client.pickup + 1)
    <3>1. client.pickup <= report.pickup
      BY <1>5, <2>2
    <3> QED BY <1>5, <1>6, <2>1, <2>2, <3>1, RisingAppend
  <2>4. latest.pickup <= client.pickup + 1 /\ client.pickup + 1 <= Len(past.drawn)
    BY <2>1, <2>2
  <2>5. ~(client'.active /\ ~client'.waiting)
    BY <1>1, <1>3
  <2> QED BY <1>1, <1>2, <1>3, <1>4, <2>1, <2>3, <2>4, <2>5 DEF Counted
<1>11. ASSUME Clean' PROVE Following'
  <2>1. Clean /\ Came' = Came /\ ~client.waiting /\ (button = "B" => client.last)
    BY <1>2, <1>3, <1>4, <1>8, <1>9, <1>11 DEF Clean, Came
  <2>2. /\ client.page_index \in {Page - 1, Page} /\ Ordered
        /\ Came > 0 => client.text = Part(Whole[Page], Came)
        /\ Waits(Page) \/ There(Page) \/ Drawn(Page) \/ Answered(Page)
        /\ IF scene = Nothing THEN Answered(Page) ELSE answered = Page - 1
        /\ past.drawn = Firsts(Whole, Len(past.drawn))
    BY <2>1 DEF Following
  <2>3. Drawn(Page) /\ scene # Nothing
    BY <1>1, <2>1, <2>2 DEF Waits, There, Answered
  <2>4. /\ Came = Count(Page) /\ client.last = (Page = Len(Whole)) /\ ~client.dirty /\ ~client.request
        /\ Len(past.drawn) = Page /\ client.pickup = Page - 1 /\ client.shown = Page
    BY <2>3 DEF Drawn
  <2>5. Page \in Nat
    <3>1. speech \in Scenes /\ Len(Whole) \in Nat
      BY WholeText DEF TypeOK
    <3> QED BY <2>3, <3>1 DEF TypeOK, Page, Open
  <2>6. Answered(Page)'
    <3>0. client'.pickup = Page
      BY <1>3, <2>4, <2>5
    <3>1. client'.pickup = Page /\ ~client'.dirty /\ ~client'.request
      BY <1>1, <1>3, <2>4, <3>0
    <3>2. IF Page = Len(Whole) THEN ~client'.active ELSE client'.active /\ client'.waiting /\ client'.shown = Page
      BY <1>1, <1>3, <2>1, <2>4
    <3> QED BY <1>2, <1>4, <2>1, <2>4, <3>1, <3>2 DEF Answered
  <2>7. Ordered'
    BY <1>1, <1>2, <2>1, <2>2 DEF Ordered
  <2> QED BY <1>1, <1>2, <1>3, <1>4, <2>1, <2>2, <2>3, <2>6, <2>7 DEF Following
<1> QED BY <1>7, <1>10, <1>11 DEF Following, Counted

\* It is early, so that only the types are left.
LEMMA Interacted ==
    ASSUME TypeOK, Counted, Following, Interact
    PROVE  TypeOK' /\ Counted' /\ Following'
<1>1. /\ UNCHANGED <<speech, scene, answered, outcome, latest, slot, down>>
      /\ client \in Client /\ client.pickup \in Nat /\ past \in Past /\ past.early \in Nat /\ up \in Seq(Reported)
      /\ client' = [client EXCEPT !.pickup = @ + 1]
      /\ up' = Append(up, Report(client', FALSE))
      /\ past' = [past EXCEPT !.early = @ + 1]
  BY DEF Interact, TypeOK, Client, Past
<1>2. Open(scene) => Open(scene)'
  BY <1>1, SceneStays
<1>3. client' \in Client /\ client'.pickup \in Nat
  <2> DEFINE next == client.pickup + 1
  <2>1. next \in Nat /\ client' = [client EXCEPT !.pickup = next]
    BY <1>1
  <2> HIDE DEF next
  <2> QED BY <1>1, <2>1 DEF Client
<1>4. Report(client', FALSE) \in Reported
  BY <1>3 DEF Report, Reported
<1>5. up' \in Seq(Reported)
  BY <1>1, <1>4, AppendProperties
<1>6. past' \in Past /\ past'.early # 0
  <2> DEFINE more == past.early + 1
  <2>1. more \in Nat /\ more # 0 /\ past' = [past EXCEPT !.early = more]
    BY <1>1
  <2> HIDE DEF more
  <2> QED BY <1>1, <2>1 DEF Past
<1>7. TypeOK'
  BY <1>1, <1>2, <1>3, <1>5, <1>6 DEF TypeOK
<1> QED BY <1>6, <1>7 DEF Counted, Following, Clean

LEMMA HeartBeaten ==
    ASSUME TypeOK, Counted, Following, Heartbeat
    PROVE  TypeOK' /\ Counted' /\ Following'
<1>1. /\ UNCHANGED <<speech, scene, answered, outcome, latest, slot, down, client, past>>
      /\ up' = Append(up, Report(client, FALSE)) /\ up \in Seq(Reported)
      /\ client \in Client /\ client.pickup \in Nat /\ latest.pickup \in Nat
  BY DEF Heartbeat, TypeOK, Client, Reported
<1>2. /\ Turned' = Turned
      /\ Open(scene) => Open(scene)'
  BY <1>1, SceneStays
<1>3. Report(client, FALSE) \in Reported /\ Report(client, FALSE).pickup = client.pickup
  BY <1>1 DEF Report, Reported
<1>4. up' \in Seq(Reported)
  BY <1>1, <1>3, AppendProperties
<1>5. TypeOK'
  BY <1>1, <1>2, <1>4 DEF TypeOK
<1>6. ASSUME past.early = 0 PROVE Counted'
  <2>1. /\ Turned <= answered /\ answered <= latest.pickup /\ latest.pickup <= client.pickup
        /\ client.pickup <= Len(past.drawn) /\ Rising(latest.pickup, up, client.pickup)
        /\ client.active /\ client.shown # 0 /\ ~client.waiting => client.pickup < Len(past.drawn)
    BY <1>6 DEF Counted
  <2> DEFINE r == Report(client, FALSE)
  <2> HIDE DEF r
  <2>2. Rising(latest.pickup, Append(up, r), r.pickup) /\ r.pickup = client.pickup /\ up' = Append(up, r)
    <3>0. r \in Reported /\ r.pickup = client.pickup
      BY <1>3 DEF r
    <3>1. r \in Reported /\ r.pickup = client.pickup /\ up' = Append(up, r) /\ client.pickup <= r.pickup
      <4>1. up' = Append(up, r)
        BY <1>1 DEF r
      <4>2. client.pickup \in Nat
        BY <1>1
      <4>3. client.pickup <= r.pickup
        BY <3>0, <4>2
      <4> QED BY <3>0, <4>1, <4>3
    <3>2. latest.pickup \in Nat /\ client.pickup \in Nat /\ up \in Seq(Reported) /\ Rising(latest.pickup, up, client.pickup)
          /\ latest.pickup <= client.pickup
      BY <1>1, <2>1
    <3>3. Rising(latest.pickup, Append(up, r), r.pickup)
      BY <3>1, <3>2, RisingAppend
    <3> QED BY <3>1, <3>3
  <2> QED BY <1>1, <1>2, <2>1, <2>2 DEF Counted
<1>7. Counted'
  BY <1>1, <1>6 DEF Counted
<1> QED BY <1>1, <1>5, <1>7, FollowingStays

-----------------------------------------------------------------------------
(* The theorems.                                                            *)

LEMMA Inductive == DialogueInv /\ [Next]_vars => DialogueInv'
<1> SUFFICES ASSUME TypeOK, Counted, Following, [Next]_vars
             PROVE  TypeOK' /\ Counted' /\ Following'
  BY DEF DialogueInv
<1>1. CASE Tick
  BY <1>1, TickTyped, TickCounted, TickFollowing
<1>2. CASE Flush
  BY <1>2, Flushed
<1>3. CASE ReceiveReport
  BY <1>3, ReportReceived
<1>4. CASE Lose
  BY <1>4, Lost
<1>5. CASE ReceiveChunk
  BY <1>5, ChunkReceived
<1>6. CASE OpenModal
  BY <1>6, Opened
<1>7. CASE ModalStep("none")
  BY <1>7, PageDrawn
<1>8. CASE ModalStep("A")
  BY <1>8, PageAnswered
<1>9. CASE ModalStep("B")
  BY <1>9, PageAnswered
<1>10. CASE Interact
  BY <1>10, Interacted
<1>11. CASE Heartbeat
  BY <1>11, HeartBeaten
<1>12. CASE UNCHANGED vars
  <2>1. /\ UNCHANGED <<speech, scene, answered, outcome, latest, slot, down, up, client, past>>
        /\ Turned' = Turned /\ (Open(scene) => Open(scene)')
    BY <1>12, SceneStays DEF vars
  <2>2. TypeOK'
    BY <2>1 DEF TypeOK
  <2>3. Counted'
    BY <2>1 DEF Counted
  <2> QED BY <2>1, <2>2, <2>3, FollowingStays
<1> QED BY <1>1, <1>2, <1>3, <1>4, <1>5, <1>6, <1>7, <1>8, <1>9, <1>10, <1>11, <1>12 DEF Next

\* What is counted and what is shown on the two sides of a scene: presses of the button
\* and answers to them, pages drawn and pages the server has turned (advance_dialogue,
\* build_dialogue_page).
THEOREM Invariant == Spec => []DialogueInv
<1> QED BY Initially, Inductive, PTL DEF Spec

\* A player who waits for his pages has seen every page the server takes as read,
\* whatever was lost, late or sent again (advance_dialogue).
THEOREM PagesReadFirst == Spec => []ReadFirst
<1>1. DialogueInv => ReadFirst
  <2> SUFFICES ASSUME DialogueInv, past.early = 0
               PROVE  Turned <= Len(past.drawn)
    BY DEF ReadFirst
  <2>1. /\ Turned <= answered /\ answered <= latest.pickup /\ latest.pickup <= client.pickup
        /\ client.pickup <= Len(past.drawn)
    BY DEF DialogueInv, Counted
  <2>2. answered \in Nat /\ latest.pickup \in Nat /\ client.pickup \in Nat /\ past.drawn \in Seq(Text)
    BY DEF DialogueInv, TypeOK, Reported, Client, Past
  <2>3. Len(past.drawn) \in Nat /\ Turned \in Int
    <3>1. Len(past.drawn) \in Nat
      BY <2>2, LenProperties
    <3>2. speech \in Scenes /\ Len(Whole) \in Nat /\ (scene = Nothing \/ scene.index \in Nat)
      BY WholeText DEF DialogueInv, TypeOK, Open
    <3> QED BY <3>1, <3>2, TurnedPages
  <2> QED BY <2>1, <2>2, <2>3
<1> QED BY <1>1, Invariant, PTL

\* Who accepts a scene from which nothing was lost or sent again, and who waited for its
\* pages, has seen the whole text, to the letter, on pages that fit the box.
THEOREM ToldAsSaid == Spec => []AsSaid
<1>1. DialogueInv => AsSaid
  <2> SUFFICES ASSUME DialogueInv, outcome = "accepted", Clean
               PROVE  /\ Letters(FlattenSeq(past.drawn)) = FlattenSeq(FlattenSeq(speech))
                      /\ \A i \in DOMAIN past.drawn : Len(past.drawn[i]) <= Width
    BY DEF AsSaid, Clean
  <2>1. scene = Nothing /\ speech \in Scenes
    BY DEF DialogueInv, TypeOK
  <2>2. Page = Len(Whole)
    BY <2>1 DEF Page
  <2>3. Answered(Page) /\ past.drawn = Firsts(Whole, Len(past.drawn))
    BY <2>1 DEF DialogueInv, Following
  <2>4. /\ Whole \in Seq(Text) /\ Len(Whole) \in Nat /\ Said(Whole) = FlattenSeq(FlattenSeq(speech))
        /\ \A i \in 1..Len(Whole) : Len(Whole[i]) <= Width
    BY <2>1, WholeText
  <2>5. past.drawn = Whole
    <3>1. Len(past.drawn) = Len(Whole)
      BY <2>2, <2>3 DEF Answered
    <3> QED BY <2>3, <2>4, <3>1, FirstsEnds
  <2>6. DOMAIN Whole = 1..Len(Whole)
    BY <2>4, LenProperties
  <2> QED BY <2>4, <2>5, <2>6 DEF Said
<1> QED BY <1>1, Invariant, PTL
=============================================================================
