--------------------------- MODULE TextEditProofs ---------------------------
(***************************************************************************)
(* Proofs about TextEdit, for any words, files and calls: the six          *)
(* properties of an edit hold after any number of calls.                   *)
(*                                                                         *)
(* The functions of the module work through texts and lines one by one, so *)
(* their lemmas need an induction.  It is made over sets (SeqInduction),   *)
(* from the fact that a set of numbers has a least element; a recursive    *)
(* function is known by exhibiting the solution of its equations           *)
(* (FoldExists).  From there the order is that of the code: splitting into *)
(* lines, the words of a text, what a reading leaves of it, the readings   *)
(* of a call, what each makes of the file, and the calls themselves.       *)
(***************************************************************************)
EXTENDS TextEdit, SequenceTheorems, FiniteSetTheorems, WellFoundedInduction,
        TLAPS

-----------------------------------------------------------------------------
\* Induction.

\* A set of numbers that is not empty has a least one.
LEMMA NatHasMin ==
  ASSUME NEW T \in SUBSET Nat, T # {}
  PROVE  \E n \in T : \A m \in T : n <= m
<1>1. PICK n \in T : \A m \in T : ~ (<<m, n>> \in OpToRel(<, Nat))
  BY NatLessThanWellFounded, WFMin
<1>2. ASSUME NEW m \in T, m < n PROVE FALSE
  <2>1. <<m, n>> \in Nat \X Nat /\ <<m, n>>[1] < <<m, n>>[2]
    BY <1>2
  <2>2. <<m, n>> \in OpToRel(<, Nat)
    BY <2>1, Zenon DEF OpToRel
  <2> QED
    BY <1>1, <2>2
<1> QED
  BY <1>2

\* Induction up to a bound, stated of a set so that it needs no operator
\* parameter.
LEMMA UpTo ==
  ASSUME NEW n \in Nat, NEW T, 0 \in T, \A i \in 0 .. n - 1 : i \in T => i + 1 \in T
  PROVE  \A i \in 0 .. n : i \in T
<1> DEFINE U == {i \in 0 .. n : i \notin T}
<1> SUFFICES ASSUME U # {} PROVE FALSE
  OBVIOUS
<1>0. U \in SUBSET Nat
  OBVIOUS
<1>1. PICK m \in U : \A k \in U : m <= k
  <2> HIDE DEF U
  <2> QED
    BY <1>0, NatHasMin
<1>2. m \in 1 .. n /\ m - 1 \in 0 .. n - 1 /\ m - 1 + 1 = m
  OBVIOUS
<1>3. m - 1 \in T
  BY <1>1, <1>2
<1> QED
  BY <1>2, <1>3

\* The same, stepping from the number before.
LEMMA UpToPred ==
  ASSUME NEW n \in Nat, NEW T, 0 \in T, \A i \in 1 .. n : i - 1 \in T => i \in T
  PROVE  \A i \in 0 .. n : i \in T
<1>1. ASSUME NEW i \in 0 .. n - 1, i \in T PROVE i + 1 \in T
  <2> DEFINE j == i + 1
  <2>1. j \in 1 .. n /\ j - 1 = i
    OBVIOUS
  <2> HIDE DEF j
  <2>2. j \in T
    BY <1>1, <2>1
  <2> QED
    BY <2>2 DEF j
<1> QED
  BY <1>1, UpTo

\* Induction over sequences, by appending.
LEMMA SeqInduction ==
  ASSUME NEW S, NEW T, <<>> \in T,
         \A s \in Seq(S) : \A e \in S : s \in T => Append(s, e) \in T
  PROVE  \A s \in Seq(S) : s \in T
<1> SUFFICES ASSUME NEW s \in Seq(S) PROVE s \in T
  OBVIOUS
<1> DEFINE U == {i \in 0 .. Len(s) : SubSeq(s, 1, i) \in T}
<1>0. Len(s) \in Nat
  OBVIOUS
<1>1. \A i \in 0 .. Len(s) : i \in U <=> SubSeq(s, 1, i) \in T
  OBVIOUS
<1> HIDE DEF U
<1>2. 0 \in U
  <2>1. SubSeq(s, 1, 0) = <<>> /\ 0 \in 0 .. Len(s)
    BY <1>0, SubSeqEmpty
  <2>2. SubSeq(s, 1, 0) \in T
    BY <2>1, Zenon
  <2> QED
    BY <1>1, <2>1, <2>2
<1>3. ASSUME NEW i \in 0 .. Len(s) - 1, i \in U PROVE i + 1 \in U
  <2>1. SubSeq(s, 1, i) \in Seq(S) /\ s[i + 1] \in S
    OBVIOUS
  <2>2. SubSeq(s, 1, i + 1) = Append(SubSeq(s, 1, i), s[i + 1])
    OBVIOUS
  <2>3. i \in 0 .. Len(s) /\ i + 1 \in 0 .. Len(s)
    BY <1>0
  <2>4. SubSeq(s, 1, i) \in T
    BY <1>1, <1>3, <2>3
  <2>5. SubSeq(s, 1, i + 1) \in T
    BY <2>1, <2>2, <2>4, Zenon
  <2> QED
    BY <1>1, <2>3, <2>5
<1>4. \A i \in 0 .. Len(s) : i \in U
  BY <1>0, <1>2, <1>3, UpTo, Zenon
<1>5. SubSeq(s, 1, Len(s)) \in T
  BY <1>0, <1>1, <1>4
<1> QED
  BY <1>5, SubSeqFull

\* f holds what step makes of v0 and the positions up to each i.
IsFold(f, V, v0, n, step) ==
  /\ f \in [0 .. n -> V]
  /\ f[0] = v0
  /\ \A i \in 1 .. n : f[i] = step[<<f[i - 1], i>>]

\* The recursion of a fold over 1 .. n has a solution.
LEMMA FoldExists ==
  ASSUME NEW V, NEW v0 \in V, NEW n \in Nat, NEW step \in [V \X (1 .. n) -> V]
  PROVE  \E f : IsFold(f, V, v0, n, step)
<1> DEFINE Folds(f, m) ==
             f[0] = v0 /\ \A i \in 1 .. m : f[i] = step[<<f[i - 1], i>>]
           U == {m \in 0 .. n : \E f \in [0 .. m -> V] : Folds(f, m)}
<1>1. 0 \in U
  <2> DEFINE f == [i \in 0 .. 0 |-> v0]
  <2>1. f \in [0 .. 0 -> V] /\ f[0] = v0 /\ 1 .. 0 = {}
    OBVIOUS
  <2> HIDE DEF f
  <2> QED
    BY <2>1
<1>2. ASSUME NEW m \in 0 .. n - 1, m \in U PROVE m + 1 \in U
  <2>1. PICK f \in [0 .. m -> V] : Folds(f, m)
    BY <1>2
  <2> DEFINE v == step[<<f[m], m + 1>>]
             g == [i \in 0 .. m + 1 |-> IF i = m + 1 THEN v ELSE f[i]]
  <2>2. v \in V
    OBVIOUS
  <2>3. g \in [0 .. m + 1 -> V]
    <3> HIDE DEF v
    <3> QED
      BY <2>2
  <2>4. \A i \in 0 .. m : g[i] = f[i]
    OBVIOUS
  <2>5. g[m + 1] = v
    OBVIOUS
  <2> HIDE DEF g
  <2>6. ASSUME NEW i \in 1 .. m + 1 PROVE g[i] = step[<<g[i - 1], i>>]
    <3>1. CASE i = m + 1
      BY <2>4, <2>5, <3>1
    <3>2. CASE i # m + 1
      <4>1. i \in 1 .. m /\ i - 1 \in 0 .. m
        BY <3>2
      <4> QED
        BY <2>1, <2>4, <4>1
    <3> QED
      BY <3>1, <3>2
  <2>7. Folds(g, m + 1) /\ m + 1 \in 0 .. n
    BY <2>1, <2>4, <2>6
  <2> HIDE DEF Folds
  <2> QED
    BY <2>3, <2>7
<1>3. n \in U
  <2> HIDE DEF U
  <2> QED
    BY <1>1, <1>2, UpTo
<1> QED
  BY <1>3 DEF IsFold

-----------------------------------------------------------------------------
\* Concatenation of parts.

\* FlattenSeq is the last value of any f that concatenates part by part.
LEMMA FlattenFold ==
  ASSUME NEW S, NEW ss \in Seq(Seq(S)), NEW f \in [0 .. Len(ss) -> Seq(S)],
         f[0] = <<>>, \A i \in 1 .. Len(ss) : f[i] = f[i - 1] \o ss[i]
  PROVE  FlattenSeq(ss) = f[Len(ss)]
<1>0. Len(ss) \in Nat /\ \A i \in 1 .. Len(ss) : ss[i] \in Seq(S)
  OBVIOUS
<1>1. CASE Len(ss) = 0
  <2>1. ss = <<>>
    BY <1>1
  <2> QED
    BY <1>1, <2>1, Zenon DEF FlattenSeq
<1>2. CASE Len(ss) # 0
  <2>0. f[1] = <<>> \o ss[1] /\ ss[1] \in Seq(S)
    <3>1. 1 \in 1 .. Len(ss) /\ 1 - 1 = 0
      BY <1>0, <1>2
    <3>2. f[1] = f[1 - 1] \o ss[1]
      BY <3>1, Zenon
    <3> QED
      BY <1>0, <3>1, <3>2
  <2> DEFINE n == Len(ss)
             Def(g) == [i \in 1 .. n |-> IF i = 1 THEN ss[i] ELSE g[i - 1] \o ss[i]]
             h == [i \in 1 .. n |-> f[i]]
             flatten == CHOOSE g : g = Def(g)
  <2>1. ASSUME NEW i \in 1 .. n
        PROVE  h[i] = IF i = 1 THEN ss[i] ELSE h[i - 1] \o ss[i]
    <3>1. CASE i = 1
      BY <2>0, <3>1, ConcatEmptySeq
    <3>2. CASE i # 1
      <4>1. i - 1 \in 1 .. n
        BY <3>2, <1>0
      <4> QED
        BY <3>2, <4>1
    <3> QED
      BY <3>1, <3>2
  <2>2. h = Def(h)
    <3>1. h = [i \in 1 .. n |-> h[i]]
      OBVIOUS
    <3> HIDE DEF h
    <3> QED
      BY <2>1, <3>1
  <2>3. flatten = Def(flatten)
    <3> HIDE DEF h, Def
    <3> QED
      BY <2>2
  <2>4. FlattenSeq(ss) = flatten[n]
    BY <1>2 DEF FlattenSeq
  <2> DEFINE T == {i \in 0 .. n : i = 0 \/ flatten[i] = f[i]}
  <2>5. \A i \in 0 .. n : i \in T <=> (i = 0 \/ flatten[i] = f[i])
    OBVIOUS
  <2>6. \A i \in 1 .. n : flatten[i] = IF i = 1 THEN ss[i] ELSE flatten[i - 1] \o ss[i]
    <3> HIDE DEF flatten
    <3> QED
      BY <2>3
  <2>7. f[1] = ss[1]
    BY <2>0, ConcatEmptySeq
  <2> HIDE DEF flatten, T, h
  <2>8. 0 \in T
    BY <1>0, <2>5
  <2>9. ASSUME NEW i \in 1 .. n, i - 1 \in T PROVE i \in T
    <3>1. i \in 0 .. n /\ i - 1 \in 0 .. n
      BY <1>0
    <3>2. CASE i = 1
      BY <2>5, <2>6, <2>7, <3>1, <3>2
    <3>3. CASE i # 1
      <4>1. flatten[i - 1] = f[i - 1]
        BY <2>5, <2>9, <3>1, <3>3
      <4>2. flatten[i] = flatten[i - 1] \o ss[i]
        BY <2>6, <3>1, <3>3
      <4> QED
        BY <2>5, <3>1, <4>1, <4>2
    <3> QED
      BY <3>2, <3>3
  <2>10. \A i \in 0 .. n : i \in T
    <3> HIDE DEF n
    <3> QED
      BY <1>0, <2>8, <2>9, UpToPred, Zenon DEF n
  <2>11. n \in 0 .. n /\ n # 0
    BY <1>0, <1>2
  <2> QED
    BY <2>4, <2>5, <2>10, <2>11
<1> QED
  BY <1>1, <1>2

\* Nothing concatenated is nothing.
LEMMA FlattenEmpty ==
  FlattenSeq(<<>>) = <<>>
BY DEF FlattenSeq

\* There is such an f, so that FlattenSeq may be unfolded.
LEMMA FlattenFoldExists ==
  ASSUME NEW S, NEW ss \in Seq(Seq(S))
  PROVE  \E f \in [0 .. Len(ss) -> Seq(S)] :
           f[0] = <<>> /\ \A i \in 1 .. Len(ss) : f[i] = f[i - 1] \o ss[i]
<1> DEFINE step == [p \in Seq(S) \X (1 .. Len(ss)) |-> p[1] \o ss[p[2]]]
<1>1. Len(ss) \in Nat /\ \A i \in 1 .. Len(ss) : ss[i] \in Seq(S)
  OBVIOUS
<1>2. step \in [Seq(S) \X (1 .. Len(ss)) -> Seq(S)]
  BY <1>1
<1>3. <<>> \in Seq(S)
  OBVIOUS
<1>4. \A t \in Seq(S), i \in 1 .. Len(ss) : step[<<t, i>>] = t \o ss[i]
  OBVIOUS
<1> HIDE DEF step
<1>5. PICK f \in [0 .. Len(ss) -> Seq(S)] :
        f[0] = <<>> /\ \A i \in 1 .. Len(ss) : f[i] = step[<<f[i - 1], i>>]
  <2> DEFINE V == Seq(S)
             n == Len(ss)
             v0 == <<>>
  <2>1. n \in Nat /\ v0 \in V /\ step \in [V \X (1 .. n) -> V]
    BY <1>1, <1>2, <1>3
  <2> HIDE DEF V, n, v0
  <2>2. \E f : IsFold(f, V, v0, n, step)
    BY <2>1, FoldExists
  <2> QED
    BY <2>2 DEF V, n, v0, IsFold
<1>6. \A i \in 1 .. Len(ss) : f[i - 1] \in Seq(S)
  <2>1. \A i \in 1 .. Len(ss) : i - 1 \in 0 .. Len(ss)
    BY <1>1
  <2> QED
    BY <1>5, <2>1, Zenon
<1> QED
  BY <1>4, <1>5, <1>6

\* Texts concatenated are a text.
LEMMA FlattenType ==
  ASSUME NEW S, NEW ss \in Seq(Seq(S))
  PROVE  FlattenSeq(ss) \in Seq(S)
<1>1. Len(ss) \in 0 .. Len(ss)
  OBVIOUS
<1>2. PICK f \in [0 .. Len(ss) -> Seq(S)] :
        f[0] = <<>> /\ \A i \in 1 .. Len(ss) : f[i] = f[i - 1] \o ss[i]
  BY FlattenFoldExists
<1>3. FlattenSeq(ss) = f[Len(ss)]
  BY <1>2, FlattenFold
<1> QED
  BY <1>1, <1>3

\* One part more is concatenated behind the others.
LEMMA FlattenAppend ==
  ASSUME NEW S, NEW ss \in Seq(Seq(S)), NEW x \in Seq(S)
  PROVE  FlattenSeq(Append(ss, x)) = FlattenSeq(ss) \o x
<1> DEFINE tt == Append(ss, x)
           n == Len(ss)
<1>1. tt \in Seq(Seq(S)) /\ Len(tt) = n + 1 /\ tt[n + 1] = x /\ n \in Nat
  OBVIOUS
<1>2. \A i \in 1 .. n : tt[i] = ss[i]
  OBVIOUS
<1> HIDE DEF tt
<1>3. PICK f \in [0 .. Len(tt) -> Seq(S)] :
        f[0] = <<>> /\ \A i \in 1 .. Len(tt) : f[i] = f[i - 1] \o tt[i]
  BY <1>1, FlattenFoldExists
<1>4. FlattenSeq(tt) = f[n + 1]
  BY <1>1, <1>3, FlattenFold
<1> DEFINE g == [i \in 0 .. n |-> f[i]]
<1>5. g \in [0 .. n -> Seq(S)] /\ g[0] = <<>> /\ g[n] = f[n]
  BY <1>1, <1>3
<1>6. ASSUME NEW i \in 1 .. n PROVE g[i] = g[i - 1] \o ss[i]
  <2>1. i \in 1 .. Len(tt) /\ i \in 0 .. n /\ i - 1 \in 0 .. n
    BY <1>1
  <2>2. f[i] = f[i - 1] \o tt[i]
    BY <1>3, <2>1, Zenon
  <2> QED
    BY <1>2, <2>1, <2>2
<1> HIDE DEF g
<1>7. FlattenSeq(ss) = g[n]
  BY <1>5, <1>6, FlattenFold
<1>8. f[n + 1] = f[n] \o x
  <2>1. n + 1 \in 1 .. Len(tt) /\ n + 1 - 1 = n
    BY <1>1
  <2> DEFINE m == n + 1
  <2>2. m \in 1 .. Len(tt) /\ m - 1 = n /\ tt[m] = x
    BY <1>1
  <2> HIDE DEF m
  <2>3. f[m] = f[m - 1] \o tt[m]
    BY <1>3, <2>2
  <2> QED
    BY <2>2, <2>3 DEF m
<1> QED
  BY <1>4, <1>5, <1>7, <1>8 DEF tt

-----------------------------------------------------------------------------
\* Lines.

\* What a file and the texts of a call are.
Text == Seq(Token)

\* It does not matter which of three parts are put together first.  Stated of an
\* operator, which is expanded last, the provers find it at once.
Associates(a, b, c) == (a \o b) \o c = a \o (b \o c)

LEMMA Associative ==
  ASSUME NEW S, NEW a \in Seq(S), NEW b \in Seq(S), NEW c \in Seq(S)
  PROVE  Associates(a, b, c)
BY ConcatAssociative DEF Associates

\* A sequence is its front and its last element.
LEMMA LastFront ==
  ASSUME NEW S, NEW s \in Seq(S), s # <<>>
  PROVE  /\ Len(s) \in Nat \ {0} /\ Len(s) - 1 \in Nat
         /\ Last(s) \in S /\ Last(s) = s[Len(s)]
         /\ Front(s) \in Seq(S)
         /\ Len(Front(s)) = Len(s) - 1
         /\ \A i \in 1 .. Len(s) - 1 : Front(s)[i] = s[i]
         /\ s = Append(Front(s), Last(s))
<1>1. Len(s) \in Nat \ {0} /\ Len(s) - 1 \in Nat
  BY EmptySeq
<1>2. \A i \in 1 .. Len(s) - 1 : s[i] \in S
  BY <1>1
<1>3. /\ Front(s) \in Seq(S)
      /\ Len(Front(s)) = Len(s) - 1
      /\ \A i \in 1 .. Len(s) - 1 : Front(s)[i] = s[i]
  <2> DEFINE n == Len(s) - 1
  <2>1. n \in Nat /\ \A i \in 1 .. n : s[i] \in S
    BY <1>1, <1>2
  <2>2. Front(s) = SubSeq(s, 1, n)
    BY DEF Front
  <2> HIDE DEF n
  <2>3. /\ SubSeq(s, 1, n) \in Seq(S)
        /\ Len(SubSeq(s, 1, n)) = IF 1 <= n THEN n - 1 + 1 ELSE 0
        /\ \A i \in 1 .. n - 1 + 1 : SubSeq(s, 1, n)[i] = s[1 + i - 1]
    BY <2>1, SubSeqProperties
  <2>4. /\ SubSeq(s, 1, n) \in Seq(S)
        /\ Len(SubSeq(s, 1, n)) = n
        /\ \A i \in 1 .. n : SubSeq(s, 1, n)[i] = s[i]
    BY <2>1, <2>3
  <2> QED
    BY <2>2, <2>4 DEF n
<1>4. Last(s) \in S /\ Last(s) = s[Len(s)]
  BY <1>1 DEF Last
<1>5. s = Append(Front(s), Last(s))
  <2>1. /\ Append(Front(s), Last(s)) \in Seq(S)
        /\ Len(Append(Front(s), Last(s))) = Len(s)
        /\ \A i \in 1 .. Len(s) - 1 : Append(Front(s), Last(s))[i] = s[i]
        /\ Append(Front(s), Last(s))[Len(s)] = s[Len(s)]
    BY <1>1, <1>3, <1>4, AppendProperties
  <2>2. \A i \in 1 .. Len(s) : i \in 1 .. Len(s) - 1 \/ i = Len(s)
    BY <1>1
  <2>3. \A i \in 1 .. Len(s) : Append(Front(s), Last(s))[i] = s[i]
    BY <2>1, <2>2
  <2> QED
    BY <2>1, <2>3, SeqEqual
<1> QED
  BY <1>1, <1>3, <1>4, <1>5

\* A token added to lines leaves lines.
LEMMA AddToLinesType ==
  ASSUME NEW lines \in Seq(Text), NEW x \in Token
  PROVE  AddToLines(lines, x) \in Seq(Text)
<1>1. <<x>> \in Text
  BY DEF Text
<1>2. CASE lines = <<>> \/ Last(Last(lines)) \in Eols
  BY <1>1, <1>2, AppendProperties DEF AddToLines
<1>3. CASE ~(lines = <<>> \/ Last(Last(lines)) \in Eols)
  <2>1. Front(lines) \in Seq(Text) /\ Last(lines) \in Text
    BY <1>3, LastFront
  <2>2. Append(Last(lines), x) \in Text
    BY <2>1, AppendProperties DEF Text
  <2> QED
    BY <1>3, <2>1, <2>2, AppendProperties DEF AddToLines
<1> QED
  BY <1>2, <1>3

\* splitLogicalLines is the last value of any f that adds token by token.
LEMMA SplitFold ==
  ASSUME NEW t \in Text, NEW f \in [0 .. Len(t) -> Seq(Text)],
         f[0] = <<>>, \A i \in 1 .. Len(t) : f[i] = AddToLines(f[i - 1], t[i])
  PROVE  splitLogicalLines(t) = f[Len(t)]
<1> DEFINE n == Len(t)
           Def(g) == [i \in 0 .. n |->
                        IF i = 0 THEN <<>> ELSE AddToLines(g[i - 1], t[i])]
           upTo == CHOOSE g : g = Def(g)
<1>0. n \in Nat
  BY DEF Text
<1>1. f = Def(f)
  <2>1. \A i \in 0 .. n : f[i] = IF i = 0 THEN <<>> ELSE AddToLines(f[i - 1], t[i])
    <3>1. \A i \in 0 .. n : i # 0 => i \in 1 .. n
      BY <1>0
    <3> QED
      BY <3>1
  <2>2. f = [i \in 0 .. n |-> f[i]]
    OBVIOUS
  <2> QED
    BY <2>1, <2>2
<1>2. upTo = Def(upTo)
  <2> HIDE DEF Def
  <2> QED
    BY <1>1
<1>3. splitLogicalLines(t) = upTo[n]
  BY DEF splitLogicalLines
<1>4. \A i \in 0 .. n : upTo[i] = IF i = 0 THEN <<>> ELSE AddToLines(upTo[i - 1], t[i])
  <2> HIDE DEF upTo
  <2> QED
    BY <1>2
<1> DEFINE T == {i \in 0 .. n : upTo[i] = f[i]}
<1>5. \A i \in 0 .. n : i \in T <=> upTo[i] = f[i]
  OBVIOUS
<1> HIDE DEF upTo, T
<1>6. 0 \in T
  BY <1>0, <1>4, <1>5
<1>7. ASSUME NEW i \in 1 .. n, i - 1 \in T PROVE i \in T
  <2>1. i \in 0 .. n /\ i - 1 \in 0 .. n /\ i # 0
    BY <1>0
  <2>2. upTo[i - 1] = f[i - 1]
    BY <1>5, <1>7, <2>1
  <2>3. upTo[i] = AddToLines(upTo[i - 1], t[i])
    BY <1>4, <2>1
  <2> QED
    BY <1>5, <2>1, <2>2, <2>3
<1>8. \A i \in 0 .. n : i \in T
  <2> HIDE DEF n
  <2> QED
    BY <1>0, <1>6, <1>7, UpToPred
<1>9. n \in 0 .. n
  BY <1>0
<1> QED
  BY <1>3, <1>5, <1>8, <1>9

\* There is such an f, so that splitLogicalLines may be unfolded.
LEMMA SplitFoldExists ==
  ASSUME NEW t \in Text
  PROVE  \E f \in [0 .. Len(t) -> Seq(Text)] :
           f[0] = <<>> /\ \A i \in 1 .. Len(t) : f[i] = AddToLines(f[i - 1], t[i])
<1> DEFINE V == Seq(Text)
           n == Len(t)
           v0 == <<>>
           step == [p \in V \X (1 .. n) |-> AddToLines(p[1], t[p[2]])]
<1>1. n \in Nat /\ \A i \in 1 .. n : t[i] \in Token
  BY DEF Text
<1>2. step \in [V \X (1 .. n) -> V]
  BY <1>1, AddToLinesType
<1>3. v0 \in V
  OBVIOUS
<1>4. \A s \in V, i \in 1 .. n : step[<<s, i>>] = AddToLines(s, t[i])
  OBVIOUS
<1>5. \A i \in 1 .. n : i - 1 \in 0 .. n
  BY <1>1
<1> HIDE DEF step, V, n, v0
<1>6. PICK f : IsFold(f, V, v0, n, step)
  BY <1>1, <1>2, <1>3, FoldExists
<1>7. f \in [0 .. n -> V] /\ f[0] = v0
  BY <1>6 DEF IsFold
<1>8. ASSUME NEW i \in 1 .. n PROVE f[i] = AddToLines(f[i - 1], t[i])
  <2>1. f[i - 1] \in V
    BY <1>5, <1>7
  <2>2. f[i] = step[<<f[i - 1], i>>]
    BY <1>6 DEF IsFold
  <2> QED
    BY <1>4, <2>1, <2>2
<1> QED
  BY <1>7, <1>8 DEF V, n, v0

\* An empty text has no lines.
LEMMA SplitEmpty ==
  splitLogicalLines(<<>>) = <<>>
<1> DEFINE t == <<>>
<1>1. t \in Text /\ Len(t) = 0
  BY DEF Text
<1> HIDE DEF t
<1>2. PICK f \in [0 .. Len(t) -> Seq(Text)] :
        f[0] = <<>> /\ \A i \in 1 .. Len(t) : f[i] = AddToLines(f[i - 1], t[i])
  BY <1>1, SplitFoldExists
<1>3. splitLogicalLines(t) = f[0]
  BY <1>1, <1>2, SplitFold
<1> QED
  BY <1>2, <1>3 DEF t

\* splitLogicalLines makes texts of a text.
LEMMA SplitType ==
  ASSUME NEW t \in Text
  PROVE  splitLogicalLines(t) \in Seq(Text)
<1>1. Len(t) \in 0 .. Len(t)
  BY DEF Text
<1>2. PICK f \in [0 .. Len(t) -> Seq(Text)] :
        f[0] = <<>> /\ \A i \in 1 .. Len(t) : f[i] = AddToLines(f[i - 1], t[i])
  BY SplitFoldExists
<1>3. splitLogicalLines(t) = f[Len(t)]
  BY <1>2, SplitFold
<1> QED
  BY <1>1, <1>3

\* A token more is added to the lines of the text before it.
LEMMA SplitAppend ==
  ASSUME NEW t \in Text, NEW x \in Token
  PROVE  splitLogicalLines(Append(t, x)) = AddToLines(splitLogicalLines(t), x)
<1> DEFINE u == Append(t, x)
           n == Len(t)
<1>1. u \in Text /\ Len(u) = n + 1 /\ u[n + 1] = x /\ n \in Nat
  BY DEF Text
<1>2. \A i \in 1 .. n : u[i] = t[i]
  BY DEF Text
<1> HIDE DEF u
<1>3. PICK f \in [0 .. Len(u) -> Seq(Text)] :
        f[0] = <<>> /\ \A i \in 1 .. Len(u) : f[i] = AddToLines(f[i - 1], u[i])
  BY <1>1, SplitFoldExists
<1>4. splitLogicalLines(u) = f[n + 1]
  BY <1>1, <1>3, SplitFold
<1> DEFINE g == [i \in 0 .. n |-> f[i]]
<1>5. g \in [0 .. n -> Seq(Text)] /\ g[0] = <<>> /\ g[n] = f[n]
  BY <1>1, <1>3
<1>6. ASSUME NEW i \in 1 .. n PROVE g[i] = AddToLines(g[i - 1], t[i])
  <2>1. i \in 1 .. Len(u) /\ i \in 0 .. n /\ i - 1 \in 0 .. n
    BY <1>1
  <2>2. f[i] = AddToLines(f[i - 1], u[i])
    BY <1>3, <2>1, Zenon
  <2> QED
    BY <1>2, <2>1, <2>2
<1> HIDE DEF g
<1>7. splitLogicalLines(t) = g[n]
  BY <1>5, <1>6, SplitFold
<1>8. f[n + 1] = AddToLines(f[n], x)
  <2> DEFINE m == n + 1
  <2>1. m \in 1 .. Len(u) /\ m - 1 = n /\ u[m] = x
    BY <1>1
  <2> HIDE DEF m
  <2>2. f[m] = AddToLines(f[m - 1], u[m])
    BY <1>3, <2>1
  <2> QED
    BY <2>1, <2>2 DEF m
<1> QED
  BY <1>4, <1>5, <1>7, <1>8 DEF u

\* The line has its ending.
ClosedLine(l) == Last(l) \in Eols

\* An ending stands nowhere but at the end of a line.
IsLine(l) == l # <<>> /\ \A i \in 1 .. Len(l) - 1 : l[i] \notin Eols

\* Only the last line may lack its ending.
IsLines(ls) ==
  /\ ls \in Seq(Text)
  /\ \A k \in 1 .. Len(ls) : IsLine(ls[k]) /\ (k < Len(ls) => ClosedLine(ls[k]))

\* What was appended is last.
LEMMA AppendLast ==
  ASSUME NEW S, NEW s \in Seq(S), NEW x \in S
  PROVE  /\ Append(s, x) \in Seq(S) /\ Append(s, x) # <<>>
         /\ Last(Append(s, x)) = x /\ Front(Append(s, x)) = s
<1> DEFINE a == Append(s, x)
<1>1. /\ a \in Seq(S) /\ a # <<>> /\ Len(a) = Len(s) + 1
      /\ \A i \in 1 .. Len(s) : a[i] = s[i]
      /\ a[Len(s) + 1] = x
  BY AppendProperties
<1> HIDE DEF a
<1>2. Len(s) \in Nat
  OBVIOUS
<1>3. /\ Front(a) \in Seq(S) /\ Len(Front(a)) = Len(a) - 1 /\ Last(a) = a[Len(a)]
      /\ \A i \in 1 .. Len(a) - 1 : Front(a)[i] = a[i]
  BY <1>1, LastFront
<1>4. Len(Front(a)) = Len(s) /\ \A i \in 1 .. Len(s) : Front(a)[i] = s[i]
  BY <1>1, <1>2, <1>3
<1>5. Front(a) = s
  BY <1>3, <1>4, SeqEqual
<1> QED
  BY <1>1, <1>3, <1>5 DEF a

\* Appending and concatenating may be exchanged.
LEMMA AppendConcat ==
  ASSUME NEW S, NEW s \in Seq(S), NEW u \in Seq(S), NEW x \in S
  PROVE  s \o Append(u, x) = Append(s \o u, x)
<1>1. <<x>> \in Seq(S) /\ s \o u \in Seq(S)
  OBVIOUS
<1>2. Append(u, x) = u \o <<x>> /\ Append(s \o u, x) = (s \o u) \o <<x>>
  BY <1>1, AppendIsConcat
<1>3. Associates(s, u, <<x>>)
  BY <1>1, Associative, Zenon
<1> QED
  BY <1>2, <1>3, Zenon DEF Associates

\* The last element of a concatenation is that of its second part.
LEMMA LastOfConcat ==
  ASSUME NEW S, NEW s \in Seq(S), NEW u \in Seq(S), u # <<>>
  PROVE  /\ s \o u \in Seq(S) /\ s \o u # <<>>
         /\ Last(s \o u) = Last(u) /\ Front(s \o u) = s \o Front(u)
<1> DEFINE v == Front(u)
           x == Last(u)
<1>1. v \in Seq(S) /\ x \in S /\ u = Append(v, x)
  BY LastFront
<1> HIDE DEF v, x
<1>2. s \o v \in Seq(S)
  BY <1>1, ConcatProperties
<1>3. s \o Append(v, x) = Append(s \o v, x)
  BY <1>1, AppendConcat
<1>4. s \o u = Append(s \o v, x)
  BY <1>1, <1>3
<1>5. /\ Append(s \o v, x) \in Seq(S) /\ Append(s \o v, x) # <<>>
      /\ Last(Append(s \o v, x)) = x /\ Front(Append(s \o v, x)) = s \o v
  BY <1>1, <1>2, AppendLast
<1> QED
  BY <1>4, <1>5 DEF v, x

\* FlattenSeq of a concatenation is the concatenation of both.
LEMMA FlattenConcat ==
  ASSUME NEW S, NEW ss \in Seq(Seq(S)), NEW tt \in Seq(Seq(S))
  PROVE  FlattenSeq(ss \o tt) = FlattenSeq(ss) \o FlattenSeq(tt)
<1> DEFINE V == Seq(S)
           T == {u \in Seq(V) : FlattenSeq(ss \o u) = FlattenSeq(ss) \o FlattenSeq(u)}
<1>1. \A u \in Seq(V) : u \in T <=> FlattenSeq(ss \o u) = FlattenSeq(ss) \o FlattenSeq(u)
  OBVIOUS
<1>2. <<>> \in Seq(V) /\ ss \in Seq(V) /\ tt \in Seq(V)
  OBVIOUS
<1>3. \A u \in Seq(V) : FlattenSeq(u) \in Seq(S)
  BY FlattenType
<1> HIDE DEF T
<1>4. <<>> \in T
  <2>1. ss \o <<>> = ss
    BY <1>2, ConcatEmptySeq
  <2>2. FlattenSeq(ss) \o <<>> = FlattenSeq(ss)
    BY <1>2, <1>3, ConcatEmptySeq
  <2> QED
    BY <1>1, <1>2, <2>1, <2>2, FlattenEmpty
<1>5. ASSUME NEW u \in Seq(V), NEW x \in V, u \in T PROVE Append(u, x) \in T
  <2>1. Append(u, x) \in Seq(V) /\ ss \o u \in Seq(V)
    BY AppendProperties, ConcatProperties
  <2>2. ss \o Append(u, x) = Append(ss \o u, x)
    <3>1. ss \in Seq(V) /\ u \in Seq(V) /\ x \in V
      BY <1>2
    <3> HIDE DEF V
    <3> QED
      BY <3>1, AppendConcat, SMTT(30)
  <2>3. FlattenSeq(Append(ss \o u, x)) = FlattenSeq(ss \o u) \o x
    BY <2>1, FlattenAppend
  <2>4. FlattenSeq(Append(u, x)) = FlattenSeq(u) \o x
    BY FlattenAppend
  <2>5. (FlattenSeq(ss) \o FlattenSeq(u)) \o x = FlattenSeq(ss) \o (FlattenSeq(u) \o x)
    <3>1. FlattenSeq(ss) \in Seq(S) /\ FlattenSeq(u) \in Seq(S) /\ x \in Seq(S)
      BY <1>2, <1>3
    <3>2. Associates(FlattenSeq(ss), FlattenSeq(u), x)
      BY <3>1, Associative, Zenon
    <3> QED
      BY <3>2, Zenon DEF Associates
  <2>6. FlattenSeq(ss \o u) = FlattenSeq(ss) \o FlattenSeq(u)
    BY <1>1, <1>5
  <2> QED
    BY <1>1, <2>1, <2>2, <2>3, <2>4, <2>5, <2>6
<1>6. \A u \in Seq(V) : u \in T
  <2> HIDE DEF V
  <2> QED
    BY <1>4, <1>5, SeqInduction
<1> QED
  BY <1>1, <1>2, <1>6

\* One part is concatenated to itself.
LEMMA FlattenOne ==
  ASSUME NEW S, NEW s \in Seq(S)
  PROVE  FlattenSeq(<<s>>) = s
<1>1. <<s>> = Append(<<>>, s) /\ <<>> \in Seq(Seq(S))
  OBVIOUS
<1>2. FlattenSeq(Append(<<>>, s)) = <<>> \o s
  BY <1>1, FlattenAppend, FlattenEmpty
<1> QED
  BY <1>1, <1>2, ConcatEmptySeq

\* A token is added behind lines that are closed as if they were not there.
LEMMA AddToLinesConcat ==
  ASSUME NEW ls \in Seq(Text), NEW ms \in Seq(Text), NEW x \in Token,
         ms # <<>> \/ ls = <<>> \/ ClosedLine(Last(ls))
  PROVE  AddToLines(ls \o ms, x) = ls \o AddToLines(ms, x)
<1>0. <<x>> \in Text /\ <<>> \in Seq(Text)
  BY DEF Text
<1>1. CASE ms = <<>>
  <2>1. ls \o ms = ls
    BY <1>1, ConcatEmptySeq
  <2>2. AddToLines(ls, x) = Append(ls, <<x>>)
    BY <1>1 DEF AddToLines, ClosedLine
  <2>3. AddToLines(ms, x) = Append(ms, <<x>>)
    BY <1>1 DEF AddToLines
  <2>4. ls \o Append(ms, <<x>>) = Append(ls \o ms, <<x>>)
    BY <1>0, AppendConcat
  <2> QED
    BY <2>1, <2>2, <2>3, <2>4
<1>2. CASE ms # <<>>
  <2>1. /\ ls \o ms \in Seq(Text) /\ ls \o ms # <<>>
        /\ Last(ls \o ms) = Last(ms) /\ Front(ls \o ms) = ls \o Front(ms)
    BY <1>2, LastOfConcat
  <2>2. CASE Last(Last(ms)) \in Eols
    <3>1. AddToLines(ls \o ms, x) = Append(ls \o ms, <<x>>)
      BY <2>1, <2>2 DEF AddToLines
    <3>2. AddToLines(ms, x) = Append(ms, <<x>>)
      BY <2>2 DEF AddToLines
    <3>3. ls \o Append(ms, <<x>>) = Append(ls \o ms, <<x>>)
      BY <1>0, AppendConcat
    <3> QED
      BY <3>1, <3>2, <3>3
  <2>3. CASE Last(Last(ms)) \notin Eols
    <3> DEFINE l == Append(Last(ms), x)
               f == Front(ms)
    <3>1. l \in Text /\ f \in Seq(Text)
      BY <1>2, LastFront, AppendProperties DEF Text
    <3>2. AddToLines(ls \o ms, x) = Append(ls \o f, l)
      BY <2>1, <2>3 DEF AddToLines
    <3>3. AddToLines(ms, x) = Append(f, l)
      BY <1>2, <2>3 DEF AddToLines
    <3> HIDE DEF l, f
    <3>4. ls \o Append(f, l) = Append(ls \o f, l)
      BY <3>1, AppendConcat
    <3> QED
      BY <3>2, <3>3, <3>4
  <2> QED
    BY <2>2, <2>3
<1> QED
  BY <1>1, <1>2

\* The token that was added is the last.
LEMMA AddToLinesLast ==
  ASSUME NEW ls \in Seq(Text), NEW x \in Token
  PROVE  AddToLines(ls, x) # <<>> /\ Last(Last(AddToLines(ls, x))) = x
<1>0. <<x>> \in Text /\ Last(<<x>>) = x
  BY DEF Text, Last
<1>1. CASE ls = <<>> \/ Last(Last(ls)) \in Eols
  BY <1>0, <1>1, AppendLast DEF AddToLines
<1>2. CASE ~(ls = <<>> \/ Last(Last(ls)) \in Eols)
  <2> DEFINE l == Append(Last(ls), x)
             f == Front(ls)
  <2>1. Last(ls) \in Text /\ f \in Seq(Text)
    BY <1>2, LastFront
  <2>2. l \in Text /\ Last(l) = x
    BY <2>1, AppendLast DEF Text
  <2>3. AddToLines(ls, x) = Append(f, l)
    BY <1>2 DEF AddToLines
  <2> HIDE DEF l, f
  <2> QED
    BY <2>1, <2>2, <2>3, AppendLast
<1> QED
  BY <1>1, <1>2

\* The lines of a text end as the text does.
LEMMA SplitLast ==
  ASSUME NEW t \in Text, t # <<>>
  PROVE  /\ splitLogicalLines(t) # <<>>
         /\ Last(Last(splitLogicalLines(t))) = Last(t)
<1> DEFINE s == Front(t)
           x == Last(t)
<1>1. s \in Text /\ x \in Token /\ t = Append(s, x)
  BY LastFront DEF Text
<1> HIDE DEF s, x
<1>2. splitLogicalLines(Append(s, x)) = AddToLines(splitLogicalLines(s), x)
  BY <1>1, SplitAppend
<1>3. splitLogicalLines(s) \in Seq(Text)
  BY <1>1, SplitType
<1>4. /\ AddToLines(splitLogicalLines(s), x) # <<>>
      /\ Last(Last(AddToLines(splitLogicalLines(s), x))) = x
  BY <1>1, <1>3, AddToLinesLast
<1> QED
  BY <1>1, <1>2, <1>4 DEF x

\* Behind a closed text the lines begin anew: splitLogicalLines splits what
\* follows by itself.
LEMMA SplitConcat ==
  ASSUME NEW t \in Text, NEW u \in Text, t = <<>> \/ ClosedLine(t)
  PROVE  splitLogicalLines(t \o u) = splitLogicalLines(t) \o splitLogicalLines(u)
<1> DEFINE lines == splitLogicalLines(t)
           T == {v \in Text :
                   splitLogicalLines(t \o v) = lines \o splitLogicalLines(v)}
<1>1. \A v \in Text :
        v \in T <=> splitLogicalLines(t \o v) = lines \o splitLogicalLines(v)
  OBVIOUS
<1>2. lines \in Seq(Text) /\ (lines = <<>> \/ ClosedLine(Last(lines)))
  BY SplitType, SplitLast, SplitEmpty DEF ClosedLine
<1> HIDE DEF T, lines
<1>3. <<>> \in T
  <2>1. <<>> \in Text /\ t \o <<>> = t
    BY ConcatEmptySeq DEF Text
  <2>2. lines \o <<>> = lines
    BY <1>2, ConcatEmptySeq
  <2> QED
    BY <1>1, <2>1, <2>2, SplitEmpty DEF lines
<1>4. ASSUME NEW v \in Text, NEW x \in Token, v \in T PROVE Append(v, x) \in T
  <2>1. Append(v, x) \in Text /\ t \o v \in Text
    BY AppendProperties, ConcatProperties DEF Text
  <2>2. t \o Append(v, x) = Append(t \o v, x)
    BY AppendConcat DEF Text
  <2>3. splitLogicalLines(Append(t \o v, x)) = AddToLines(splitLogicalLines(t \o v), x)
    BY <2>1, SplitAppend
  <2>4. splitLogicalLines(Append(v, x)) = AddToLines(splitLogicalLines(v), x)
    BY SplitAppend
  <2>5. splitLogicalLines(v) \in Seq(Text)
    BY SplitType
  <2>6. AddToLines(lines \o splitLogicalLines(v), x)
          = lines \o AddToLines(splitLogicalLines(v), x)
    BY <1>2, <2>5, AddToLinesConcat
  <2>7. splitLogicalLines(t \o v) = lines \o splitLogicalLines(v)
    BY <1>1, <1>4
  <2> QED
    BY <1>1, <2>1, <2>2, <2>3, <2>4, <2>6, <2>7
<1>5. \A v \in Seq(Token) : v \in T
  BY <1>3, <1>4, SeqInduction DEF Text
<1> QED
  BY <1>1, <1>5 DEF Text, lines

\* A line without its ending takes any token.
LEMMA LineGrows ==
  ASSUME NEW l \in Text, NEW x \in Token, l = <<>> \/ (IsLine(l) /\ ~ClosedLine(l))
  PROVE  Append(l, x) \in Text /\ IsLine(Append(l, x)) /\ Last(Append(l, x)) = x
<1> DEFINE m == Append(l, x)
<1>1. /\ m \in Text /\ m # <<>> /\ Last(m) = x /\ Len(m) = Len(l) + 1
      /\ \A i \in 1 .. Len(l) : m[i] = l[i]
  BY AppendLast, AppendProperties DEF Text
<1>2. Len(l) \in Nat
  BY DEF Text
<1>3. \A i \in 1 .. Len(l) : l[i] \notin Eols
  <2>1. CASE l = <<>>
    BY <2>1
  <2>2. CASE l # <<>>
    <3>1. \A i \in 1 .. Len(l) : i \in 1 .. Len(l) - 1 \/ i = Len(l)
      BY <1>2
    <3> QED
      BY <2>2, <3>1 DEF IsLine, ClosedLine, Last
  <2> QED
    BY <2>1, <2>2
<1> HIDE DEF m
<1>4. \A i \in 1 .. Len(m) - 1 : m[i] \notin Eols
  BY <1>1, <1>2, <1>3
<1> QED
  BY <1>1, <1>4 DEF IsLine, m

\* A line may follow lines that are closed.
LEMMA LinesAppend ==
  ASSUME NEW ls \in Seq(Text), NEW l \in Text
  PROVE  IsLines(Append(ls, l)) <=>
           IsLines(ls) /\ IsLine(l) /\ (ls = <<>> \/ ClosedLine(Last(ls)))
<1> DEFINE ms == Append(ls, l)
<1>1. /\ ms \in Seq(Text) /\ Len(ms) = Len(ls) + 1
      /\ \A k \in 1 .. Len(ls) : ms[k] = ls[k]
      /\ ms[Len(ls) + 1] = l
  BY AppendProperties
<1>2. Len(ls) \in Nat /\ (ls = <<>> <=> Len(ls) = 0) /\ Last(ls) = ls[Len(ls)]
  BY DEF Last
<1> HIDE DEF ms
<1>3. ASSUME IsLines(ms)
      PROVE  IsLines(ls) /\ IsLine(l) /\ (ls = <<>> \/ ClosedLine(Last(ls)))
  <2>1. IsLine(l)
    BY <1>1, <1>2, <1>3 DEF IsLines
  <2>2. \A k \in 1 .. Len(ls) : IsLine(ls[k]) /\ ClosedLine(ls[k])
    <3>1. \A k \in 1 .. Len(ls) : k \in 1 .. Len(ms) /\ k < Len(ms)
      BY <1>1, <1>2
    <3> QED
      BY <1>1, <1>3, <3>1 DEF IsLines
  <2>3. ls = <<>> \/ ClosedLine(Last(ls))
    BY <1>2, <2>2
  <2> QED
    BY <2>1, <2>2, <2>3 DEF IsLines
<1>4. ASSUME IsLines(ls), IsLine(l), ls = <<>> \/ ClosedLine(Last(ls))
      PROVE  IsLines(ms)
  <2>1. ASSUME NEW k \in 1 .. Len(ms)
        PROVE  IsLine(ms[k]) /\ (k < Len(ms) => ClosedLine(ms[k]))
    <3>1. CASE k = Len(ls) + 1
      BY <1>1, <1>2, <1>4, <3>1
    <3>2. CASE k # Len(ls) + 1
      <4>1. k \in 1 .. Len(ls) /\ ms[k] = ls[k] /\ IsLine(ls[k])
        BY <1>1, <1>2, <1>4, <3>2 DEF IsLines
      <4>2. CASE k = Len(ls)
        BY <1>2, <1>4, <4>1, <4>2
      <4>3. CASE k # Len(ls)
        BY <1>2, <1>4, <4>1, <4>3 DEF IsLines
      <4> QED
        BY <4>2, <4>3
    <3> QED
      BY <3>1, <3>2
  <2> QED
    BY <1>1, <2>1 DEF IsLines
<1> QED
  BY <1>3, <1>4 DEF ms

\* A token added to lines leaves lines, and adds nothing but the token.
LEMMA AddToLinesIsLines ==
  ASSUME NEW ls \in Seq(Text), IsLines(ls), NEW x \in Token
  PROVE  /\ IsLines(AddToLines(ls, x))
         /\ FlattenSeq(AddToLines(ls, x)) = Append(FlattenSeq(ls), x)
<1>1. FlattenSeq(ls) \in Text /\ <<x>> \in Text
  BY FlattenType DEF Text
<1>2. CASE ls = <<>> \/ Last(Last(ls)) \in Eols
  <2>1. AddToLines(ls, x) = Append(ls, <<x>>)
    BY <1>2 DEF AddToLines
  <2>2. IsLine(<<x>>)
    BY DEF IsLine
  <2>3. FlattenSeq(Append(ls, <<x>>)) = FlattenSeq(ls) \o <<x>>
    BY <1>1, FlattenAppend DEF Text
  <2>4. FlattenSeq(ls) \o <<x>> = Append(FlattenSeq(ls), x)
    BY <1>1, AppendIsConcat DEF Text
  <2> QED
    BY <1>1, <1>2, <2>1, <2>2, <2>3, <2>4, LinesAppend DEF ClosedLine
<1>3. CASE ~(ls = <<>> \/ Last(Last(ls)) \in Eols)
  <2> DEFINE f == Front(ls)
             l == Last(ls)
  <2>1. f \in Seq(Text) /\ l \in Text /\ ls = Append(f, l)
    BY <1>3, LastFront
  <2>2. AddToLines(ls, x) = Append(f, Append(l, x))
    BY <1>3 DEF AddToLines
  <2>3. ~ClosedLine(l)
    BY <1>3 DEF ClosedLine
  <2> HIDE DEF f, l
  <2>4. IsLines(f) /\ IsLine(l) /\ (f = <<>> \/ ClosedLine(Last(f)))
    BY <2>1, LinesAppend
  <2>5. Append(l, x) \in Text /\ IsLine(Append(l, x))
    BY <2>1, <2>3, <2>4, LineGrows
  <2>6. FlattenSeq(f) \in Text
    BY <2>1, FlattenType DEF Text
  <2>7. FlattenSeq(Append(f, Append(l, x))) = FlattenSeq(f) \o Append(l, x)
    BY <2>1, <2>5, FlattenAppend DEF Text
  <2>8. FlattenSeq(f) \o Append(l, x) = Append(FlattenSeq(f) \o l, x)
    BY <2>1, <2>6, AppendConcat DEF Text
  <2>9. FlattenSeq(ls) = FlattenSeq(f) \o l
    BY <2>1, FlattenAppend DEF Text
  <2> QED
    BY <2>1, <2>2, <2>4, <2>5, <2>7, <2>8, <2>9, LinesAppend
<1> QED
  BY <1>2, <1>3

\* splitLogicalLines splits a text into lines that together are the text.
LEMMA SplitIsLines ==
  ASSUME NEW t \in Text
  PROVE  /\ splitLogicalLines(t) \in Seq(Text)
         /\ IsLines(splitLogicalLines(t))
         /\ FlattenSeq(splitLogicalLines(t)) = t
<1> DEFINE P(u) == IsLines(splitLogicalLines(u)) /\ FlattenSeq(splitLogicalLines(u)) = u
           T == {u \in Text : P(u)}
<1>1. <<>> \in T
  <2>1. <<>> \in Text /\ IsLines(<<>>)
    BY DEF IsLines, Text
  <2> QED
    BY <2>1, SplitEmpty, FlattenEmpty
<1>2. ASSUME NEW u \in Text, NEW x \in Token, u \in T PROVE Append(u, x) \in T
  <2>1. splitLogicalLines(u) \in Seq(Text) /\ P(u)
    BY <1>2, SplitType
  <2>2. splitLogicalLines(Append(u, x)) = AddToLines(splitLogicalLines(u), x)
    BY SplitAppend
  <2>3. Append(u, x) \in Text
    BY AppendProperties DEF Text
  <2> QED
    BY <2>1, <2>2, <2>3, AddToLinesIsLines
<1>3. \A u \in Seq(Token) : u \in T
  <2> HIDE DEF T
  <2> QED
    BY <1>1, <1>2, SeqInduction DEF Text
<1> QED
  BY <1>3, SplitType DEF Text

\* A line is its only line.
LEMMA SplitOneLine ==
  ASSUME NEW l \in Text, IsLine(l)
  PROVE  splitLogicalLines(l) = <<l>>
<1> DEFINE T == {u \in Text : IsLine(u) => splitLogicalLines(u) = <<u>>}
<1>1. \A u \in Text : u \in T <=> (IsLine(u) => splitLogicalLines(u) = <<u>>)
  OBVIOUS
<1> HIDE DEF T
<1>2. <<>> \in T
  <2>1. <<>> \in Text /\ ~IsLine(<<>>)
    BY DEF IsLine, Text
  <2> QED
    BY <1>1, <2>1
<1>3. ASSUME NEW u \in Text, NEW x \in Token, u \in T PROVE Append(u, x) \in T
  <2> DEFINE m == Append(u, x)
  <2>1. /\ m \in Text /\ Len(m) = Len(u) + 1
        /\ \A i \in 1 .. Len(u) : m[i] = u[i]
    BY AppendProperties DEF Text
  <2>2. Len(u) \in Nat
    BY DEF Text
  <2>3. splitLogicalLines(m) = AddToLines(splitLogicalLines(u), x)
    BY SplitAppend
  <2>4. CASE u = <<>>
    <3>1. AddToLines(<<>>, x) = Append(<<>>, <<x>>) /\ m = <<x>>
      BY <2>4 DEF AddToLines
    <3>2. Append(<<>>, <<x>>) = <<m>>
      BY <3>1
    <3> QED
      BY <1>1, <2>1, <2>3, <2>4, <3>1, <3>2, SplitEmpty
  <2>5. ASSUME u # <<>>, IsLine(m) PROVE splitLogicalLines(m) = <<m>>
    <3> HIDE DEF m
    <3>1. \A i \in 1 .. Len(u) : u[i] \notin Eols
      BY <2>1, <2>2, <2>5 DEF IsLine
    <3>2. IsLine(u)
      BY <2>2, <2>5, <3>1 DEF IsLine
    <3>3. splitLogicalLines(u) = <<u>>
      BY <1>1, <1>3, <3>2
    <3>4. Last(u) \notin Eols
      BY <2>2, <2>5, <3>1, EmptySeq DEF Last, Text
    <3>5. Last(<<u>>) = u /\ Front(<<u>>) = <<>>
      BY DEF Last, Front
    <3>6. AddToLines(<<u>>, x) = Append(<<>>, m)
      BY <3>4, <3>5 DEF AddToLines, m
    <3> QED
      BY <2>3, <3>3, <3>6
  <2> QED
    BY <1>1, <2>1, <2>4, <2>5
<1>4. \A u \in Seq(Token) : u \in T
  BY <1>2, <1>3, SeqInduction DEF Text
<1> QED
  BY <1>1, <1>4 DEF Text

\* Splitting undoes joining: lines that are joined are found again.
LEMMA SplitOfLines ==
  ASSUME NEW ls, IsLines(ls)
  PROVE  /\ FlattenSeq(ls) \in Text
         /\ splitLogicalLines(FlattenSeq(ls)) = ls
         /\ ls # <<>> => FlattenSeq(ls) # <<>> /\ Last(FlattenSeq(ls)) = Last(Last(ls))
<1> DEFINE T == {ms \in Seq(Text) :
                   IsLines(ms) => splitLogicalLines(FlattenSeq(ms)) = ms}
<1>0. ls \in Seq(Text)
  BY DEF IsLines
<1>1. \A ms \in Seq(Text) :
        ms \in T <=> (IsLines(ms) => splitLogicalLines(FlattenSeq(ms)) = ms)
  OBVIOUS
<1>2. \A ms \in Seq(Text) : FlattenSeq(ms) \in Text
  BY FlattenType DEF Text
<1>3. \A ms \in Seq(Text), l \in Text :
        FlattenSeq(Append(ms, l)) = FlattenSeq(ms) \o l
  BY FlattenAppend DEF Text
<1> HIDE DEF T
<1>4. \A ms \in Seq(Text) :
        ms # <<>> /\ IsLines(ms) =>
          FlattenSeq(ms) # <<>> /\ Last(FlattenSeq(ms)) = Last(Last(ms))
  <2>1. SUFFICES ASSUME NEW ms \in Seq(Text), ms # <<>>, IsLines(ms)
                 PROVE  FlattenSeq(ms) # <<>> /\ Last(FlattenSeq(ms)) = Last(Last(ms))
    OBVIOUS
  <2> DEFINE f == Front(ms)
             l == Last(ms)
  <2>2. f \in Seq(Text) /\ l \in Text /\ ms = Append(f, l)
    BY <2>1, LastFront
  <2> HIDE DEF f
  <2>3. l # <<>>
    <3> HIDE DEF l
    <3> QED
      BY <2>1, <2>2, LinesAppend DEF IsLine
  <2>4. FlattenSeq(f) \o l # <<>> /\ Last(FlattenSeq(f) \o l) = Last(l)
    BY <1>2, <2>2, <2>3, LastOfConcat DEF Text
  <2> HIDE DEF l
  <2>5. FlattenSeq(ms) = FlattenSeq(f) \o l
    BY <1>3, <2>2
  <2> QED
    BY <2>4, <2>5 DEF l
<1>5. <<>> \in T
  <2>1. <<>> \in Seq(Text) /\ splitLogicalLines(FlattenSeq(<<>>)) = <<>>
    BY SplitEmpty, FlattenEmpty
  <2> QED
    BY <1>1, <2>1
<1>6. ASSUME NEW ms \in Seq(Text), NEW l \in Text, ms \in T PROVE Append(ms, l) \in T
  <2>1. SUFFICES ASSUME IsLines(Append(ms, l))
                 PROVE  splitLogicalLines(FlattenSeq(Append(ms, l))) = Append(ms, l)
    BY <1>1, AppendProperties
  <2>2. IsLines(ms) /\ IsLine(l) /\ (ms = <<>> \/ ClosedLine(Last(ms)))
    BY <2>1, LinesAppend
  <2>3. FlattenSeq(ms) = <<>> \/ ClosedLine(FlattenSeq(ms))
    BY <1>4, <2>2, FlattenEmpty DEF ClosedLine
  <2>4. splitLogicalLines(FlattenSeq(ms) \o l)
          = splitLogicalLines(FlattenSeq(ms)) \o splitLogicalLines(l)
    BY <1>2, <2>3, SplitConcat
  <2>5. splitLogicalLines(FlattenSeq(ms)) = ms /\ splitLogicalLines(l) = <<l>>
    BY <1>1, <1>6, <2>2, SplitOneLine
  <2>6. ms \o <<l>> = Append(ms, l)
    BY AppendIsConcat
  <2> QED
    BY <1>3, <2>4, <2>5, <2>6
<1>7. \A ms \in Seq(Text) : ms \in T
  BY <1>5, <1>6, SeqInduction
<1> QED
  BY <1>0, <1>1, <1>2, <1>4, <1>7

-----------------------------------------------------------------------------
\* Parts of sequences, lines and texts.

\* Min is the least element.
LEMMA MinOf ==
  ASSUME NEW T \in SUBSET Nat, T # {}
  PROVE  Min(T) \in T /\ \A m \in T : Min(T) <= m
BY NatHasMin DEF Min

\* Max is the greatest element.
LEMMA MaxOf ==
  ASSUME NEW n \in Nat, NEW T \in SUBSET (0 .. n), T # {}
  PROVE  Max(T) \in T /\ \A m \in T : m <= Max(T)
<1> DEFINE U == {k \in 0 .. n : n - k \in T}
<1>1. U \in SUBSET Nat
  OBVIOUS
<1>2. U # {}
  <2>1. PICK m \in T : TRUE
    OBVIOUS
  <2>2. n - m \in 0 .. n /\ n - (n - m) = m
    OBVIOUS
  <2> QED
    BY <2>1, <2>2
<1>3. PICK k \in U : \A j \in U : k <= j
  <2> HIDE DEF U
  <2> QED
    BY <1>1, <1>2, NatHasMin
<1>4. ASSUME NEW m \in T PROVE m <= n - k
  <2>1. n - m \in 0 .. n /\ n - (n - m) = m
    OBVIOUS
  <2>2. n - m \in U
    BY <2>1
  <2>3. k \in 0 .. n
    OBVIOUS
  <2> HIDE DEF U
  <2>4. k <= n - m
    BY <1>3, <2>2
  <2> QED
    BY <2>1, <2>3, <2>4
<1>5. n - k \in T
  BY <1>3
<1>6. \E x \in T : \A y \in T : x >= y
  BY <1>4, <1>5
<1>7. Max(T) \in T /\ \A y \in T : Max(T) >= y
  BY <1>6 DEF Max
<1> QED
  BY <1>7

\* What SubSeq cuts out of a sequence.
LEMMA CutOf ==
  ASSUME NEW S, NEW s \in Seq(S), NEW m \in 1 .. Len(s) + 1, NEW n \in 0 .. Len(s),
         m <= n + 1
  PROVE  /\ SubSeq(s, m, n) \in Seq(S)
         /\ Len(SubSeq(s, m, n)) = n + 1 - m
         /\ \A i \in 1 .. n + 1 - m : SubSeq(s, m, n)[i] = s[m + i - 1]
<1>1. Len(s) \in Nat
  OBVIOUS
<1>2. m \in Int /\ n \in Int
  BY <1>1
<1>3. \A i \in m .. n : s[i] \in S
  BY <1>1
<1>4. /\ SubSeq(s, m, n) \in Seq(S)
      /\ Len(SubSeq(s, m, n)) = IF m <= n THEN n - m + 1 ELSE 0
      /\ \A i \in 1 .. n - m + 1 : SubSeq(s, m, n)[i] = s[m + i - 1]
  BY <1>2, <1>3, SubSeqProperties
<1>5. n - m + 1 = n + 1 - m /\ (IF m <= n THEN n - m + 1 ELSE 0) = n + 1 - m
  BY <1>1
<1> QED
  BY <1>4, <1>5

\* What DropFirst leaves of a sequence.
LEMMA DropFirstOf ==
  ASSUME NEW S, NEW s \in Seq(S), NEW n \in 0 .. Len(s)
  PROVE  /\ DropFirst(s, n) \in Seq(S)
         /\ Len(DropFirst(s, n)) = Len(s) - n
         /\ \A i \in 1 .. Len(s) - n : DropFirst(s, n)[i] = s[n + i]
         /\ s = SubSeq(s, 1, n) \o DropFirst(s, n)
<1>1. Len(s) \in Nat
  OBVIOUS
<1> DEFINE m == n + 1
           l == Len(s)
<1>2. m \in 1 .. l + 1 /\ l \in 0 .. l /\ m <= l + 1
  BY <1>1
<1>3. /\ SubSeq(s, m, l) \in Seq(S)
      /\ Len(SubSeq(s, m, l)) = l + 1 - m
      /\ \A i \in 1 .. l + 1 - m : SubSeq(s, m, l)[i] = s[m + i - 1]
  <2> HIDE DEF m
  <2> QED
    BY <1>2, CutOf
<1>4. SubSeq(s, 1, n) \o SubSeq(s, n + 1, l) = s
  <2>1. 1 \in 1 .. l + 1 /\ n \in 1 - 1 .. l /\ l \in n .. l
    BY <1>1
  <2>2. SubSeq(s, 1, n) \o SubSeq(s, n + 1, l) = SubSeq(s, 1, l)
    BY <2>1, ConcatAdjacentSubSeq
  <2> QED
    BY <2>2, SubSeqFull
<1> DEFINE d == DropFirst(s, n)
<1>5. d = SubSeq(s, m, l) /\ l + 1 - m = l - n
  BY <1>1 DEF DropFirst
<1>6. \A i \in 1 .. l - n : m + i - 1 = n + i
  BY <1>1
<1>7. d \in Seq(S) /\ Len(d) = l - n /\ \A i \in 1 .. l - n : d[i] = s[n + i]
  <2> HIDE DEF d, m
  <2> QED
    BY <1>3, <1>5, <1>6
<1>8. s = SubSeq(s, 1, n) \o d
  BY <1>4 DEF DropFirst
<1> QED
  BY <1>7, <1>8

\* What Spliced makes of a sequence, and where the new part stands in it.
LEMMA SplicedType ==
  ASSUME NEW S, NEW s \in Seq(S), NEW r \in Seq(S), NEW i \in 1 .. Len(s) + 1,
         NEW n \in 0 .. Len(s) + 1 - i
  PROVE  /\ SubSeq(s, 1, i - 1) \in Seq(S) /\ Len(SubSeq(s, 1, i - 1)) = i - 1
         /\ DropFirst(s, i + n - 1) \in Seq(S)
         /\ Spliced(s, i, n, r) \in Seq(S)
         /\ Len(Spliced(s, i, n, r)) = Len(s) - n + Len(r)
         /\ SubSeq(Spliced(s, i, n, r), i, i + Len(r) - 1) = r
<1> DEFINE j == i - 1
           k == i + n - 1
<1>0. Len(s) \in Nat /\ Len(r) \in Nat
  OBVIOUS
<1>1. 1 \in 1 .. Len(s) + 1 /\ j \in 0 .. Len(s) /\ 1 <= j + 1 /\ k \in 0 .. Len(s)
  BY <1>0
<1>2. SubSeq(s, 1, j) \in Seq(S) /\ Len(SubSeq(s, 1, j)) = j
  <2> HIDE DEF j
  <2>1. SubSeq(s, 1, j) \in Seq(S) /\ Len(SubSeq(s, 1, j)) = j + 1 - 1
    BY <1>1, CutOf
  <2> QED
    BY <1>1, <2>1
<1>3. DropFirst(s, k) \in Seq(S) /\ Len(DropFirst(s, k)) = Len(s) - k
  <2> HIDE DEF k
  <2> QED
    BY <1>1, DropFirstOf
<1> DEFINE p == SubSeq(s, 1, j)
           q == DropFirst(s, k)
           all == p \o r \o q
<1>4. all = Spliced(s, i, n, r)
  BY DEF Spliced
<1>5. p \in Seq(S) /\ q \in Seq(S) /\ Len(p) = j /\ Len(q) = Len(s) - k
  BY <1>2, <1>3
<1> HIDE DEF p, q
<1>6. p \o r \in Seq(S) /\ Len(p \o r) = j + Len(r)
  <2>1. p \o r \in Seq(S) /\ Len(p \o r) = Len(p) + Len(r)
    BY <1>5, ConcatProperties
  <2> QED
    BY <1>5, <2>1
<1>7. /\ all \in Seq(S) /\ Len(all) = j + Len(r) + Len(q)
      /\ \A x \in 1 .. j + Len(r) : all[x] = (p \o r)[x]
  <2> DEFINE pr == p \o r
  <2>1. pr \in Seq(S) /\ Len(pr) = j + Len(r) /\ all = pr \o q
    BY <1>6
  <2>2. 0 <= Len(q) /\ Len(q) \in Int /\ j + Len(r) \in Int
    BY <1>0, <1>1, <1>5
  <2> HIDE DEF pr, all, j
  <2>0. pr \in Seq(S) /\ q \in Seq(S)
    BY <1>5, <2>1
  <2>3. /\ pr \o q \in Seq(S) /\ Len(pr \o q) = Len(pr) + Len(q)
        /\ \A x \in 1 .. Len(pr) + Len(q) :
             (pr \o q)[x] = IF x <= Len(pr) THEN pr[x] ELSE q[x - Len(pr)]
    BY <2>0, ConcatProperties
  <2>4. \A x \in 1 .. Len(pr) : x \in 1 .. Len(pr) + Len(q) /\ x <= Len(pr)
    BY <2>1, <2>2
  <2>5. \A x \in 1 .. Len(pr) : (pr \o q)[x] = pr[x]
    BY <2>3, <2>4
  <2> QED
    BY <2>1, <2>3, <2>5 DEF pr
<1>8. \A x \in 1 .. Len(r) : all[j + x] = r[x]
  <2> SUFFICES ASSUME NEW x \in 1 .. Len(r) PROVE all[j + x] = r[x]
    OBVIOUS
  <2> DEFINE y == j + x
  <2>1. y \in 1 .. j + Len(r) /\ ~(y <= j) /\ y - j = x
    BY <1>0, <1>1
  <2> HIDE DEF y, all, j
  <2>2. (p \o r)[y] = r[x]
    BY <1>5, <2>1, ConcatProperties
  <2> QED
    BY <1>7, <2>1, <2>2 DEF y
<1>9. SubSeq(all, i, i + Len(r) - 1) = r
  <2> DEFINE m == i + Len(r) - 1
  <2>1. i \in 1 .. Len(all) + 1 /\ m \in 0 .. Len(all) /\ i <= m + 1
    BY <1>0, <1>1, <1>5, <1>7
  <2> HIDE DEF all, m
  <2>2. /\ SubSeq(all, i, m) \in Seq(S)
        /\ Len(SubSeq(all, i, m)) = m + 1 - i
        /\ \A x \in 1 .. m + 1 - i : SubSeq(all, i, m)[x] = all[i + x - 1]
    BY <1>7, <2>1, CutOf
  <2>3. m + 1 - i = Len(r)
    BY <1>0 DEF m
  <2>4. \A x \in 1 .. Len(r) : SubSeq(all, i, m)[x] = r[x]
    <3>1. \A x \in 1 .. Len(r) : i + x - 1 = j + x
      BY <1>0
    <3> QED
      BY <1>8, <2>2, <2>3, <3>1
  <2>5. SubSeq(all, i, m) = r
    BY <2>2, <2>3, <2>4, SeqEqual
  <2> QED
    BY <2>5 DEF m
<1>10. Len(all) = Len(s) - n + Len(r)
  BY <1>0, <1>1, <1>5, <1>7
<1> HIDE DEF all, j, k
<1> QED
  BY <1>2, <1>3, <1>4, <1>7, <1>9, <1>10 DEF j, k

\* A line is its text, without endings, and its ending.
LEMMA LineParts ==
  ASSUME NEW l \in Text, IsLine(l)
  PROVE  /\ TextOf(l) \in Text /\ EolOf(l) \in Text
         /\ l = TextOf(l) \o EolOf(l)
         /\ \A i \in 1 .. Len(TextOf(l)) : TextOf(l)[i] \notin Eols
         /\ EolOf(l) = IF ClosedLine(l) THEN <<Last(l)>> ELSE <<>>
<1>1. /\ Len(l) \in Nat \ {0} /\ Last(l) = l[Len(l)] /\ Last(l) \in Token
      /\ Front(l) \in Text /\ Len(Front(l)) = Len(l) - 1
      /\ \A i \in 1 .. Len(l) - 1 : Front(l)[i] = l[i]
  BY LastFront DEF IsLine, Text
<1>2. Front(l) \o <<Last(l)>> = l
  <2>1. Append(Front(l), Last(l)) = l
    BY LastFront DEF IsLine, Text
  <2>2. Append(Front(l), Last(l)) = Front(l) \o <<Last(l)>>
    BY <1>1, AppendIsConcat DEF Text
  <2> QED
    BY <2>1, <2>2
<1>3. \A i \in 1 .. Len(l) - 1 : l[i] \notin Eols
  BY DEF IsLine
<1>4. Has(l, Eols) <=> ClosedLine(l)
  <2>1. DOMAIN l = 1 .. Len(l)
    BY DEF Text
  <2>2. \A i \in 1 .. Len(l) : i \in 1 .. Len(l) - 1 \/ i = Len(l)
    BY <1>1
  <2>3. Len(l) \in 1 .. Len(l)
    BY <1>1
  <2> QED
    BY <1>1, <1>3, <2>1, <2>2, <2>3 DEF Has, ClosedLine
<1>5. CASE ClosedLine(l)
  <2>1. TextOf(l) = Front(l) /\ EolOf(l) = <<Last(l)>>
    BY <1>4, <1>5 DEF TextOf, EolOf
  <2>2. <<Last(l)>> \in Text
    BY <1>1 DEF Text
  <2> QED
    BY <1>1, <1>2, <1>3, <1>5, <2>1, <2>2
<1>6. CASE ~ClosedLine(l)
  <2>1. TextOf(l) = l /\ EolOf(l) = <<>>
    BY <1>4, <1>6 DEF TextOf, EolOf
  <2>2. <<>> \in Text
    BY DEF Text
  <2>3. l = l \o <<>>
    BY ConcatEmptySeq DEF Text
  <2>4. \A i \in 1 .. Len(l) : l[i] \notin Eols
    <3>1. \A i \in 1 .. Len(l) : i \in 1 .. Len(l) - 1 \/ i = Len(l)
      BY <1>1
    <3> QED
      BY <1>1, <1>3, <1>6, <3>1 DEF ClosedLine
  <2> QED
    BY <1>6, <2>1, <2>2, <2>3, <2>4
<1> QED
  BY <1>5, <1>6

\* Indentation counts the leading spaces and stops at nothing else.
LEMMA IndentationOf ==
  ASSUME NEW l \in Text
  PROVE  /\ Indentation(l) \in 0 .. Len(l)
         /\ \A i \in 1 .. Indentation(l) : l[i] = "sp"
         /\ \A k \in 0 .. Len(l) :
              (\A i \in 1 .. k : l[i] = "sp") => k <= Indentation(l)
<1> DEFINE body == {i \in DOMAIN l : l[i] # "sp"}
           n == Len(l)
<1>1. n \in Nat /\ DOMAIN l = 1 .. n
  BY DEF Text
<1>2. \A i \in 1 .. n : i \in body <=> l[i] # "sp"
  BY <1>1
<1>3. body \in SUBSET (1 .. n)
  BY <1>1
<1>4. Indentation(l) = IF body = {} THEN n ELSE Min(body) - 1
  BY DEF Indentation
<1> HIDE DEF body, n
<1>5. CASE body = {}
  BY <1>1, <1>2, <1>4, <1>5 DEF n
<1>6. CASE body # {}
  <2>1. body \in SUBSET Nat
    BY <1>1, <1>3
  <2> DEFINE m == Min(body)
  <2>2. m \in body /\ \A i \in body : m <= i
    BY <1>6, <2>1, MinOf
  <2> HIDE DEF m
  <2>3. m \in 1 .. n /\ m \in Nat
    BY <1>1, <1>3, <2>2
  <2>4. Indentation(l) = m - 1 /\ m - 1 \in 0 .. n
    BY <1>1, <1>4, <1>6, <2>3 DEF m
  <2>5. ASSUME NEW i \in 1 .. m - 1 PROVE l[i] = "sp"
    <3>1. i \in 1 .. n /\ ~(m <= i)
      BY <1>1, <2>3
    <3> QED
      BY <1>2, <2>2, <3>1
  <2>6. ASSUME NEW k \in 0 .. n, \A i \in 1 .. k : l[i] = "sp" PROVE k <= m - 1
    <3>1. l[m] # "sp"
      BY <1>2, <2>2, <2>3
    <3>2. ~(m <= k)
      BY <1>1, <2>3, <2>6, <3>1
    <3> QED
      BY <1>1, <2>3, <3>2
  <2> QED
    BY <2>4, <2>5, <2>6 DEF n
<1> QED
  BY <1>5, <1>6

\* TrimOf takes tokens of S from both ends and nothing else.
LEMMA TrimParts ==
  ASSUME NEW t \in Text, NEW S
  PROVE  \E p, q \in Text :
           /\ TrimOf(t, S) \in Text
           /\ t = p \o (TrimOf(t, S) \o q)
           /\ \A i \in 1 .. Len(p) : p[i] \in S
           /\ \A i \in 1 .. Len(q) : q[i] \in S
<1> DEFINE kept == {i \in DOMAIN t : t[i] \notin S}
           n == Len(t)
<1>1. n \in Nat /\ DOMAIN t = 1 .. n
  BY DEF Text
<1>2. \A i \in 1 .. n : i \in kept <=> t[i] \notin S
  BY <1>1
<1>3. kept \in SUBSET (1 .. n)
  BY <1>1
<1>4. TrimOf(t, S) = IF kept = {} THEN <<>> ELSE SubSeq(t, Min(kept), Max(kept))
  BY DEF TrimOf
<1> HIDE DEF kept, n
<1>5. CASE kept = {}
  <2>1. <<>> \in Text /\ <<>> \o <<>> = <<>> /\ t = t \o <<>>
    BY ConcatEmptySeq DEF Text
  <2>2. TrimOf(t, S) = <<>>
    BY <1>4, <1>5
  <2>3. \A i \in 1 .. Len(t) : t[i] \in S
    BY <1>2, <1>5 DEF n
  <2>4. Len(<<>>) = 0
    OBVIOUS
  <2>5. t = t \o (TrimOf(t, S) \o <<>>)
    BY <2>1, <2>2
  <2> DEFINE e == <<>>
  <2>6. \A i \in 1 .. Len(e) : e[i] \in S
    OBVIOUS
  <2> QED
    BY <2>1, <2>2, <2>3, <2>5, <2>6
<1>6. CASE kept # {}
  <2> DEFINE a == Min(kept)
             b == Max(kept)
  <2>1. a \in kept /\ \A i \in kept : a <= i
    <3>1. kept \in SUBSET Nat
      BY <1>1, <1>3
    <3> QED
      BY <1>6, <3>1, MinOf
  <2>2. b \in kept /\ \A i \in kept : i <= b
    <3>1. kept \in SUBSET (0 .. n)
      BY <1>1, <1>3
    <3> QED
      BY <1>1, <1>6, <3>1, MaxOf
  <2> HIDE DEF a, b
  <2>3. a \in 1 .. n /\ b \in 1 .. n /\ a <= b
    BY <1>3, <2>1, <2>2
  <2> DEFINE p == SubSeq(t, 1, a - 1)
             u == SubSeq(t, a, b)
             q == SubSeq(t, b + 1, n)
             c == a - 1
             d == b + 1
  <2>4. 1 \in 1 .. n + 1 /\ c \in 0 .. n /\ 1 <= c + 1 /\ c + 1 - 1 = c
    BY <1>1, <2>3
  <2>5. d \in 1 .. n + 1 /\ n \in 0 .. n /\ d <= n + 1
    BY <1>1, <2>3
  <2>6. a \in 1 .. n + 1 /\ b \in 0 .. n /\ a <= b + 1
    BY <1>1, <2>3
  <2>7. p \in Text /\ Len(p) = c /\ \A i \in 1 .. c : p[i] = t[1 + i - 1]
    <3> HIDE DEF c
    <3>1. /\ SubSeq(t, 1, c) \in Seq(Token) /\ Len(SubSeq(t, 1, c)) = c + 1 - 1
          /\ \A i \in 1 .. c + 1 - 1 : SubSeq(t, 1, c)[i] = t[1 + i - 1]
      BY <2>4, CutOf DEF n, Text
    <3> QED
      BY <2>4, <3>1 DEF Text, c
  <2>8. q \in Text /\ Len(q) = n + 1 - d /\ \A i \in 1 .. n + 1 - d : q[i] = t[d + i - 1]
    <3> HIDE DEF d
    <3>1. /\ SubSeq(t, d, n) \in Seq(Token) /\ Len(SubSeq(t, d, n)) = n + 1 - d
          /\ \A i \in 1 .. n + 1 - d : SubSeq(t, d, n)[i] = t[d + i - 1]
      BY <2>5, CutOf DEF n, Text
    <3> QED
      BY <3>1 DEF Text, d
  <2>9. u \in Text
    BY <2>6, CutOf DEF n, Text
  <2>10. u \o q = SubSeq(t, a, n)
    <3>1. a \in 1 .. Len(t) + 1 /\ b \in a - 1 .. Len(t) /\ n \in b .. Len(t)
      BY <1>1, <2>3 DEF n
    <3> QED
      BY <3>1, ConcatAdjacentSubSeq DEF Text
  <2>11. p \o SubSeq(t, a, n) = t
    <3>1. 1 \in 1 .. n + 1 /\ c \in 1 - 1 .. n /\ n \in c .. n /\ c + 1 = a
      BY <1>1, <2>3
    <3> HIDE DEF c
    <3>2. SubSeq(t, 1, c) \o SubSeq(t, c + 1, n) = SubSeq(t, 1, n)
      BY <3>1, ConcatAdjacentSubSeq DEF Text, n
    <3>3. SubSeq(t, 1, n) = t
      BY SubSeqFull DEF Text, n
    <3> QED
      BY <3>1, <3>2, <3>3 DEF c
  <2>12. ASSUME NEW i \in 1 .. c PROVE p[i] \in S
    <3>1. 1 + i - 1 = i /\ i \in 1 .. n /\ ~(a <= i)
      BY <1>1, <2>3
    <3>2. i \notin kept
      BY <2>1, <3>1
    <3>3. p[i] = t[i]
      BY <2>7, <3>1
    <3> QED
      BY <1>2, <3>1, <3>2, <3>3
  <2>13. ASSUME NEW i \in 1 .. n + 1 - d PROVE q[i] \in S
    <3> DEFINE j == d + i - 1
    <3>1. j \in 1 .. n /\ ~(j <= b)
      BY <1>1, <2>3
    <3>2. q[i] = t[j]
      BY <2>8
    <3> HIDE DEF j
    <3>3. j \notin kept
      BY <2>2, <3>1
    <3> QED
      BY <1>2, <3>1, <3>2, <3>3
  <2>14. TrimOf(t, S) = u
    BY <1>4, <1>6 DEF a, b
  <2> HIDE DEF p, q, u, c, d
  <2> QED
    BY <2>7, <2>8, <2>9, <2>10, <2>11, <2>12, <2>13, <2>14
<1> QED
  BY <1>5, <1>6

-----------------------------------------------------------------------------
\* Words.

\* The words of t, each at its place.
SaidBy(t) == [i \in DOMAIN t |-> IF t[i] \in Words THEN <<t[i]>> ELSE <<>>]

\* WordsOf joins them.
LEMMA SaidByOf ==
  ASSUME NEW t \in Text
  PROVE  /\ SaidBy(t) \in Seq(Seq(Words)) /\ Len(SaidBy(t)) = Len(t)
         /\ \A i \in 1 .. Len(t) :
              SaidBy(t)[i] = IF t[i] \in Words THEN <<t[i]>> ELSE <<>>
         /\ WordsOf(t) = FlattenSeq(SaidBy(t))
         /\ WordsOf(t) \in Seq(Words)
<1> DEFINE w(i) == IF t[i] \in Words THEN <<t[i]>> ELSE <<>>
<1>1. DOMAIN t = 1 .. Len(t) /\ Len(t) \in Nat
  BY DEF Text
<1>2. \A i \in 1 .. Len(t) : w(i) \in Seq(Words)
  OBVIOUS
<1>3. SaidBy(t) = [i \in 1 .. Len(t) |-> w(i)]
  BY <1>1 DEF SaidBy
<1>4. \A i \in 1 .. Len(t) : SaidBy(t)[i] = w(i)
  BY <1>3
<1>5. SaidBy(t) \in Seq(Seq(Words)) /\ Len(SaidBy(t)) = Len(t)
  <2> HIDE DEF w
  <2> QED
    BY <1>1, <1>2, <1>3
<1>6. WordsOf(t) = FlattenSeq(SaidBy(t))
  BY DEF WordsOf, SaidBy
<1>7. FlattenSeq(SaidBy(t)) \in Seq(Words)
  BY <1>5, FlattenType
<1> QED
  BY <1>4, <1>5, <1>6, <1>7

\* The words of a concatenation are those of its parts, one after the other.
LEMMA WordsConcat ==
  ASSUME NEW t \in Text, NEW u \in Text
  PROVE  WordsOf(t \o u) = WordsOf(t) \o WordsOf(u)
<1> DEFINE tu == t \o u
           st == SaidBy(t)
           su == SaidBy(u)
           stu == SaidBy(tu)
<1>1. /\ tu \in Text /\ Len(tu) = Len(t) + Len(u)
      /\ \A i \in 1 .. Len(t) + Len(u) :
           tu[i] = IF i <= Len(t) THEN t[i] ELSE u[i - Len(t)]
  BY ConcatProperties DEF Text
<1>2. Len(t) \in Nat /\ Len(u) \in Nat
  BY DEF Text
<1> HIDE DEF tu, st, su, stu
<1>3. /\ st \in Seq(Seq(Words)) /\ Len(st) = Len(t)
      /\ \A i \in 1 .. Len(t) : st[i] = IF t[i] \in Words THEN <<t[i]>> ELSE <<>>
  BY SaidByOf DEF st
<1>4. /\ su \in Seq(Seq(Words)) /\ Len(su) = Len(u)
      /\ \A i \in 1 .. Len(u) : su[i] = IF u[i] \in Words THEN <<u[i]>> ELSE <<>>
  BY SaidByOf DEF su
<1>5. /\ stu \in Seq(Seq(Words)) /\ Len(stu) = Len(tu)
      /\ \A i \in 1 .. Len(tu) : stu[i] = IF tu[i] \in Words THEN <<tu[i]>> ELSE <<>>
  BY <1>1, SaidByOf DEF stu
<1>6. /\ st \o su \in Seq(Seq(Words)) /\ Len(st \o su) = Len(st) + Len(su)
      /\ \A i \in 1 .. Len(st) + Len(su) :
           (st \o su)[i] = IF i <= Len(st) THEN st[i] ELSE su[i - Len(st)]
  BY <1>3, <1>4, ConcatProperties
<1>7. ASSUME NEW i \in 1 .. Len(tu) PROVE stu[i] = (st \o su)[i]
  <2>1. CASE i <= Len(t)
    <3>1. i \in 1 .. Len(t)
      BY <1>1, <1>2, <2>1
    <3>2. tu[i] = t[i] /\ (st \o su)[i] = st[i]
      BY <1>1, <1>3, <1>4, <1>6, <2>1
    <3> QED
      BY <1>3, <1>5, <3>1, <3>2
  <2>2. CASE ~(i <= Len(t))
    <3> DEFINE j == i - Len(t)
    <3>1. j \in 1 .. Len(u)
      BY <1>1, <1>2, <2>2
    <3>2. tu[i] = u[j] /\ (st \o su)[i] = su[j]
      BY <1>1, <1>3, <1>4, <1>6, <2>2
    <3> HIDE DEF j
    <3> QED
      BY <1>4, <1>5, <3>1, <3>2
  <2> QED
    BY <2>1, <2>2
<1>8. stu = st \o su
  BY <1>1, <1>3, <1>4, <1>5, <1>6, <1>7, SeqEqual
<1>9. FlattenSeq(st \o su) = FlattenSeq(st) \o FlattenSeq(su)
  BY <1>3, <1>4, FlattenConcat
<1>10. WordsOf(tu) = FlattenSeq(stu)
  BY <1>1, SaidByOf DEF stu
<1>11. WordsOf(t) = FlattenSeq(st) /\ WordsOf(u) = FlattenSeq(su)
  BY SaidByOf DEF st, su
<1> QED
  BY <1>8, <1>9, <1>10, <1>11 DEF tu

\* Texts that differ in no word say the same.
LEMMA WordsAlike ==
  ASSUME NEW t \in Text, NEW u \in Text, Len(t) = Len(u),
         \A i \in 1 .. Len(t) : t[i] = u[i] \/ (t[i] \notin Words /\ u[i] \notin Words)
  PROVE  WordsOf(t) = WordsOf(u)
<1>1. \A i \in 1 .. Len(t) : SaidBy(t)[i] = SaidBy(u)[i]
  <2> SUFFICES ASSUME NEW i \in 1 .. Len(t) PROVE SaidBy(t)[i] = SaidBy(u)[i]
    OBVIOUS
  <2>1. SaidBy(t)[i] = IF t[i] \in Words THEN <<t[i]>> ELSE <<>>
    BY SaidByOf
  <2>2. SaidBy(u)[i] = IF u[i] \in Words THEN <<u[i]>> ELSE <<>>
    BY SaidByOf
  <2> QED
    BY <2>1, <2>2
<1>2. SaidBy(t) = SaidBy(u)
  <2> DEFINE p == SaidBy(t)
             q == SaidBy(u)
  <2>1. p \in Seq(Seq(Words)) /\ q \in Seq(Seq(Words)) /\ Len(p) = Len(t) /\ Len(q) = Len(t)
    BY SaidByOf
  <2> HIDE DEF p, q
  <2>2. \A i \in 1 .. Len(p) : p[i] = q[i]
    BY <1>1, <2>1 DEF p, q
  <2>3. p = q
    BY <2>1, <2>2, SeqEqual
  <2> QED
    BY <2>3 DEF p, q
<1> QED
  BY <1>2, SaidByOf

\* A text without words says nothing.
LEMMA NoWords ==
  ASSUME NEW t \in Text, \A i \in 1 .. Len(t) : t[i] \notin Words
  PROVE  WordsOf(t) = <<>>
<1> DEFINE Wordless(u) == \A i \in 1 .. Len(u) : u[i] \notin Words
           T == {u \in Text : Wordless(u) => WordsOf(u) = <<>>}
<1>1. \A u \in Text : u \in T <=> (Wordless(u) => WordsOf(u) = <<>>)
  OBVIOUS
<1> HIDE DEF T
<1>2. <<>> \in T
  <2>1. <<>> \in Text /\ SaidBy(<<>>) = <<>>
    BY DEF Text, SaidBy
  <2>2. WordsOf(<<>>) = <<>>
    BY <2>1, SaidByOf, FlattenEmpty
  <2> QED
    BY <1>1, <2>1, <2>2
<1>3. ASSUME NEW u \in Text, NEW x \in Token, u \in T PROVE Append(u, x) \in T
  <2>1. /\ Append(u, x) \in Text /\ Len(Append(u, x)) = Len(u) + 1
        /\ \A i \in 1 .. Len(u) : Append(u, x)[i] = u[i]
        /\ Append(u, x)[Len(u) + 1] = x
        /\ Append(u, x) = u \o <<x>>
    BY AppendProperties, AppendIsConcat DEF Text
  <2>2. Len(u) \in Nat /\ <<x>> \in Text
    BY DEF Text
  <2>3. ASSUME Wordless(Append(u, x)) PROVE WordsOf(Append(u, x)) = <<>>
    <3>1. Wordless(u) /\ x \notin Words
      BY <2>1, <2>2, <2>3
    <3>2. WordsOf(u) = <<>>
      BY <1>1, <1>3, <3>1
    <3>3. SaidBy(<<x>>) = << <<>> >>
      BY <3>1 DEF SaidBy
    <3>4. << >> \in Seq(Words)
      OBVIOUS
    <3>5. FlattenSeq(<< <<>> >>) = <<>>
      BY <3>4, FlattenOne
    <3>6. WordsOf(<<x>>) = <<>>
      BY <2>2, <3>3, <3>5, SaidByOf
    <3>7. WordsOf(u \o <<x>>) = WordsOf(u) \o WordsOf(<<x>>)
      BY <2>2, WordsConcat
    <3>8. <<>> \o <<>> = <<>>
      BY <3>4, ConcatEmptySeq
    <3> QED
      BY <2>1, <3>2, <3>6, <3>7, <3>8
  <2> QED
    BY <1>1, <2>1, <2>3
<1>4. \A u \in Seq(Token) : u \in T
  BY <1>2, <1>3, SeqInduction DEF Text
<1> QED
  BY <1>1, <1>4 DEF Text

\* What stands around a text and has no words adds none.
LEMMA WordsOfParts ==
  ASSUME NEW p \in Text, NEW t \in Text, NEW q \in Text,
         \A i \in 1 .. Len(p) : p[i] \notin Words,
         \A i \in 1 .. Len(q) : q[i] \notin Words
  PROVE  WordsOf(p \o (t \o q)) = WordsOf(t)
<1>1. WordsOf(p) = <<>> /\ WordsOf(q) = <<>>
  BY NoWords
<1>2. t \o q \in Text
  BY ConcatProperties DEF Text
<1>3. /\ WordsOf(p \o (t \o q)) = WordsOf(p) \o WordsOf(t \o q)
      /\ WordsOf(t \o q) = WordsOf(t) \o WordsOf(q)
  BY <1>2, WordsConcat
<1>4. WordsOf(t) \in Seq(Words)
  BY SaidByOf
<1> QED
  BY <1>1, <1>3, <1>4, ConcatEmptySeq

\* The words of lines are those of the lines, one after the other.
LEMMA WordsOfFlatten ==
  ASSUME NEW ss \in Seq(Text)
  PROVE  /\ FlattenSeq(ss) \in Text
         /\ WordsOf(FlattenSeq(ss)) = FlattenSeq([k \in 1 .. Len(ss) |-> WordsOf(ss[k])])
<1> DEFINE W(us) == [k \in 1 .. Len(us) |-> WordsOf(us[k])]
           T == {us \in Seq(Text) : WordsOf(FlattenSeq(us)) = FlattenSeq(W(us))}
<1>1. \A us \in Seq(Text) : us \in T <=> WordsOf(FlattenSeq(us)) = FlattenSeq(W(us))
  OBVIOUS
<1> HIDE DEF T
<1>2. <<>> \in T
  <2>1. <<>> \in Seq(Text) /\ W(<<>>) = <<>> /\ <<>> \in Text
    BY DEF Text
  <2>2. WordsOf(<<>>) = <<>>
    BY <2>1, NoWords
  <2> QED
    BY <1>1, <2>1, <2>2, FlattenEmpty
<1>3. ASSUME NEW us \in Seq(Text), NEW x \in Text, us \in T PROVE Append(us, x) \in T
  <2> DEFINE vs == Append(us, x)
             n == Len(us)
  <2>1. /\ vs \in Seq(Text) /\ Len(vs) = n + 1
        /\ \A k \in 1 .. n : vs[k] = us[k]
        /\ vs[n + 1] = x
    BY AppendProperties
  <2>2. n \in Nat
    OBVIOUS
  <2>3. \A u \in Text : WordsOf(u) \in Seq(Words)
    BY SaidByOf
  <2> DEFINE wu == W(us)
             wx == WordsOf(x)
             wv == W(vs)
  <2>4. wu \in Seq(Seq(Words)) /\ Len(wu) = n /\ \A k \in 1 .. n : wu[k] = WordsOf(us[k])
    BY <2>2, <2>3
  <2> HIDE DEF vs, n
  <2>5. /\ wv \in Seq(Seq(Words)) /\ Len(wv) = n + 1
        /\ \A k \in 1 .. n + 1 : wv[k] = WordsOf(vs[k])
    BY <2>1, <2>2, <2>3
  <2>6. wx \in Seq(Words)
    BY <2>3
  <2> HIDE DEF wu, wx, wv
  <2>7. /\ Append(wu, wx) \in Seq(Seq(Words)) /\ Len(Append(wu, wx)) = n + 1
        /\ \A k \in 1 .. n : Append(wu, wx)[k] = wu[k]
        /\ Append(wu, wx)[n + 1] = wx
    BY <2>4, <2>6, AppendProperties
  <2>8. ASSUME NEW k \in 1 .. n + 1 PROVE wv[k] = Append(wu, wx)[k]
    <3>1. CASE k = n + 1
      BY <2>1, <2>5, <2>7, <3>1 DEF wx
    <3>2. CASE k # n + 1
      <4>1. k \in 1 .. n
        BY <2>2, <3>2
      <4> QED
        BY <2>1, <2>4, <2>5, <2>7, <4>1
    <3> QED
      BY <3>1, <3>2
  <2>9. wv = Append(wu, wx)
    BY <2>5, <2>7, <2>8, SeqEqual
  <2>10. FlattenSeq(Append(wu, wx)) = FlattenSeq(wu) \o wx
    BY <2>4, <2>6, FlattenAppend
  <2>11. FlattenSeq(vs) = FlattenSeq(us) \o x /\ FlattenSeq(us) \in Text
    BY FlattenAppend, FlattenType DEF vs, Text
  <2>12. WordsOf(FlattenSeq(us) \o x) = WordsOf(FlattenSeq(us)) \o wx
    BY <2>11, WordsConcat DEF wx
  <2>13. WordsOf(FlattenSeq(us)) = FlattenSeq(wu)
    BY <1>1, <1>3 DEF wu
  <2>14. WordsOf(FlattenSeq(vs)) = FlattenSeq(wv)
    BY <2>9, <2>10, <2>11, <2>12, <2>13
  <2> QED
    BY <1>1, <2>1, <2>14 DEF wv, vs
<1>4. \A us \in Seq(Text) : us \in T
  BY <1>2, <1>3, SeqInduction
<1>5. FlattenSeq(ss) \in Text
  BY FlattenType DEF Text
<1> QED
  BY <1>1, <1>4, <1>5

-----------------------------------------------------------------------------
\* What the helpers of the code do to words and tokens.

\* What occurs in a sequence.
LEMMA RangeOf ==
  ASSUME NEW S, NEW s \in Seq(S)
  PROVE  \A x : x \in Range(s) <=> \E i \in 1 .. Len(s) : s[i] = x
BY DEF Range

\* White space, line endings and quoting are tokens and no words.
LEMMA TokensApart ==
  /\ \A x \in Eols \cup {"sp", "esc", "fence", "num"} : x \in Token /\ x \notin Words
  /\ "sp" \notin Eols /\ "esc" \notin Eols
BY EditAssumption DEF Token, Eols

\* decodeEscapedText makes line endings of escaped ones, and changes no word.
LEMMA DecodeOf ==
  ASSUME NEW t \in Text
  PROVE  /\ decodeEscapedText(t) \in Text
         /\ Len(decodeEscapedText(t)) = Len(t)
         /\ \A i \in 1 .. Len(t) :
              decodeEscapedText(t)[i] = IF t[i] = "esc" THEN "lf" ELSE t[i]
         /\ WordsOf(decodeEscapedText(t)) = WordsOf(t)
<1> DEFINE d == decodeEscapedText(t)
<1>1. DOMAIN t = 1 .. Len(t) /\ Len(t) \in Nat /\ \A i \in 1 .. Len(t) : t[i] \in Token
  BY DEF Text
<1>2. "lf" \in Token /\ "lf" \notin Words /\ "esc" \notin Words
  BY TokensApart DEF Eols
<1>3. d = [i \in 1 .. Len(t) |-> IF t[i] = "esc" THEN "lf" ELSE t[i]]
  BY <1>1 DEF decodeEscapedText
<1>4. /\ d \in Text /\ Len(d) = Len(t)
      /\ \A i \in 1 .. Len(t) : d[i] = IF t[i] = "esc" THEN "lf" ELSE t[i]
  BY <1>1, <1>2, <1>3 DEF Text
<1> HIDE DEF d
<1>5. \A i \in 1 .. Len(d) : d[i] = t[i] \/ (d[i] \notin Words /\ t[i] \notin Words)
  BY <1>2, <1>4
<1>6. WordsOf(d) = WordsOf(t)
  BY <1>4, <1>5, WordsAlike
<1> QED
  BY <1>4, <1>6 DEF d

\* normalizeLineEndings changes line endings and no word.
LEMMA NormalizeOf ==
  ASSUME NEW t \in Text, NEW eol \in Eols
  PROVE  /\ normalizeLineEndings(t, eol) \in Text
         /\ Len(normalizeLineEndings(t, eol)) = Len(t)
         /\ \A i \in 1 .. Len(t) :
              normalizeLineEndings(t, eol)[i] = IF t[i] \in Eols THEN eol ELSE t[i]
         /\ WordsOf(normalizeLineEndings(t, eol)) = WordsOf(t)
<1> DEFINE d == normalizeLineEndings(t, eol)
<1>1. DOMAIN t = 1 .. Len(t) /\ Len(t) \in Nat /\ \A i \in 1 .. Len(t) : t[i] \in Token
  BY DEF Text
<1>2. eol \in Token /\ \A x \in Eols : x \notin Words
  BY TokensApart
<1>3. d = [i \in 1 .. Len(t) |-> IF t[i] \in Eols THEN eol ELSE t[i]]
  BY <1>1 DEF normalizeLineEndings
<1>4. /\ d \in Text /\ Len(d) = Len(t)
      /\ \A i \in 1 .. Len(t) : d[i] = IF t[i] \in Eols THEN eol ELSE t[i]
  BY <1>1, <1>2, <1>3 DEF Text
<1> HIDE DEF d
<1>5. \A i \in 1 .. Len(d) : d[i] = t[i] \/ (d[i] \notin Words /\ t[i] \notin Words)
  BY <1>2, <1>4
<1>6. WordsOf(d) = WordsOf(t)
  BY <1>4, <1>5, WordsAlike
<1> QED
  BY <1>4, <1>6 DEF d

\* Dropping what has no words changes no word.
LEMMA DropWordless ==
  ASSUME NEW t \in Text, NEW n \in 0 .. Len(t), \A i \in 1 .. n : t[i] \notin Words
  PROVE  DropFirst(t, n) \in Text /\ WordsOf(DropFirst(t, n)) = WordsOf(t)
<1> DEFINE p == SubSeq(t, 1, n)
           d == DropFirst(t, n)
<1>1. d \in Text /\ t = p \o d
  BY DropFirstOf DEF Text
<1>2. p \in Text /\ Len(p) = n /\ \A i \in 1 .. n : p[i] = t[i]
  <2>1. 1 \in 1 .. Len(t) + 1 /\ 1 <= n + 1 /\ n + 1 - 1 = n
    BY DEF Text
  <2>2. /\ p \in Seq(Token) /\ Len(p) = n + 1 - 1
        /\ \A i \in 1 .. n + 1 - 1 : p[i] = t[1 + i - 1]
    BY <2>1, CutOf DEF Text
  <2>3. \A i \in 1 .. n : 1 + i - 1 = i
    OBVIOUS
  <2> HIDE DEF p
  <2> QED
    BY <2>1, <2>2, <2>3 DEF Text
<1> HIDE DEF p, d
<1>3. WordsOf(p) = <<>>
  BY <1>2, NoWords
<1>4. WordsOf(p \o d) = WordsOf(p) \o WordsOf(d)
  BY <1>1, <1>2, WordsConcat
<1>5. WordsOf(d) \in Seq(Words)
  BY <1>1, SaidByOf
<1>6. WordsOf(d) = WordsOf(t)
  BY <1>1, <1>3, <1>4, <1>5, ConcatEmptySeq
<1> QED
  BY <1>1, <1>6 DEF d

\* A line loses no word with its number.
LEMMA WithoutNumberOf ==
  ASSUME NEW l \in Text
  PROVE  WithoutNumber(l) \in Text /\ WordsOf(WithoutNumber(l)) = WordsOf(l)
<1>1. CASE ~IsNumbered(l)
  BY <1>1 DEF WithoutNumber
<1>2. CASE IsNumbered(l)
  <2> DEFINE n == Indentation(l)
             m == n + 1
             rest == DropFirst(l, n + 1)
  <2>1. n < Len(l) /\ l[m] = "num"
    BY <1>2 DEF IsNumbered
  <2>2. n \in 0 .. Len(l) /\ \A i \in 1 .. n : l[i] = "sp"
    BY IndentationOf
  <2>3. Len(l) \in Nat /\ "sp" \notin Words /\ "num" \notin Words
    BY TokensApart DEF Text
  <2> HIDE DEF n
  <2>4. m \in 0 .. Len(l)
    BY <2>1, <2>2, <2>3
  <2>5. \A i \in 1 .. m : l[i] \notin Words
    <3>1. \A i \in 1 .. m : i \in 1 .. n \/ i = m
      BY <2>2, <2>3
    <3> QED
      BY <2>1, <2>2, <2>3, <3>1
  <2>6. rest \in Text /\ WordsOf(rest) = WordsOf(l)
    <3> HIDE DEF m
    <3>1. DropFirst(l, m) \in Text /\ WordsOf(DropFirst(l, m)) = WordsOf(l)
      BY <2>4, <2>5, DropWordless
    <3> QED
      BY <3>1 DEF m
  <2>7. WithoutNumber(l) = IF rest # <<>> /\ Head(rest) = "sp" THEN Tail(rest) ELSE rest
    BY <1>2 DEF WithoutNumber, n
  <2> HIDE DEF rest
  <2>8. CASE rest # <<>> /\ Head(rest) = "sp"
    <3>1. Len(rest) \in Nat \ {0} /\ rest[1] = "sp"
      BY <2>6, <2>8, EmptySeq DEF Text
    <3>2. Tail(rest) = DropFirst(rest, 1)
      <4>1. Tail(rest) = SubSeq(rest, 2, Len(rest))
        BY <2>6, <2>8, TailIsSubSeq DEF Text
      <4>2. 1 + 1 = 2
        OBVIOUS
      <4> QED
        BY <4>1, <4>2 DEF DropFirst
    <3>3. 1 \in 0 .. Len(rest) /\ \A i \in 1 .. 1 : rest[i] \notin Words
      BY <2>3, <3>1
    <3>4. DropFirst(rest, 1) \in Text /\ WordsOf(DropFirst(rest, 1)) = WordsOf(rest)
      BY <2>6, <3>3, DropWordless
    <3> QED
      BY <2>6, <2>7, <2>8, <3>2, <3>4
  <2>9. CASE ~(rest # <<>> /\ Head(rest) = "sp")
    BY <2>6, <2>7, <2>9
  <2> QED
    BY <2>8, <2>9
<1> QED
  BY <1>1, <1>2

\* stripNumberedLinePrefixes changes no word.
LEMMA StripNumbersOf ==
  ASSUME NEW t \in Text
  PROVE  /\ stripNumberedLinePrefixes(t) \in Text
         /\ WordsOf(stripNumberedLinePrefixes(t)) = WordsOf(t)
<1> DEFINE lines == splitLogicalLines(t)
           bare == [k \in DOMAIN lines |-> WithoutNumber(lines[k])]
<1>1. lines \in Seq(Text) /\ FlattenSeq(lines) = t
  BY SplitIsLines
<1>2. CASE ~AllNumbered(lines)
  BY <1>2 DEF stripNumberedLinePrefixes
<1>3. CASE AllNumbered(lines)
  <2>1. stripNumberedLinePrefixes(t) = FlattenSeq(bare)
    BY <1>3 DEF stripNumberedLinePrefixes
  <2> HIDE DEF lines
  <2>2. DOMAIN lines = 1 .. Len(lines) /\ Len(lines) \in Nat
    BY <1>1
  <2>3. \A k \in 1 .. Len(lines) :
          /\ WithoutNumber(lines[k]) \in Text
          /\ WordsOf(WithoutNumber(lines[k])) = WordsOf(lines[k])
    BY <1>1, WithoutNumberOf
  <2>4. /\ bare \in Seq(Text) /\ Len(bare) = Len(lines)
        /\ \A k \in 1 .. Len(lines) : bare[k] = WithoutNumber(lines[k])
    BY <2>2, <2>3
  <2> HIDE DEF bare
  <2>5. [k \in 1 .. Len(bare) |-> WordsOf(bare[k])]
          = [k \in 1 .. Len(lines) |-> WordsOf(lines[k])]
    BY <2>3, <2>4
  <2>6. /\ FlattenSeq(bare) \in Text
        /\ WordsOf(FlattenSeq(bare))
             = FlattenSeq([k \in 1 .. Len(bare) |-> WordsOf(bare[k])])
    BY <2>4, WordsOfFlatten
  <2>7. WordsOf(FlattenSeq(lines))
          = FlattenSeq([k \in 1 .. Len(lines) |-> WordsOf(lines[k])])
    BY <1>1, WordsOfFlatten
  <2> QED
    BY <1>1, <2>1, <2>5, <2>6, <2>7
<1> QED
  BY <1>2, <1>3

\* stripMarkdownFence makes a text of a text.
LEMMA StripFenceType ==
  ASSUME NEW t \in Text
  PROVE  stripMarkdownFence(t) \in Text
<1> DEFINE fenced == TrimOf(t, Eols \cup {"sp"})
           breaks == {i \in DOMAIN fenced : fenced[i] \in Eols}
           a == Min(breaks) + 1
           b == Len(fenced) - 2
<1>1. fenced \in Text
  BY TrimParts
<1>2. CASE Cardinality(breaks) >= 2 /\ Max(breaks) = Len(fenced) - 1
  <2>0. Cardinality({}) = 0
    BY FS_EmptySet
  <2> HIDE DEF fenced
  <2>1. breaks # {}
    <3> HIDE DEF breaks
    <3> SUFFICES ASSUME breaks = {} PROVE FALSE
      OBVIOUS
    <3>1. Cardinality(breaks) = 0
      BY <2>0, Zenon
    <3> QED
      BY <1>2, <3>1
  <2>2. breaks \in SUBSET (1 .. Len(fenced)) /\ breaks \in SUBSET Nat /\ Len(fenced) \in Nat
    BY <1>1 DEF Text
  <2> HIDE DEF breaks
  <2>3. Min(breaks) \in breaks
    BY <2>1, <2>2, MinOf
  <2>4. a \in Nat /\ a >= 1 /\ a \in Int /\ b \in Int
    <3>1. Min(breaks) \in Nat
      BY <2>2, <2>3
    <3> QED
      BY <2>2, <3>1
  <2>5. \A i \in a .. b : i \in 1 .. Len(fenced)
    BY <2>2, <2>4
  <2>6. \A i \in a .. b : fenced[i] \in Token
    BY <1>1, <2>5 DEF Text
  <2> HIDE DEF a, b
  <2>7. SubSeq(fenced, a, b) \in Seq(Token)
    BY <2>4, <2>6, SubSeqProperties
  <2> QED
    BY <2>7 DEF stripMarkdownFence, fenced, breaks, a, b, Text
<1>3. CASE ~(Cardinality(breaks) >= 2 /\ Max(breaks) = Len(fenced) - 1)
  BY <1>3 DEF stripMarkdownFence
<1> QED
  BY <1>2, <1>3

\* Trimming a line changes no word.
LEMMA TrimmedWords ==
  ASSUME NEW l \in Text, IsLine(l)
  PROVE  /\ WordsOf(TextOf(l)) = WordsOf(l)
         /\ WordsOf(Trimmed(l)) = WordsOf(l)
<1> DEFINE x == TextOf(l)
           e == EolOf(l)
           trim == TrimOf(x, {"sp"})
<1>1. x \in Text /\ e \in Text /\ l = x \o e
  BY LineParts
<1>2. \A i \in 1 .. Len(e) : e[i] \notin Words
  <2>1. CASE ClosedLine(l)
    <3>1. e = <<Last(l)>>
      BY <2>1, LineParts
    <3>2. Last(l) \notin Words
      BY <2>1, TokensApart DEF ClosedLine
    <3> QED
      BY <3>1, <3>2
  <2>2. CASE ~ClosedLine(l)
    <3>1. e = <<>>
      BY <2>2, LineParts
    <3> QED
      BY <3>1
  <2> QED
    BY <2>1, <2>2
<1> HIDE DEF x, e
<1>3. WordsOf(e) = <<>>
  BY <1>1, <1>2, NoWords
<1>4. WordsOf(x) \in Seq(Words)
  BY <1>1, SaidByOf
<1>5. WordsOf(x \o e) = WordsOf(x) \o WordsOf(e)
  BY <1>1, WordsConcat
<1>6. WordsOf(x) = WordsOf(l)
  BY <1>1, <1>3, <1>4, <1>5, ConcatEmptySeq
<1>7. PICK p, q \in Text :
        /\ trim \in Text /\ x = p \o (trim \o q)
        /\ \A i \in 1 .. Len(p) : p[i] \in {"sp"}
        /\ \A i \in 1 .. Len(q) : q[i] \in {"sp"}
  BY <1>1, TrimParts
<1> HIDE DEF trim
<1>8. \A y \in {"sp"} : y \notin Words
  BY TokensApart
<1>9. WordsOf(p \o (trim \o q)) = WordsOf(trim)
  BY <1>7, <1>8, WordsOfParts
<1> QED
  BY <1>6, <1>7, <1>9 DEF Trimmed, x, trim

\* adjustIndentation keeps the words of the replacement, takes no line ending and
\* no quoting from elsewhere, and indents at least as the line of the file was.
LEMMA AdjustOf ==
  ASSUME NEW r \in Text, NEW e \in Text, NEW c \in Text,
         IsLine(r), IsLine(e), IsLine(c)
  PROVE  /\ adjustIndentation(r, e, c) \in Text
         /\ WordsOf(adjustIndentation(r, e, c)) = WordsOf(r)
         /\ \A i \in 1 .. Len(adjustIndentation(r, e, c)) :
              adjustIndentation(r, e, c)[i] \notin Eols
         /\ Indentation(TextOf(c)) <= Indentation(adjustIndentation(r, e, c))
         /\ \A y \in Range(adjustIndentation(r, e, c)) : y = "sp" \/ y \in Range(r)
<1> DEFINE x == TextOf(r)
           ind == Indentation(x)
           extra == Indentation(x) - Indentation(TextOf(e))
           own == Indentation(TextOf(c))
           n == own + (IF extra > 0 THEN extra ELSE 0)
           p == [i \in 1 .. n |-> "sp"]
           q == DropFirst(x, ind)
           a == p \o q
<1>0. a = adjustIndentation(r, e, c)
  BY DEF adjustIndentation
<1>1. x \in Text /\ TextOf(e) \in Text /\ TextOf(c) \in Text
  BY LineParts
<1>2. /\ ind \in 0 .. Len(x) /\ \A i \in 1 .. ind : x[i] = "sp"
      /\ own \in 0 .. Len(TextOf(c)) /\ Indentation(TextOf(e)) \in 0 .. Len(TextOf(e))
  BY <1>1, IndentationOf
<1>3. Len(x) \in Nat /\ Len(TextOf(c)) \in Nat /\ Len(TextOf(e)) \in Nat
  BY <1>1 DEF Text
<1>4. own \in Nat /\ n \in Nat /\ own <= n
  BY <1>2, <1>3
<1>5. "sp" \in Token /\ "sp" \notin Words /\ "sp" \notin Eols
  BY TokensApart
<1> HIDE DEF n
<1>6. p \in Text /\ Len(p) = n /\ \A i \in 1 .. n : p[i] = "sp"
  BY <1>4, <1>5 DEF Text
<1>7. q \in Text /\ Len(q) = Len(x) - ind /\ \A i \in 1 .. Len(x) - ind : q[i] = x[ind + i]
  BY <1>1, <1>2, DropFirstOf DEF Text
<1>8. WordsOf(q) = WordsOf(x)
  <2>1. \A i \in 1 .. ind : x[i] \notin Words
    BY <1>2, <1>5
  <2> QED
    BY <1>1, <1>2, <2>1, DropWordless
<1>9. \A i \in 1 .. Len(x) : x[i] \notin Eols
  BY LineParts
<1>10. WordsOf(x) = WordsOf(r)
  BY TrimmedWords
<1>18. \A k \in 1 .. Len(x) : k \in 1 .. Len(r) /\ x[k] = r[k]
  <2>1. Len(r) \in Nat /\ x \o EolOf(r) = r /\ EolOf(r) \in Text
    BY LineParts DEF Text
  <2> DEFINE z == EolOf(r)
  <2> HIDE DEF x, z
  <2>2. /\ Len(x \o z) = Len(x) + Len(z)
        /\ \A k \in 1 .. Len(x) + Len(z) :
             (x \o z)[k] = IF k <= Len(x) THEN x[k] ELSE z[k - Len(x)]
        /\ Len(z) \in Nat
    BY <1>1, <2>1, ConcatProperties DEF Text, z
  <2>3. \A k \in 1 .. Len(x) : k \in 1 .. Len(x) + Len(z) /\ k <= Len(x)
    BY <1>3, <2>2
  <2> QED
    BY <2>1, <2>2, <2>3 DEF z
<1> HIDE DEF p, q, own, x, ind
<1>11. \A i \in 1 .. Len(q) : q[i] \notin Eols
  <2>1. \A i \in 1 .. Len(q) : ind + i \in 1 .. Len(x)
    BY <1>2, <1>3, <1>7
  <2> QED
    BY <1>7, <1>9, <2>1
<1>12. /\ a \in Text /\ Len(a) = n + Len(q)
       /\ \A i \in 1 .. n + Len(q) : a[i] = IF i <= n THEN p[i] ELSE q[i - n]
  BY <1>6, <1>7, ConcatProperties DEF Text
<1>13. Len(q) \in Nat
  BY <1>7 DEF Text
<1>14. WordsOf(a) = WordsOf(q)
  <2>1. WordsOf(p) = <<>>
    BY <1>5, <1>6, NoWords
  <2>2. WordsOf(a) = WordsOf(p) \o WordsOf(q) /\ WordsOf(q) \in Seq(Words)
    BY <1>6, <1>7, WordsConcat, SaidByOf
  <2> HIDE DEF a
  <2> QED
    BY <2>1, <2>2, ConcatEmptySeq
<1> HIDE DEF a
<1>15. ASSUME NEW i \in 1 .. Len(a) PROVE a[i] \notin Eols
  <2>1. CASE i <= n
    <3>1. i \in 1 .. n /\ i \in 1 .. n + Len(q)
      BY <1>4, <1>12, <1>13, <2>1
    <3> QED
      BY <1>5, <1>6, <1>12, <2>1, <3>1
  <2>2. CASE ~(i <= n)
    <3> DEFINE j == i - n
    <3>1. j \in 1 .. Len(q) /\ i \in 1 .. n + Len(q)
      BY <1>4, <1>12, <1>13, <2>2
    <3>2. a[i] = q[j]
      BY <1>12, <2>2, <3>1
    <3> HIDE DEF j
    <3> QED
      BY <1>11, <3>1, <3>2
  <2> QED
    BY <2>1, <2>2
<1>16. own <= Indentation(a)
  <2>1. own \in 0 .. Len(a)
    BY <1>4, <1>12, <1>13
  <2>2. ASSUME NEW i \in 1 .. own PROVE a[i] = "sp"
    <3>1. i \in 1 .. n /\ i \in 1 .. n + Len(q) /\ i <= n
      BY <1>4, <1>13
    <3> QED
      BY <1>6, <1>12, <3>1
  <2> QED
    BY <1>12, <2>1, <2>2, IndentationOf
<1>17. ASSUME NEW i \in 1 .. Len(a)
       PROVE  a[i] = "sp" \/ \E j \in 1 .. Len(r) : a[i] = r[j]
  <2>1. CASE i <= n
    <3>1. i \in 1 .. n /\ i \in 1 .. n + Len(q)
      BY <1>4, <1>12, <1>13, <2>1
    <3> QED
      BY <1>6, <1>12, <2>1, <3>1
  <2>2. CASE ~(i <= n)
    <3> DEFINE j == i - n
               k == ind + j
    <3>1. j \in 1 .. Len(q) /\ i \in 1 .. n + Len(q)
      BY <1>4, <1>12, <1>13, <2>2
    <3>2. a[i] = q[j]
      BY <1>12, <2>2, <3>1
    <3>3. q[j] = x[k] /\ k \in 1 .. Len(x)
      BY <1>2, <1>3, <1>7, <3>1, SMTT(30)
    <3>4. x[k] = r[k] /\ k \in 1 .. Len(r)
      <4> HIDE DEF k
      <4> QED
        BY <1>18, <3>3
    <3> HIDE DEF j, k
    <3> QED
      BY <3>2, <3>3, <3>4
  <2> QED
    BY <2>1, <2>2
<1>19. ASSUME NEW y \in Range(a) PROVE y = "sp" \/ y \in Range(r)
  <2>1. PICK i \in 1 .. Len(a) : a[i] = y
    BY <1>12, RangeOf DEF Text
  <2>2. CASE \E j \in 1 .. Len(r) : a[i] = r[j]
    <3>1. PICK j \in 1 .. Len(r) : r[j] = y
      BY <2>1, <2>2
    <3> QED
      BY <3>1, RangeOf DEF Text
  <2> QED
    BY <1>17, <2>1, <2>2
<1> QED
  BY <1>0, <1>8, <1>10, <1>12, <1>14, <1>15, <1>16, <1>19 DEF own, x

\* Where the middle of three parts stands in the whole, and what replaces it.
MiddleFound(p, q, s) ==
  /\ \A r : Spliced(p \o (q \o s), Len(p) + 1, Len(q), r) = p \o r \o s
  /\ SubSeq(p \o (q \o s), Len(p) + 1, Len(p) + Len(q)) = q
  /\ Len(p \o (q \o s)) = Len(p) + Len(q) + Len(s)

\* The middle of a concatenation is found at its place, and cutting it out leaves
\* the rest.
LEMMA SplicedConcat ==
  ASSUME NEW S, NEW p \in Seq(S), NEW q \in Seq(S), NEW s \in Seq(S)
  PROVE  MiddleFound(p, q, s)
<1> DEFINE qs == q \o s
           t == p \o qs
           lp == Len(p)
           lq == Len(q)
           ls == Len(s)
<1>1. lp \in Nat /\ lq \in Nat /\ ls \in Nat
  OBVIOUS
<1>2. /\ qs \in Seq(S) /\ Len(qs) = lq + ls
      /\ \A i \in 1 .. lq + ls : qs[i] = IF i <= lq THEN q[i] ELSE s[i - lq]
  BY ConcatProperties
<1> HIDE DEF qs
<1>3. /\ t \in Seq(S) /\ Len(t) = lp + Len(qs)
      /\ \A i \in 1 .. lp + Len(qs) : t[i] = IF i <= lp THEN p[i] ELSE qs[i - lp]
  <2>1. qs \in Seq(S)
    BY <1>2
  <2> QED
    BY <2>1, ConcatProperties
<1> HIDE DEF t
<1>4. Len(t) = lp + lq + ls
  BY <1>1, <1>2, <1>3
<1> HIDE DEF lp, lq, ls
<1>5. ASSUME NEW i \in 1 .. lp PROVE t[i] = p[i]
  <2>1. i \in 1 .. lp + Len(qs) /\ i <= lp
    BY <1>1, <1>2
  <2> QED
    BY <1>3, <2>1
<1>6. ASSUME NEW i \in 1 .. lq PROVE t[lp + i] = q[i]
  <2> DEFINE j == lp + i
  <2>1. j \in 1 .. lp + Len(qs) /\ ~(j <= lp) /\ j - lp = i /\ i \in 1 .. lq + ls /\ i <= lq
    BY <1>1, <1>2
  <2> HIDE DEF j
  <2> QED
    BY <1>2, <1>3, <2>1 DEF j
<1>7. ASSUME NEW i \in 1 .. ls PROVE t[lp + lq + i] = s[i]
  <2> DEFINE j == lp + lq + i
             k == lq + i
  <2>1. j \in 1 .. lp + Len(qs) /\ ~(j <= lp) /\ j - lp = k
    BY <1>1, <1>2
  <2>2. k \in 1 .. lq + ls /\ ~(k <= lq) /\ k - lq = i
    BY <1>1, <1>2
  <2> HIDE DEF j, k
  <2> QED
    BY <1>2, <1>3, <2>1, <2>2 DEF j
<1>8. SubSeq(t, 1, lp) = p
  <2>1. 1 \in 1 .. Len(t) + 1 /\ lp \in 0 .. Len(t) /\ 1 <= lp + 1 /\ lp + 1 - 1 = lp
    BY <1>1, <1>4
  <2>2. /\ SubSeq(t, 1, lp) \in Seq(S) /\ Len(SubSeq(t, 1, lp)) = lp + 1 - 1
        /\ \A i \in 1 .. lp + 1 - 1 : SubSeq(t, 1, lp)[i] = t[1 + i - 1]
    BY <1>3, <2>1, CutOf
  <2>3. \A i \in 1 .. lp : SubSeq(t, 1, lp)[i] = p[i]
    <3>1. \A i \in 1 .. lp : 1 + i - 1 = i
      OBVIOUS
    <3> QED
      BY <1>5, <2>1, <2>2, <3>1
  <2> QED
    BY <2>1, <2>2, <2>3, SeqEqual DEF lp
<1>9. SubSeq(t, lp + 1, lp + lq) = q
  <2> DEFINE a == lp + 1
             b == lp + lq
  <2>1. a \in 1 .. Len(t) + 1 /\ b \in 0 .. Len(t) /\ a <= b + 1 /\ b + 1 - a = lq
    BY <1>1, <1>4
  <2>2. \A i \in 1 .. lq : a + i - 1 = lp + i
    BY <1>1
  <2> HIDE DEF a, b
  <2>3. /\ SubSeq(t, a, b) \in Seq(S) /\ Len(SubSeq(t, a, b)) = b + 1 - a
        /\ \A i \in 1 .. b + 1 - a : SubSeq(t, a, b)[i] = t[a + i - 1]
    BY <1>3, <2>1, CutOf, SMTT(30)
  <2>4. \A i \in 1 .. lq : SubSeq(t, a, b)[i] = q[i]
    BY <1>6, <2>1, <2>2, <2>3
  <2>5. SubSeq(t, a, b) = q
    BY <2>1, <2>3, <2>4, SeqEqual DEF lq
  <2> QED
    BY <2>5 DEF a, b
<1>10. DropFirst(t, lp + lq) = s
  <2> DEFINE b == lp + lq
  <2>1. b \in 0 .. Len(t) /\ Len(t) - b = ls
    BY <1>1, <1>4
  <2> HIDE DEF b
  <2>2. /\ DropFirst(t, b) \in Seq(S) /\ Len(DropFirst(t, b)) = Len(t) - b
        /\ \A i \in 1 .. Len(t) - b : DropFirst(t, b)[i] = t[b + i]
    BY <1>3, <2>1, DropFirstOf
  <2>3. \A i \in 1 .. ls : DropFirst(t, b)[i] = s[i]
    BY <1>7, <2>1, <2>2 DEF b
  <2>4. DropFirst(t, b) = s
    BY <2>1, <2>2, <2>3, SeqEqual DEF ls
  <2> QED
    BY <2>4 DEF b
<1>11. ASSUME NEW r PROVE Spliced(t, lp + 1, lq, r) = p \o r \o s
  <2>1. (lp + 1) - 1 = lp /\ lp + 1 + lq - 1 = lp + lq
    BY <1>1
  <2>2. Spliced(t, lp + 1, lq, r)
          = SubSeq(t, 1, (lp + 1) - 1) \o r \o DropFirst(t, lp + 1 + lq - 1)
    BY DEF Spliced
  <2>3. SubSeq(t, 1, (lp + 1) - 1) = p
    BY <1>8, <2>1
  <2>4. DropFirst(t, lp + 1 + lq - 1) = s
    BY <1>10, <2>1
  <2> QED
    BY <2>2, <2>3, <2>4
<1> QED
  BY <1>3, <1>4, <1>9, <1>11 DEF MiddleFound, t, qs, lp, lq, ls

\* What occurs in one of the parts occurs in the whole, and nothing else.
LEMMA RangeOfFlatten ==
  ASSUME NEW ss \in Seq(Text), NEW x
  PROVE  x \in Range(FlattenSeq(ss)) <=> \E k \in 1 .. Len(ss) : x \in Range(ss[k])
<1> DEFINE In(us) == \E k \in 1 .. Len(us) : x \in Range(us[k])
           T == {us \in Seq(Text) : x \in Range(FlattenSeq(us)) <=> In(us)}
<1>1. \A us \in Seq(Text) : us \in T <=> (x \in Range(FlattenSeq(us)) <=> In(us))
  OBVIOUS
<1> HIDE DEF T
<1>2. <<>> \in T
  <2>1. <<>> \in Seq(Text) /\ Range(<<>>) = {} /\ ~In(<<>>)
    BY DEF Range
  <2> QED
    BY <1>1, <2>1, FlattenEmpty
<1>3. ASSUME NEW us \in Seq(Text), NEW l \in Text, us \in T PROVE Append(us, l) \in T
  <2> DEFINE vs == Append(us, l)
             n == Len(us)
  <2>1. /\ vs \in Seq(Text) /\ Len(vs) = n + 1
        /\ \A k \in 1 .. n : vs[k] = us[k]
        /\ vs[n + 1] = l
    BY AppendProperties
  <2>2. n \in Nat
    OBVIOUS
  <2> HIDE DEF vs, n
  <2>3. FlattenSeq(vs) = FlattenSeq(us) \o l /\ FlattenSeq(us) \in Text
    BY FlattenAppend, FlattenType DEF vs, Text
  <2>4. Range(FlattenSeq(us) \o l) = Range(FlattenSeq(us)) \cup Range(l)
    BY <2>3, RangeConcatenation DEF Text
  <2>5. In(vs) <=> In(us) \/ x \in Range(l)
    <3>1. \A k \in 1 .. n + 1 : k \in 1 .. n \/ k = n + 1
      BY <2>2
    <3>2. \A k \in 1 .. n : k \in 1 .. n + 1
      BY <2>2
    <3>3. n + 1 \in 1 .. n + 1
      BY <2>2
    <3>4. In(us) => In(vs)
      BY <2>1, <3>2 DEF n
    <3>5. x \in Range(l) => In(vs)
      BY <2>1, <3>3
    <3>6. In(vs) => In(us) \/ x \in Range(l)
      BY <2>1, <3>1 DEF n
    <3> QED
      BY <3>4, <3>5, <3>6
  <2>6. x \in Range(FlattenSeq(us)) <=> In(us)
    BY <1>1, <1>3
  <2> HIDE DEF In
  <2>7. x \in Range(FlattenSeq(vs)) <=> In(vs)
    BY <2>3, <2>4, <2>5, <2>6
  <2> QED
    BY <1>1, <2>1, <2>7 DEF vs
<1>4. \A us \in Seq(Text) : us \in T
  BY <1>2, <1>3, SeqInduction
<1> QED
  BY <1>1, <1>4

-----------------------------------------------------------------------------
\* Lines that are replaced for others.

\* A text without endings and an ending make a line of both.
LEMMA LineOfParts ==
  ASSUME NEW a \in Text, \A i \in 1 .. Len(a) : a[i] \notin Eols,
         NEW e, e = <<>> \/ \E x \in Eols : e = <<x>>, a \o e # <<>>
  PROVE  /\ a \o e \in Text /\ IsLine(a \o e)
         /\ TextOf(a \o e) = a /\ EolOf(a \o e) = e
         /\ ClosedLine(a \o e) <=> e # <<>>
<1>0. Len(a) \in Nat /\ DOMAIN a = 1 .. Len(a)
  BY DEF Text
<1>1. CASE e = <<>>
  <2>1. a \o e = a
    BY <1>1, ConcatEmptySeq DEF Text
  <2>2. a # <<>> /\ Len(a) \in 1 .. Len(a) /\ Len(a) \in Nat \ {0}
    BY <2>1, EmptySeq DEF Text
  <2>3. ~Has(a, Eols) /\ ~ClosedLine(a)
    BY <1>0, <2>2 DEF Has, ClosedLine, Last
  <2>4. \A i \in 1 .. Len(a) - 1 : i \in 1 .. Len(a)
    BY <1>0
  <2> QED
    BY <1>1, <2>1, <2>2, <2>3, <2>4 DEF IsLine, TextOf, EolOf
<1>2. CASE e # <<>>
  <2>1. PICK x \in Eols : e = <<x>>
    BY <1>2
  <2>2. x \in Token
    BY TokensApart
  <2> DEFINE l == Append(a, x)
  <2>3. a \o e = l
    BY <2>1, <2>2, AppendIsConcat DEF Text
  <2>4. /\ l \in Text /\ l # <<>> /\ Last(l) = x /\ Front(l) = a
        /\ Len(l) = Len(a) + 1 /\ \A i \in 1 .. Len(a) : l[i] = a[i]
        /\ l[Len(a) + 1] = x
    BY <2>2, AppendLast, AppendProperties DEF Text
  <2> HIDE DEF l
  <2>5. DOMAIN l = 1 .. Len(l) /\ Len(a) + 1 \in 1 .. Len(l)
    BY <1>0, <2>4 DEF Text
  <2>6. Has(l, Eols)
    BY <2>4, <2>5 DEF Has
  <2>7. IsLine(l)
    <3>1. \A i \in 1 .. Len(l) - 1 : i \in 1 .. Len(a)
      BY <1>0, <2>4
    <3> QED
      BY <2>4, <3>1 DEF IsLine
  <2> QED
    BY <1>2, <2>1, <2>3, <2>4, <2>6, <2>7 DEF TextOf, EolOf, ClosedLine
<1> QED
  BY <1>1, <1>2

\* u has the lines of t, indented as much or more, with their endings; only a last
\* line without an ending may be lost.  BlockKeepsLayout says it of the file.
LayoutKept(t, u) ==
  LET old == splitLogicalLines(t)
      new == splitLogicalLines(u)
  IN  /\ Len(new) <= Len(old)
      /\ \A k \in DOMAIN old :
           IF k \in DOMAIN new
             THEN /\ Indentation(TextOf(new[k])) >= Indentation(TextOf(old[k]))
                  /\ EolOf(new[k]) = EolOf(old[k])
             ELSE k = Len(old) /\ EolOf(old[k]) = <<>>

\* Lines that get other texts, indented as much or more, and keep their endings
\* keep the layout, though an emptied last line is no line any more.
LEMMA Relined ==
  ASSUME NEW t \in Text, NEW A,
         \A k \in 1 .. Len(splitLogicalLines(t)) :
           /\ A[k] \in Text
           /\ \A i \in 1 .. Len(A[k]) : A[k][i] \notin Eols
           /\ Indentation(TextOf(splitLogicalLines(t)[k])) <= Indentation(A[k]),
         NEW L \in Seq(Text), Len(L) = Len(splitLogicalLines(t)),
         \A k \in 1 .. Len(L) : L[k] = A[k] \o EolOf(splitLogicalLines(t)[k])
  PROVE  /\ FlattenSeq(L) \in Text
         /\ LayoutKept(t, FlattenSeq(L))
         /\ Range(FlattenSeq(L)) \cap Eols \subseteq Range(t)
<1> DEFINE old == splitLogicalLines(t)
           n == Len(old)
<1>1. old \in Seq(Text) /\ IsLines(old) /\ FlattenSeq(old) = t
  BY SplitIsLines
<1> HIDE DEF old
<1>2. n \in Nat /\ DOMAIN old = 1 .. n /\ Len(L) = n
  BY <1>1 DEF old
<1>3. ASSUME NEW k \in 1 .. n
      PROVE  /\ old[k] \in Text /\ IsLine(old[k]) /\ (k < n => ClosedLine(old[k]))
             /\ EolOf(old[k]) = IF ClosedLine(old[k]) THEN <<Last(old[k])>> ELSE <<>>
             /\ EolOf(old[k]) = <<>> \/ \E x \in Eols : EolOf(old[k]) = <<x>>
  <2>1. old[k] \in Text /\ IsLine(old[k]) /\ (k < n => ClosedLine(old[k]))
    BY <1>1 DEF IsLines
  <2>2. EolOf(old[k]) = IF ClosedLine(old[k]) THEN <<Last(old[k])>> ELSE <<>>
    BY <2>1, LineParts
  <2> QED
    BY <2>1, <2>2 DEF ClosedLine
<1> DEFINE Good(l, k) ==
             /\ IsLine(l) /\ (k < n => ClosedLine(l))
             /\ TextOf(l) = A[k] /\ EolOf(l) = EolOf(old[k])
<1>4. ASSUME NEW k \in 1 .. n, L[k] # <<>> PROVE Good(L[k], k)
  <2>1. L[k] = A[k] \o EolOf(old[k]) /\ A[k] \in Text
        /\ \A i \in 1 .. Len(A[k]) : A[k][i] \notin Eols
    BY <1>2 DEF old
  <2>2. EolOf(old[k]) = <<>> \/ \E x \in Eols : EolOf(old[k]) = <<x>>
    BY <1>3
  <2>3. A[k] \o EolOf(old[k]) # <<>>
    BY <1>4, <2>1
  <2> DEFINE a == A[k]
             e == EolOf(old[k])
  <2>4. a \in Text /\ (\A i \in 1 .. Len(a) : a[i] \notin Eols) /\ a \o e # <<>>
        /\ (e = <<>> \/ \E x \in Eols : e = <<x>>)
    BY <2>1, <2>2, <2>3
  <2> HIDE DEF a, e
  <2>5. /\ IsLine(a \o e) /\ TextOf(a \o e) = a /\ EolOf(a \o e) = e
        /\ ClosedLine(a \o e) <=> e # <<>>
    BY <2>4, LineOfParts
  <2>6. k < n => e # <<>>
    <3>1. \A x : <<x>> # <<>>
      OBVIOUS
    <3>2. k < n => e = <<Last(old[k])>>
      BY <1>3 DEF e
    <3> QED
      BY <3>1, <3>2
  <2>7. L[k] = a \o e
    BY <2>1 DEF a, e
  <2> QED
    BY <2>5, <2>6, <2>7 DEF a, e
<1>5. ASSUME NEW k \in 1 .. n, k < n PROVE L[k] # <<>>
  <2>1. L[k] = A[k] \o <<Last(old[k])>> /\ A[k] \in Text /\ Last(old[k]) \in Token
    <3>1. ClosedLine(old[k]) /\ EolOf(old[k]) = <<Last(old[k])>>
      BY <1>3, <1>5
    <3>2. Last(old[k]) \in Token
      BY <3>1, TokensApart DEF ClosedLine
    <3>3. L[k] = A[k] \o EolOf(old[k]) /\ A[k] \in Text
      BY <1>2 DEF old
    <3> QED
      BY <3>1, <3>2, <3>3
  <2> DEFINE a == A[k]
             x == Last(old[k])
  <2>2. a \in Seq(Token) /\ x \in Token /\ L[k] = a \o <<x>>
    BY <2>1 DEF Text
  <2> HIDE DEF a, x
  <2>3. Append(a, x) # <<>> /\ Append(a, x) = a \o <<x>>
    BY <2>2, AppendProperties, AppendIsConcat
  <2> QED
    BY <2>2, <2>3
<1> DEFINE M == IF n > 0 /\ L[n] = <<>> THEN Front(L) ELSE L
<1>6. /\ M \in Seq(Text) /\ FlattenSeq(M) = FlattenSeq(L) /\ Len(M) <= n
      /\ \A k \in 1 .. Len(M) : k \in 1 .. n /\ M[k] = L[k] /\ L[k] # <<>>
      /\ Len(M) = n \/ (Len(M) = n - 1 /\ n > 0 /\ L[n] = <<>>)
  <2>1. CASE n > 0 /\ L[n] = <<>>
    <3>1. L # <<>>
      BY <1>2, <2>1
    <3>2. /\ Last(L) = <<>> /\ Front(L) \in Seq(Text) /\ Len(Front(L)) = n - 1
          /\ \A i \in 1 .. n - 1 : Front(L)[i] = L[i]
          /\ L = Append(Front(L), Last(L))
      <4>1. /\ Last(L) = L[Len(L)] /\ Front(L) \in Seq(Text)
            /\ Len(Front(L)) = Len(L) - 1
            /\ \A i \in 1 .. Len(L) - 1 : Front(L)[i] = L[i]
            /\ L = Append(Front(L), Last(L))
        BY <3>1, LastFront, Zenon
      <4> QED
        BY <1>2, <2>1, <4>1
    <3> DEFINE f == Front(L)
               e == <<>>
    <3>3. f \in Seq(Text) /\ L = Append(f, e) /\ e \in Text
      BY <3>2 DEF Text
    <3> HIDE DEF f, e
    <3>4. FlattenSeq(Append(f, e)) = FlattenSeq(f) \o e
      BY <3>3, FlattenAppend DEF Text
    <3>5. FlattenSeq(f) \in Seq(Token)
      BY <3>3, FlattenType DEF Text
    <3>6. FlattenSeq(f) = FlattenSeq(L)
      BY <3>3, <3>4, <3>5, ConcatEmptySeq DEF e
    <3>7. M = f
      BY <2>1 DEF f
    <3>8. \A k \in 1 .. n - 1 : k \in 1 .. n /\ k < n /\ L[k] # <<>>
      BY <1>2, <1>5
    <3> HIDE DEF M, n
    <3>9. Len(f) = n - 1 /\ \A i \in 1 .. n - 1 : f[i] = L[i]
      BY <3>2 DEF f
    <3>10. n - 1 <= n
      BY <1>2
    <3> QED
      BY <2>1, <3>3, <3>6, <3>7, <3>8, <3>9, <3>10
  <2>2. CASE ~(n > 0 /\ L[n] = <<>>)
    <3>1. M = L
      BY <2>2
    <3>2. \A k \in 1 .. n : L[k] # <<>>
      <4> SUFFICES ASSUME NEW k \in 1 .. n PROVE L[k] # <<>>
        OBVIOUS
      <4>1. CASE k < n
        BY <1>5, <4>1
      <4>2. CASE ~(k < n)
        <5>1. k = n /\ n > 0
          BY <1>2, <4>2
        <5> QED
          BY <2>2, <5>1
      <4> QED
        BY <4>1, <4>2
    <3> HIDE DEF M, n
    <3>3. n <= n
      BY <1>2
    <3> QED
      BY <1>2, <3>1, <3>2, <3>3
  <2> QED
    BY <2>1, <2>2
<1> HIDE DEF M
<1>7. IsLines(M)
  <2> SUFFICES ASSUME NEW k \in 1 .. Len(M)
               PROVE  IsLine(M[k]) /\ (k < Len(M) => ClosedLine(M[k]))
    BY <1>6 DEF IsLines
  <2>1. k \in 1 .. n /\ M[k] = L[k] /\ Good(L[k], k)
    BY <1>4, <1>6
  <2>2. k < Len(M) => k < n
    BY <1>2, <1>6
  <2> QED
    BY <2>1, <2>2
<1>8. splitLogicalLines(FlattenSeq(L)) = M /\ FlattenSeq(L) \in Text
  BY <1>6, <1>7, SplitOfLines
<1>9. LayoutKept(t, FlattenSeq(L))
  <2>1. DOMAIN M = 1 .. Len(M)
    BY <1>6
  <2>2. ASSUME NEW k \in DOMAIN old, k \in DOMAIN M
        PROVE  /\ Indentation(TextOf(M[k])) >= Indentation(TextOf(old[k]))
               /\ EolOf(M[k]) = EolOf(old[k])
    <3>1. k \in 1 .. n /\ M[k] = L[k] /\ Good(L[k], k)
      BY <1>4, <1>6, <2>1, <2>2
    <3>2. Indentation(TextOf(old[k])) <= Indentation(A[k]) /\ A[k] \in Text
      BY <3>1 DEF old
    <3>3. old[k] \in Text /\ IsLine(old[k])
      BY <1>3, <3>1
    <3>4. TextOf(old[k]) \in Text
      BY <3>3, LineParts
    <3>5. Indentation(TextOf(old[k])) \in Int /\ Indentation(A[k]) \in Int
      BY <3>2, <3>4, IndentationOf DEF Text
    <3> QED
      BY <3>1, <3>2, <3>5
  <2>3. ASSUME NEW k \in DOMAIN old, k \notin DOMAIN M
        PROVE  k = Len(old) /\ EolOf(old[k]) = <<>>
    <3>1. k = n /\ L[n] = <<>>
      BY <1>2, <1>6, <2>1, <2>3
    <3>2. L[k] = A[k] \o EolOf(old[k]) /\ A[k] \in Text
      BY <1>2, <2>3 DEF old
    <3>3. EolOf(old[k]) \in Text
      BY <1>2, <1>3, LineParts
    <3> DEFINE a == A[k]
               e == EolOf(old[k])
    <3>4. a \in Seq(Token) /\ e \in Seq(Token) /\ a \o e = <<>>
      BY <3>1, <3>2, <3>3 DEF Text
    <3> HIDE DEF a, e
    <3>5. e = <<>>
      BY <3>4, ConcatEqualIffEmpty
    <3> QED
      BY <3>1, <3>5 DEF e
  <2> QED
    BY <1>6, <1>8, <2>2, <2>3 DEF LayoutKept, old
<1>10. ASSUME NEW x \in Eols, x \in Range(FlattenSeq(L)) PROVE x \in Range(t)
  <2>1. PICK k \in 1 .. n : x \in Range(L[k])
    BY <1>2, <1>10, RangeOfFlatten
  <2>2. L[k] = A[k] \o EolOf(old[k]) /\ A[k] \in Text
        /\ \A i \in 1 .. Len(A[k]) : A[k][i] \notin Eols
    BY <1>2 DEF old
  <2>3. EolOf(old[k]) \in Text /\ old[k] \in Text /\ IsLine(old[k])
    BY <1>3, LineParts
  <2>4. Range(L[k]) = Range(A[k]) \cup Range(EolOf(old[k]))
    <3> DEFINE a == A[k]
               e == EolOf(old[k])
    <3>1. a \in Seq(Token) /\ e \in Seq(Token) /\ L[k] = a \o e
      BY <2>2, <2>3 DEF Text
    <3> HIDE DEF a, e
    <3>2. Range(a \o e) = Range(a) \cup Range(e)
      BY <3>1, RangeConcatenation
    <3> QED
      BY <3>1, <3>2 DEF a, e
  <2>5. x \notin Range(A[k])
    <3> DEFINE a == A[k]
    <3>1. a \in Seq(Token) /\ \A i \in 1 .. Len(a) : a[i] \notin Eols
      BY <2>2 DEF Text
    <3> HIDE DEF a
    <3>2. x \notin Range(a)
      BY <3>1, RangeOf
    <3> QED
      BY <3>2 DEF a
  <2>6. x \in Range(EolOf(old[k]))
    BY <2>1, <2>4, <2>5
  <2>7. EolOf(old[k]) # <<>>
    BY <2>6 DEF Range
  <2>8. EolOf(old[k]) = <<Last(old[k])>>
    BY <1>3, <2>7
  <2>9. x = Last(old[k])
    BY <2>6, <2>8 DEF Range
  <2>10. Len(old[k]) \in 1 .. Len(old[k]) /\ Last(old[k]) = old[k][Len(old[k])]
    <3> DEFINE l == old[k]
    <3>1. l \in Seq(Token) /\ l # <<>>
      BY <2>3 DEF IsLine, Text
    <3> HIDE DEF l
    <3>2. Len(l) \in Nat \ {0} /\ Last(l) = l[Len(l)]
      BY <3>1, LastFront
    <3>3. Len(l) \in 1 .. Len(l)
      BY <3>2
    <3> QED
      BY <3>2, <3>3 DEF l
  <2>11. x \in Range(old[k])
    BY <2>3, <2>9, <2>10, RangeOf DEF Text
  <2> QED
    BY <1>1, <2>11, RangeOfFlatten
<1> QED
  BY <1>8, <1>9, <1>10

\* A sequence cut in two places.
LEMMA ThreeParts ==
  ASSUME NEW s \in Seq(Text), NEW a \in 1 .. Len(s) + 1, NEW b \in a - 1 .. Len(s)
  PROVE  /\ SubSeq(s, 1, a - 1) \in Seq(Text) /\ Len(SubSeq(s, 1, a - 1)) = a - 1
         /\ \A k \in 1 .. a - 1 : SubSeq(s, 1, a - 1)[k] = s[k]
         /\ SubSeq(s, a, b) \in Seq(Text) /\ Len(SubSeq(s, a, b)) = b + 1 - a
         /\ \A k \in 1 .. b + 1 - a : SubSeq(s, a, b)[k] = s[a + k - 1]
         /\ SubSeq(s, b + 1, Len(s)) \in Seq(Text) /\ Len(SubSeq(s, b + 1, Len(s))) = Len(s) - b
         /\ \A k \in 1 .. Len(s) - b : SubSeq(s, b + 1, Len(s))[k] = s[b + k]
         /\ s = SubSeq(s, 1, a - 1) \o (SubSeq(s, a, b) \o SubSeq(s, b + 1, Len(s)))
<1> DEFINE n == Len(s)
           a1 == a - 1
           b1 == b + 1
<1>1. n \in Nat
  OBVIOUS
<1>2. /\ 1 \in 1 .. n + 1 /\ a1 \in 0 .. n /\ 1 <= a1 + 1 /\ a1 + 1 = a /\ a1 + 1 - 1 = a1
      /\ b \in 0 .. n /\ a <= b + 1
      /\ b1 \in 1 .. n + 1 /\ n \in 0 .. n /\ b1 <= n + 1 /\ n + 1 - b1 = n - b
  BY <1>1
<1>3. /\ SubSeq(s, 1, a1) \in Seq(Text) /\ Len(SubSeq(s, 1, a1)) = a1
      /\ \A k \in 1 .. a1 : SubSeq(s, 1, a1)[k] = s[k]
  <2> HIDE DEF a1
  <2>1. /\ SubSeq(s, 1, a1) \in Seq(Text) /\ Len(SubSeq(s, 1, a1)) = a1 + 1 - 1
        /\ \A k \in 1 .. a1 + 1 - 1 : SubSeq(s, 1, a1)[k] = s[1 + k - 1]
    BY <1>2, CutOf DEF n
  <2>2. \A k \in 1 .. a1 : 1 + k - 1 = k
    OBVIOUS
  <2> QED
    BY <1>2, <2>1, <2>2
<1>4. /\ SubSeq(s, a, b) \in Seq(Text) /\ Len(SubSeq(s, a, b)) = b + 1 - a
      /\ \A k \in 1 .. b + 1 - a : SubSeq(s, a, b)[k] = s[a + k - 1]
  BY <1>2, CutOf
<1>5. /\ SubSeq(s, b1, n) \in Seq(Text) /\ Len(SubSeq(s, b1, n)) = n - b
      /\ \A k \in 1 .. n - b : SubSeq(s, b1, n)[k] = s[b + k]
  <2>1. \A k \in 1 .. n - b : b1 + k - 1 = b + k
    BY <1>2
  <2> HIDE DEF b1
  <2>2. /\ SubSeq(s, b1, n) \in Seq(Text) /\ Len(SubSeq(s, b1, n)) = n + 1 - b1
        /\ \A k \in 1 .. n + 1 - b1 : SubSeq(s, b1, n)[k] = s[b1 + k - 1]
    BY <1>2, CutOf DEF n
  <2> QED
    BY <1>2, <2>1, <2>2
<1>6. SubSeq(s, a, b) \o SubSeq(s, b1, n) = SubSeq(s, a, n)
  <2>1. n \in b .. n
    BY <1>1
  <2> QED
    BY <2>1, ConcatAdjacentSubSeq
<1>7. SubSeq(s, 1, a1) \o SubSeq(s, a, n) = s
  <2>1. a1 \in 1 - 1 .. n /\ n \in a1 .. n /\ 1 \in 1 .. n + 1
    BY <1>1
  <2> HIDE DEF a1
  <2>2. SubSeq(s, 1, a1) \o SubSeq(s, a1 + 1, n) = SubSeq(s, 1, n)
    BY <2>1, ConcatAdjacentSubSeq
  <2>3. SubSeq(s, 1, n) = s
    BY SubSeqFull
  <2> QED
    BY <1>2, <2>2, <2>3
<1> QED
  BY <1>3, <1>4, <1>5, <1>6, <1>7

\* Three runs of lines joined.
LEMMA FlattenThreeParts ==
  ASSUME NEW p \in Seq(Text), NEW q \in Seq(Text), NEW r \in Seq(Text)
  PROVE  /\ FlattenSeq(p) \in Text /\ FlattenSeq(q) \in Text /\ FlattenSeq(r) \in Text
         /\ FlattenSeq(p \o (q \o r)) = FlattenSeq(p) \o (FlattenSeq(q) \o FlattenSeq(r))
         /\ FlattenSeq(p \o (q \o r)) = FlattenSeq(p) \o FlattenSeq(q) \o FlattenSeq(r)
<1>1. q \o r \in Seq(Text)
  BY ConcatProperties
<1>2. /\ FlattenSeq(q \o r) = FlattenSeq(q) \o FlattenSeq(r)
      /\ FlattenSeq(p \o (q \o r)) = FlattenSeq(p) \o FlattenSeq(q \o r)
  BY <1>1, FlattenConcat DEF Text
<1>3. FlattenSeq(p) \in Text /\ FlattenSeq(q) \in Text /\ FlattenSeq(r) \in Text
  BY FlattenType DEF Text
<1>4. (FlattenSeq(p) \o FlattenSeq(q)) \o FlattenSeq(r)
        = FlattenSeq(p) \o (FlattenSeq(q) \o FlattenSeq(r))
  <2> DEFINE a == FlattenSeq(p)
             b == FlattenSeq(q)
             c == FlattenSeq(r)
  <2>1. a \in Seq(Token) /\ b \in Seq(Token) /\ c \in Seq(Token)
    BY <1>3 DEF Text
  <2> HIDE DEF a, b, c
  <2>2. Associates(a, b, c)
    BY <2>1, Associative, Zenon
  <2> QED
    BY <2>2, Zenon DEF Associates, a, b, c
<1> QED
  BY <1>2, <1>3, <1>4

\* What occurs in three texts joined.
LEMMA RangeOfParts ==
  ASSUME NEW p \in Text, NEW q \in Text, NEW r \in Text
  PROVE  /\ Range(p \o q \o r) = Range(p) \cup Range(q) \cup Range(r)
         /\ Range(p \o (q \o r)) = Range(p) \cup Range(q) \cup Range(r)
<1>1. p \in Seq(Token) /\ q \in Seq(Token) /\ r \in Seq(Token)
  BY DEF Text
<1>2. p \o q \in Seq(Token) /\ q \o r \in Seq(Token)
  BY <1>1, ConcatProperties
<1>3. Range(p \o q) = Range(p) \cup Range(q) /\ Range(q \o r) = Range(q) \cup Range(r)
  BY <1>1, RangeConcatenation
<1> DEFINE a == p \o q
           b == q \o r
<1>4. Range(a \o r) = Range(a) \cup Range(r)
  <2> HIDE DEF a
  <2>1. a \in Seq(Token)
    BY <1>2 DEF a
  <2> QED
    BY <1>1, <2>1, RangeConcatenation
<1>5. Range(p \o b) = Range(p) \cup Range(b)
  <2> HIDE DEF b
  <2>1. b \in Seq(Token)
    BY <1>2 DEF b
  <2> QED
    BY <1>1, <2>1, RangeConcatenation
<1> QED
  BY <1>3, <1>4, <1>5

\* The tokens of which Quoting speaks.
Quotes == {"fence", "num", "esc"}

\* What p has no quoting of, q has none of either, as far as e is quoted.
KeepsQuoting(p, q, e) ==
  \A x \in Quotes : x \in Range(e) /\ x \in Range(q) => x \in Range(p)

\* Has asks what occurs in a text.
LEMMA HasOf ==
  ASSUME NEW t, NEW S
  PROVE  Has(t, S) <=> \E x \in S : x \in Range(t)
BY DEF Has, Range

\* Quoting is neither word, line ending nor space.
LEMMA QuotesApart ==
  \A x \in Quotes : x \notin Words /\ x \notin Eols /\ x # "sp" /\ x \in Token
BY TokensApart DEF Quotes, Eols

\* What occurs in a part of a text.
LEMMA RangeOfCut ==
  ASSUME NEW t \in Text, NEW a \in 1 .. Len(t) + 1, NEW b \in 0 .. Len(t), a <= b + 1
  PROVE  /\ SubSeq(t, a, b) \in Text
         /\ \A x : x \in Range(SubSeq(t, a, b)) <=> \E i \in a .. b : t[i] = x
<1> DEFINE s == SubSeq(t, a, b)
<1>1. /\ s \in Seq(Token) /\ Len(s) = b + 1 - a
      /\ \A i \in 1 .. b + 1 - a : s[i] = t[a + i - 1]
  <2>1. t \in Seq(Token)
    BY DEF Text
  <2> QED
    BY <2>1, CutOf
<1> HIDE DEF s
<1>2. ASSUME NEW x, x \in Range(s) PROVE \E i \in a .. b : t[i] = x
  <2>1. PICK i \in 1 .. Len(s) : s[i] = x
    BY <1>1, <1>2, RangeOf
  <2>2. a + i - 1 \in a .. b /\ t[a + i - 1] = x
    BY <1>1, <2>1
  <2> QED
    BY <2>2
<1>3. ASSUME NEW i \in a .. b PROVE t[i] \in Range(s)
  <2> DEFINE j == i - a + 1
  <2>1. j \in 1 .. b + 1 - a /\ a + j - 1 = i
    OBVIOUS
  <2> HIDE DEF j
  <2>2. j \in 1 .. Len(s) /\ s[j] = t[i]
    BY <1>1, <2>1
  <2> QED
    BY <1>1, <2>2, RangeOf
<1> QED
  BY <1>1, <1>2, <1>3 DEF s, Text

\* Trimming takes nothing but spaces and the ending from a line.
LEMMA TrimmedRange ==
  ASSUME NEW l \in Text, IsLine(l), NEW x, x \notin Eols \cup {"sp"}
  PROVE  x \in Range(l) <=> x \in Range(Trimmed(l))
<1>1. /\ TextOf(l) \in Text /\ EolOf(l) \in Text /\ l = TextOf(l) \o EolOf(l)
      /\ EolOf(l) = IF ClosedLine(l) THEN <<Last(l)>> ELSE <<>>
  BY LineParts
<1> DEFINE b == TextOf(l)
           z == EolOf(l)
           m == Trimmed(l)
<1>2. PICK p \in Text, q \in Text :
             /\ m \in Text
             /\ b = p \o (m \o q)
             /\ \A i \in 1 .. Len(p) : p[i] \in {"sp"}
             /\ \A i \in 1 .. Len(q) : q[i] \in {"sp"}
  BY <1>1, TrimParts DEF Trimmed
<1>3. x \notin Range(p) /\ x \notin Range(q)
  BY <1>2, RangeOf DEF Text
<1>4. x \notin Range(z)
  <2>1. CASE ClosedLine(l)
    <3>1. z = <<Last(l)>> /\ Last(l) \in Eols
      BY <1>1, <2>1 DEF ClosedLine
    <3>2. Range(<<Last(l)>>) = {Last(l)}
      BY DEF Range
    <3> QED
      BY <3>1, <3>2
  <2>2. CASE ~ClosedLine(l)
    <3>1. z = <<>>
      BY <1>1, <2>2
    <3> QED
      BY <3>1 DEF Range
  <2> QED
    BY <2>1, <2>2
<1> HIDE DEF b, z, m
<1>5. Range(b) = Range(p) \cup Range(m) \cup Range(q)
  BY <1>2, RangeOfParts
<1>6. Range(l) = Range(b) \cup Range(z)
  <2>1. b \in Seq(Token) /\ z \in Seq(Token) /\ l = b \o z
    BY <1>1 DEF b, z, Text
  <2> QED
    BY <2>1, RangeConcatenation
<1> QED
  BY <1>3, <1>4, <1>5, <1>6 DEF m

\* One stretch of t is replaced in u: it said what e says and says what r says.
StretchReplaced(t, u, e, r) ==
  \E p, old, new, s \in Text :
    /\ t = p \o (old \o s)
    /\ u = p \o new \o s
    /\ WordsOf(old) = WordsOf(e)
    /\ WordsOf(new) = WordsOf(r)

\* What u quotes comes from t or from r, and t has the quoting of e.
QuotesWritten(t, u, e, r) ==
  \A x \in Quotes : /\ x \in Range(u) => x \in Range(t) \/ x \in Range(r)
                    /\ x \in Range(e) => x \in Range(t)

\* An edit made by replaceIndentationInsensitiveBlock: it keeps the layout and the
\* line endings, replaces one stretch as the reading says and writes no quoting
\* but that of the file and of the reading.
LEMMA BlockOf ==
  ASSUME NEW t \in Text, NEW v, v.expected \in Text, v.replacement \in Text,
         BlockReplaced(t, v) # NotUnique
  PROVE  LET u == BlockReplaced(t, v).content
         IN  /\ BlockReplaced(t, v) = Edited(u, "indentation")
             /\ u \in Text /\ LayoutKept(t, u)
             /\ Range(u) \cap Eols \subseteq Range(t)
             /\ StretchReplaced(t, u, v.expected, v.replacement)
             /\ QuotesWritten(t, u, v.expected, v.replacement)
<1> DEFINE lines == splitLogicalLines(t)
           expected == splitLogicalLines(v.expected)
           replaced == splitLogicalLines(v.replacement)
           blocks == Blocks(lines, expected)
           start == Min(blocks)
           n == Len(lines)
           m == Len(expected)
           At(k) == IF k \in start .. start + m - 1
                      THEN adjustIndentation(replaced[k - start + 1],
                                             expected[k - start + 1], lines[k])
                             \o EolOf(lines[k])
                      ELSE lines[k]
           L == [k \in DOMAIN lines |->
                   IF k \in start .. start + m - 1
                      THEN adjustIndentation(replaced[k - start + 1],
                                             expected[k - start + 1], lines[k])
                             \o EolOf(lines[k])
                      ELSE lines[k]]
<1>1. /\ lines \in Seq(Text) /\ IsLines(lines) /\ FlattenSeq(lines) = t
      /\ expected \in Seq(Text) /\ IsLines(expected) /\ FlattenSeq(expected) = v.expected
      /\ replaced \in Seq(Text) /\ IsLines(replaced) /\ FlattenSeq(replaced) = v.replacement
  BY SplitIsLines
<1>2. BlockReplaceable(lines, expected, replaced)
  BY DEF BlockReplaced
<1>3. BlockReplaced(t, v) = Edited(FlattenSeq(L), "indentation")
  BY <1>2 DEF BlockReplaced, BlockReplacedAt
<1>4. /\ blocks \in SUBSET (1 .. n + 1 - m) /\ Len(replaced) = m
      /\ \A k \in blocks : \A j \in DOMAIN expected :
           Trimmed(lines[k + j - 1]) = Trimmed(expected[j])
      /\ Cardinality(blocks) = 1
  BY <1>2 DEF BlockReplaceable, Blocks
<1> HIDE DEF blocks, lines, expected, replaced
<1>5. n \in Nat /\ m \in Nat /\ DOMAIN lines = 1 .. n /\ DOMAIN expected = 1 .. m
  BY <1>1
<1>6. start \in blocks
  <2>1. blocks # {}
    <3> SUFFICES ASSUME blocks = {} PROVE FALSE
      OBVIOUS
    <3>1. Cardinality(blocks) = 0
      BY FS_EmptySet, Zenon
    <3> QED
      BY <1>4, <3>1
  <2>2. blocks \in SUBSET Nat
    BY <1>4, <1>5
  <2> QED
    BY <2>1, <2>2, MinOf
<1> HIDE DEF start
<1>7. start \in 1 .. n + 1 - m /\ start \in 1 .. n + 1 /\ start + m - 1 \in start - 1 .. n
  BY <1>4, <1>5, <1>6
<1>8. \A k \in 1 .. n : lines[k] \in Text /\ IsLine(lines[k])
  BY <1>1 DEF IsLines
<1>9. \A j \in 1 .. m : /\ expected[j] \in Text /\ IsLine(expected[j])
                        /\ replaced[j] \in Text /\ IsLine(replaced[j])
  BY <1>1, <1>4, <1>5 DEF IsLines
<1> DEFINE A == [k \in 1 .. n |->
                   IF k \in start .. start + m - 1
                     THEN adjustIndentation(replaced[k - start + 1],
                                            expected[k - start + 1], lines[k])
                     ELSE TextOf(lines[k])]
<1>10. ASSUME NEW k \in 1 .. n
       PROVE  /\ A[k] \in Text
              /\ \A i \in 1 .. Len(A[k]) : A[k][i] \notin Eols
              /\ Indentation(TextOf(lines[k])) <= Indentation(A[k])
              /\ L[k] = A[k] \o EolOf(lines[k]) /\ L[k] \in Text
  <2>0. /\ TextOf(lines[k]) \in Text /\ EolOf(lines[k]) \in Text
        /\ lines[k] = TextOf(lines[k]) \o EolOf(lines[k])
        /\ \A i \in 1 .. Len(TextOf(lines[k])) : TextOf(lines[k])[i] \notin Eols
    BY <1>8, LineParts
  <2>1. CASE k \in start .. start + m - 1
    <3> DEFINE j == k - start + 1
               a == adjustIndentation(replaced[j], expected[j], lines[k])
    <3>1. A[k] = a /\ L[k] = a \o EolOf(lines[k])
      BY <1>5, <2>1
    <3>2. j \in 1 .. m
      BY <1>5, <1>7, <2>1
    <3> HIDE DEF j
    <3>3. /\ a \in Text /\ \A i \in 1 .. Len(a) : a[i] \notin Eols
          /\ Indentation(TextOf(lines[k])) <= Indentation(a)
      BY <1>8, <1>9, <3>2, AdjustOf
    <3> HIDE DEF a
    <3>4. a \o EolOf(lines[k]) \in Text
      BY <2>0, <3>3, ConcatProperties DEF Text
    <3> HIDE DEF A, L
    <3> QED
      BY <3>1, <3>3, <3>4
  <2>2. CASE k \notin start .. start + m - 1
    <3>1. A[k] = TextOf(lines[k]) /\ L[k] = lines[k]
      BY <1>5, <2>2
    <3>2. Indentation(TextOf(lines[k])) \in 0 .. Len(TextOf(lines[k]))
      BY <2>0, IndentationOf
    <3>3. Len(TextOf(lines[k])) \in Nat
      BY <2>0 DEF Text
    <3>4. Indentation(TextOf(lines[k])) <= Indentation(TextOf(lines[k]))
      BY <3>2, <3>3
    <3> HIDE DEF A, L
    <3> QED
      BY <1>8, <2>0, <3>1, <3>4
  <2> QED
    BY <2>1, <2>2
<1>11. L \in Seq(Text) /\ Len(L) = n
  <2>1. L = [k \in 1 .. n |-> L[k]]
    BY <1>5
  <2> HIDE DEF L
  <2> QED
    BY <1>5, <1>10, <2>1
<1>12. ASSUME NEW k \in 1 .. n, k \notin start .. start + m - 1 PROVE L[k] = lines[k]
  BY <1>5, <1>12
<1>13. ASSUME NEW j \in 1 .. m
       PROVE  WordsOf(L[start + j - 1]) = WordsOf(replaced[j])
  <2> DEFINE k == start + j - 1
             a == adjustIndentation(replaced[j], expected[j], lines[k])
  <2>1. k \in 1 .. n /\ k \in start .. start + m - 1 /\ k - start + 1 = j
    BY <1>5, <1>7
  <2>2. L[k] = adjustIndentation(replaced[k - start + 1], expected[k - start + 1], lines[k])
                 \o EolOf(lines[k])
    BY <1>5, <2>1
  <2>3. L[k] = a \o EolOf(lines[k])
    <3> HIDE DEF L, k
    <3> QED
      BY <2>1, <2>2
  <2> HIDE DEF k, L
  <2>4. lines[k] \in Text /\ IsLine(lines[k])
    BY <1>8, <2>1
  <2>5. a \in Text /\ WordsOf(a) = WordsOf(replaced[j])
    BY <1>9, <2>4, AdjustOf
  <2>6. EolOf(lines[k]) \in Text /\ WordsOf(EolOf(lines[k])) = <<>>
    <3> DEFINE e == EolOf(lines[k])
    <3>1. e \in Text /\ e = IF ClosedLine(lines[k]) THEN <<Last(lines[k])>> ELSE <<>>
      BY <2>4, LineParts
    <3> HIDE DEF e
    <3>2. \A i \in 1 .. Len(e) : e[i] \notin Words
      <4>1. ClosedLine(lines[k]) => Last(lines[k]) \notin Words
        BY TokensApart DEF ClosedLine
      <4>2. CASE ClosedLine(lines[k])
        BY <3>1, <4>1, <4>2
      <4>3. CASE ~ClosedLine(lines[k])
        <5>1. e = <<>>
          BY <3>1, <4>3
        <5> QED
          BY <5>1
      <4> QED
        BY <4>2, <4>3
    <3>3. WordsOf(e) = <<>>
      BY <3>1, <3>2, NoWords
    <3> QED
      BY <3>1, <3>3 DEF e
  <2> HIDE DEF a
  <2>7. WordsOf(a \o EolOf(lines[k])) = WordsOf(a) \o WordsOf(EolOf(lines[k]))
        /\ WordsOf(a) \in Seq(Words)
    BY <2>5, <2>6, WordsConcat, SaidByOf
  <2>8. WordsOf(a) \o <<>> = WordsOf(a)
    BY <2>7, ConcatEmptySeq
  <2>9. WordsOf(L[k]) = WordsOf(replaced[j])
    BY <2>3, <2>5, <2>6, <2>7, <2>8
  <2> QED
    BY <2>9 DEF k
<1>14. ASSUME NEW j \in 1 .. m
       PROVE  WordsOf(lines[start + j - 1]) = WordsOf(expected[j])
  <2> DEFINE k == start + j - 1
  <2>1. k \in 1 .. n
    BY <1>5, <1>7
  <2>2. Trimmed(lines[k]) = Trimmed(expected[j])
    BY <1>4, <1>5, <1>6
  <2> HIDE DEF k
  <2>3. WordsOf(Trimmed(lines[k])) = WordsOf(lines[k])
    BY <1>8, <2>1, TrimmedWords
  <2>4. WordsOf(Trimmed(expected[j])) = WordsOf(expected[j])
    BY <1>9, TrimmedWords
  <2>5. WordsOf(lines[k]) = WordsOf(expected[j])
    BY <2>2, <2>3, <2>4
  <2> QED
    BY <2>5 DEF k
<1> HIDE DEF L
<1>15. /\ FlattenSeq(L) \in Text /\ LayoutKept(t, FlattenSeq(L))
       /\ Range(FlattenSeq(L)) \cap Eols \subseteq Range(t)
  <2> HIDE DEF A
  <2> QED
    BY <1>10, <1>11, Relined DEF lines
<1>16. StretchReplaced(t, FlattenSeq(L), v.expected, v.replacement)
  <2> DEFINE b == start + m - 1
             l1 == SubSeq(lines, 1, start - 1)
             l2 == SubSeq(lines, start, b)
             l3 == SubSeq(lines, b + 1, n)
             k1 == SubSeq(L, 1, start - 1)
             k2 == SubSeq(L, start, b)
             k3 == SubSeq(L, b + 1, n)
  <2>1. start \in 1 .. n + 1 /\ b \in start - 1 .. n /\ b + 1 - start = m
    BY <1>5, <1>7
  <2> HIDE DEF b
  <2>2. /\ l1 \in Seq(Text) /\ Len(l1) = start - 1
        /\ \A k \in 1 .. start - 1 : l1[k] = lines[k]
        /\ l2 \in Seq(Text) /\ Len(l2) = b + 1 - start
        /\ \A k \in 1 .. b + 1 - start : l2[k] = lines[start + k - 1]
        /\ l3 \in Seq(Text) /\ Len(l3) = n - b
        /\ \A k \in 1 .. n - b : l3[k] = lines[b + k]
        /\ lines = l1 \o (l2 \o l3)
    <3>1. lines \in Seq(Text) /\ start \in 1 .. Len(lines) + 1 /\ b \in start - 1 .. Len(lines)
      BY <1>1, <2>1
    <3> QED
      BY <3>1, ThreeParts
  <2>3. /\ k1 \in Seq(Text) /\ Len(k1) = start - 1
        /\ \A k \in 1 .. start - 1 : k1[k] = L[k]
        /\ k2 \in Seq(Text) /\ Len(k2) = b + 1 - start
        /\ \A k \in 1 .. b + 1 - start : k2[k] = L[start + k - 1]
        /\ k3 \in Seq(Text) /\ Len(k3) = n - b
        /\ \A k \in 1 .. n - b : k3[k] = L[b + k]
        /\ L = k1 \o (k2 \o k3)
    <3>1. L \in Seq(Text) /\ Len(L) = n
      BY <1>11
    <3>2. L \in Seq(Text) /\ start \in 1 .. Len(L) + 1 /\ b \in start - 1 .. Len(L)
      BY <2>1, <3>1
    <3> HIDE DEF n
    <3> DEFINE M == L
    <3>3. M \in Seq(Text) /\ start \in 1 .. Len(M) + 1 /\ b \in start - 1 .. Len(M)
      BY <3>2
    <3> HIDE DEF M
    <3>4. /\ SubSeq(M, 1, start - 1) \in Seq(Text) /\ Len(SubSeq(M, 1, start - 1)) = start - 1
          /\ \A k \in 1 .. start - 1 : SubSeq(M, 1, start - 1)[k] = M[k]
      BY <3>3, ThreeParts
    <3>5. /\ SubSeq(M, start, b) \in Seq(Text) /\ Len(SubSeq(M, start, b)) = b + 1 - start
          /\ \A k \in 1 .. b + 1 - start : SubSeq(M, start, b)[k] = M[start + k - 1]
      BY <3>3, ThreeParts
    <3>6. /\ SubSeq(M, b + 1, Len(M)) \in Seq(Text) /\ Len(SubSeq(M, b + 1, Len(M))) = Len(M) - b
          /\ \A k \in 1 .. Len(M) - b : SubSeq(M, b + 1, Len(M))[k] = M[b + k]
      BY <3>3, ThreeParts
    <3>7. M = SubSeq(M, 1, start - 1) \o (SubSeq(M, start, b) \o SubSeq(M, b + 1, Len(M)))
      BY <3>3, ThreeParts
    <3> QED
      BY <3>1, <3>4, <3>5, <3>6, <3>7 DEF M
  <2> HIDE DEF l1, l2, l3, k1, k2, k3
  <2>4. k1 = l1
    <3>1. \A k \in 1 .. start - 1 : k \in 1 .. n /\ k \notin start .. start + m - 1
      BY <1>5, <1>7
    <3>2. \A k \in 1 .. start - 1 : k1[k] = l1[k]
      BY <1>12, <2>2, <2>3, <3>1
    <3> QED
      BY <2>2, <2>3, <3>2, SeqEqual
  <2>5. k3 = l3
    <3>1. ASSUME NEW k \in 1 .. n - b PROVE k3[k] = l3[k]
      <4> DEFINE j == b + k
      <4>1. j \in 1 .. n /\ j \notin start .. start + m - 1
        BY <1>5, <1>7, <2>1 DEF b
      <4>2. k3[k] = L[j] /\ l3[k] = lines[j]
        BY <2>2, <2>3
      <4> HIDE DEF j
      <4> QED
        BY <1>12, <4>1, <4>2
    <3> QED
      BY <2>2, <2>3, <3>1, SeqEqual
  <2> DEFINE p == FlattenSeq(l1)
             old == FlattenSeq(l2)
             new == FlattenSeq(k2)
             s == FlattenSeq(l3)
  <2>6. p \in Text /\ old \in Text /\ s \in Text /\ t = p \o (old \o s)
    <3>1. FlattenSeq(l1 \o (l2 \o l3)) = p \o (old \o s)
          /\ p \in Text /\ old \in Text /\ s \in Text
      BY <2>2, FlattenThreeParts
    <3>2. FlattenSeq(lines) = FlattenSeq(l1 \o (l2 \o l3))
      BY <2>2, Zenon
    <3> QED
      BY <1>1, <3>1, <3>2
  <2>7. new \in Text /\ FlattenSeq(L) = p \o new \o s
    <3>1. FlattenSeq(l1 \o (k2 \o l3)) = p \o (new \o s)
          /\ p \in Text /\ new \in Text /\ s \in Text
      <4>1. l1 \in Seq(Text) /\ k2 \in Seq(Text) /\ l3 \in Seq(Text)
        BY <2>2, <2>3
      <4> QED
        BY <4>1, FlattenThreeParts, Zenon
    <3>4. Associates(p, new, s)
      <4> HIDE DEF p, new, s
      <4> QED
        BY <3>1, Associative, Zenon DEF Text
    <3>2. L = l1 \o (k2 \o l3)
      BY <2>3, <2>4, <2>5
    <3>3. FlattenSeq(L) = FlattenSeq(l1 \o (k2 \o l3))
      BY <3>2, Zenon
    <3> QED
      BY <3>1, <3>3, <3>4, Zenon DEF Associates
  <2>8. Len(l2) = m /\ Len(k2) = m /\ Len(expected) = m /\ Len(replaced) = m
    BY <1>4, <2>1, <2>2, <2>3
  <2>9. WordsOf(old) = WordsOf(v.expected)
    <3>1. \A j \in 1 .. m : WordsOf(l2[j]) = WordsOf(expected[j])
      BY <1>14, <2>1, <2>2
    <3>2. WordsOf(old) = FlattenSeq([k \in 1 .. Len(l2) |-> WordsOf(l2[k])])
      BY <2>2, WordsOfFlatten
    <3>3. WordsOf(FlattenSeq(expected))
            = FlattenSeq([k \in 1 .. Len(expected) |-> WordsOf(expected[k])])
      BY <1>1, WordsOfFlatten
    <3> HIDE DEF m, old
    <3>4. [k \in 1 .. m |-> WordsOf(l2[k])] = [k \in 1 .. m |-> WordsOf(expected[k])]
      BY <3>1
    <3> QED
      BY <1>1, <2>8, <3>2, <3>3, <3>4
  <2>10. WordsOf(new) = WordsOf(v.replacement)
    <3>1. \A j \in 1 .. m : WordsOf(k2[j]) = WordsOf(replaced[j])
      BY <1>13, <2>1, <2>3
    <3>2. WordsOf(new) = FlattenSeq([k \in 1 .. Len(k2) |-> WordsOf(k2[k])])
      BY <2>3, WordsOfFlatten
    <3>3. WordsOf(FlattenSeq(replaced))
            = FlattenSeq([k \in 1 .. Len(replaced) |-> WordsOf(replaced[k])])
      BY <1>1, WordsOfFlatten
    <3> HIDE DEF m, new
    <3>4. [k \in 1 .. m |-> WordsOf(k2[k])] = [k \in 1 .. m |-> WordsOf(replaced[k])]
      BY <3>1
    <3> QED
      BY <1>1, <2>8, <3>2, <3>3, <3>4
  <2> HIDE DEF p, old, new, s
  <2> QED
    BY <2>6, <2>7, <2>9, <2>10 DEF StretchReplaced
<1>17. ASSUME NEW x \in Quotes, NEW k \in 1 .. n, x \in Range(L[k])
       PROVE  x \in Range(t) \/ x \in Range(v.replacement)
  <2>1. CASE k \in start .. start + m - 1
    <3> DEFINE j == k - start + 1
               c == lines[k]
               z == EolOf(c)
               a == adjustIndentation(replaced[j], expected[j], c)
    <3>1. j \in 1 .. m
      BY <1>5, <1>7, <2>1
    <3>2. L[k] = a \o z
      BY <1>5, <2>1 DEF L
    <3> HIDE DEF j
    <3>3. a \in Text /\ \A y \in Range(a) : y = "sp" \/ y \in Range(replaced[j])
      BY <1>8, <1>9, <3>1, AdjustOf
    <3>4. z \in Text /\ TextOf(c) \in Text /\ c = TextOf(c) \o z
      BY <1>8, LineParts
    <3>5. replaced[j] \in Text
      BY <1>9, <3>1
    <3> DEFINE b == TextOf(c)
               rj == replaced[j]
    <3>6. a \in Seq(Token) /\ z \in Seq(Token) /\ b \in Seq(Token) /\ c = b \o z
          /\ \A y \in Range(a) : y = "sp" \/ y \in Range(rj)
      BY <3>3, <3>4, <3>5 DEF Text
    <3>7. c = lines[k] /\ rj = replaced[j] /\ x # "sp"
      BY QuotesApart
    <3> HIDE DEF a, z, b, c, rj, L
    <3>8. x \in Range(a) \cup Range(z)
      BY <1>17, <3>2, <3>6, RangeConcatenation
    <3>9. x \in Range(z) => x \in Range(c)
      BY <3>6, RangeConcatenation
    <3>10. x \in Range(a) => x \in Range(rj)
      BY <3>6, <3>7
    <3>11. x \in Range(c) => x \in Range(t)
      BY <1>1, <3>7, RangeOfFlatten
    <3>12. x \in Range(rj) => x \in Range(v.replacement)
      BY <1>1, <1>4, <3>1, <3>7, RangeOfFlatten
    <3> QED
      BY <3>8, <3>9, <3>10, <3>11, <3>12
  <2>2. CASE k \notin start .. start + m - 1
    <3>1. L[k] = lines[k]
      BY <1>12, <2>2
    <3> QED
      BY <1>1, <1>17, <3>1, RangeOfFlatten
  <2> QED
    BY <2>1, <2>2
<1>18. ASSUME NEW x \in Quotes, x \in Range(v.expected) PROVE x \in Range(t)
  <2>1. PICK j \in 1 .. m : x \in Range(expected[j])
    BY <1>1, <1>18, RangeOfFlatten
  <2> DEFINE k == start + j - 1
  <2>2. k \in 1 .. n
    BY <1>5, <1>7
  <2>3. Trimmed(lines[k]) = Trimmed(expected[j])
    BY <1>4, <1>5, <1>6
  <2> HIDE DEF k
  <2>4. x \notin Eols \cup {"sp"}
    BY QuotesApart
  <2>5. x \in Range(Trimmed(expected[j]))
    BY <1>9, <2>1, <2>4, TrimmedRange
  <2>6. x \in Range(lines[k])
    BY <1>8, <2>2, <2>3, <2>4, <2>5, TrimmedRange
  <2> QED
    BY <1>1, <2>2, <2>6, RangeOfFlatten
<1>19. QuotesWritten(t, FlattenSeq(L), v.expected, v.replacement)
  <2>1. ASSUME NEW x \in Quotes, x \in Range(FlattenSeq(L))
        PROVE  x \in Range(t) \/ x \in Range(v.replacement)
    <3>1. PICK k \in 1 .. n : x \in Range(L[k])
      BY <1>11, <2>1, RangeOfFlatten
    <3> QED
      BY <1>17, <3>1
  <2> QED
    BY <1>18, <2>1 DEF QuotesWritten
<1> QED
  BY <1>3, <1>15, <1>16, <1>19 DEF Edited, Outcome

-----------------------------------------------------------------------------
\* Quoting.

\* A text without fences is left by stripMarkdownFence.
LEMMA UnfencedStays ==
  ASSUME NEW t \in Text, "fence" \notin Range(t)
  PROVE  stripMarkdownFence(t) = t
<1> DEFINE S == Eols \cup {"sp"}
           f == TrimOf(t, S)
<1>1. stripMarkdownFence(t) = t \/ (f # <<>> /\ Head(f) = "fence")
  BY DEF stripMarkdownFence
<1> HIDE DEF S
<1>2. PICK p \in Text, q \in Text :
             /\ f \in Text
             /\ t = p \o (f \o q)
             /\ \A i \in 1 .. Len(p) : p[i] \in S
             /\ \A i \in 1 .. Len(q) : q[i] \in S
  BY TrimParts
<1> HIDE DEF f
<1>3. Range(t) = Range(p) \cup Range(f) \cup Range(q)
  BY <1>2, RangeOfParts
<1>4. f # <<>> => Head(f) \in Range(f)
  <2>1. f \in Seq(Token)
    BY <1>2 DEF Text
  <2>2. f # <<>> => Len(f) \in Nat \ {0} /\ Head(f) = f[1]
    BY <2>1
  <2>3. f # <<>> => 1 \in 1 .. Len(f)
    BY <2>2
  <2> QED
    BY <2>1, <2>2, <2>3, RangeOf
<1> QED
  BY <1>1, <1>3, <1>4

\* A numbered line begins with its number or with spaces before it.
LEMMA NumberedHas ==
  ASSUME NEW l \in Text, IsNumbered(l)
  PROVE  /\ "num" \in Range(l)
         /\ l[1] = "sp" \/ l[1] = "num"
<1> DEFINE n == Indentation(l)
<1>1. n \in 0 .. Len(l) /\ \A i \in 1 .. n : l[i] = "sp"
  BY IndentationOf
<1>2. n < Len(l) /\ l[n + 1] = "num"
  BY DEF IsNumbered
<1> HIDE DEF n
<1>3. l \in Seq(Token) /\ Len(l) \in Nat
  BY DEF Text
<1>4. n + 1 \in 1 .. Len(l)
  BY <1>1, <1>2, <1>3
<1>5. "num" \in Range(l)
  BY <1>2, <1>3, <1>4, RangeOf
<1>6. CASE n = 0
  BY <1>2, <1>5, <1>6
<1>7. CASE n # 0
  <2>1. 1 \in 1 .. n
    BY <1>1, <1>7
  <2> QED
    BY <1>1, <1>5, <2>1
<1> QED
  BY <1>6, <1>7

\* The first line begins as the text does.
LEMMA FirstOfFirst ==
  ASSUME NEW t \in Text, t # <<>>
  PROVE  /\ Len(splitLogicalLines(t)) \in Nat \ {0}
         /\ splitLogicalLines(t)[1] \in Text /\ splitLogicalLines(t)[1] # <<>>
         /\ splitLogicalLines(t)[1][1] = t[1]
<1> DEFINE ls == splitLogicalLines(t)
           l == ls[1]
           rest == Tail(ls)
<1>1. ls \in Seq(Text) /\ IsLines(ls) /\ FlattenSeq(ls) = t /\ ls # <<>>
  BY SplitIsLines, SplitLast
<1> HIDE DEF ls
<1>2. Len(ls) \in Nat \ {0} /\ 1 \in 1 .. Len(ls)
  BY <1>1
<1>3. l \in Text /\ l # <<>>
  BY <1>1, <1>2 DEF IsLines, IsLine
<1>4. rest \in Seq(Text) /\ ls = <<l>> \o rest
  <2>1. rest \in Seq(Text) /\ Len(rest) = Len(ls) - 1
        /\ \A i \in 1 .. Len(ls) - 1 : rest[i] = ls[i + 1]
    BY <1>1, HeadTailProperties
  <2> HIDE DEF rest, l
  <2>2. <<l>> \in Seq(Text) /\ Len(<<l>>) = 1 /\ <<l>>[1] = l
    BY <1>3
  <2> DEFINE o == <<l>>
  <2>3. o \in Seq(Text) /\ Len(o) = 1 /\ o[1] = l
    BY <2>2
  <2> HIDE DEF o
  <2> DEFINE v == o \o rest
  <2>4. /\ v \in Seq(Text) /\ Len(v) = Len(ls)
        /\ v[1] = l /\ \A i \in 2 .. Len(ls) : v[i] = rest[i - 1]
    <3>1. /\ v \in Seq(Text) /\ Len(v) = Len(o) + Len(rest)
          /\ \A i \in 1 .. Len(o) + Len(rest) :
               v[i] = IF i <= Len(o) THEN o[i] ELSE rest[i - Len(o)]
      <4>1. o \in Seq(Text) /\ rest \in Seq(Text)
        BY <2>1, <2>3
      <4> QED
        BY <4>1, ConcatProperties
    <3> HIDE DEF v
    <3> QED
      BY <1>2, <2>1, <2>3, <3>1
  <2> HIDE DEF v
  <2>5. \A i \in 1 .. Len(ls) : v[i] = ls[i]
    <3> TAKE i \in 1 .. Len(ls)
    <3>1. CASE i = 1
      BY <2>4, <3>1 DEF l
    <3>2. CASE i # 1
      <4>1. i \in 2 .. Len(ls) /\ i - 1 \in 1 .. Len(ls) - 1 /\ i - 1 + 1 = i
        BY <1>2, <3>2
      <4> QED
        BY <2>1, <2>4, <4>1
    <3> QED
      BY <3>1, <3>2
  <2>6. v = ls
    BY <1>1, <2>4, <2>5, SeqEqual
  <2> QED
    BY <2>1, <2>6 DEF v, o
<1> HIDE DEF rest, l
<1>5. FlattenSeq(<<l>> \o rest) = l \o FlattenSeq(rest)
  <2>1. <<l>> \in Seq(Text)
    BY <1>3
  <2>2. FlattenSeq(<<l>> \o rest) = FlattenSeq(<<l>>) \o FlattenSeq(rest)
    BY <1>4, <2>1, FlattenConcat DEF Text
  <2>3. FlattenSeq(<<l>>) = l
    BY <1>3, FlattenOne DEF Text
  <2> QED
    BY <2>2, <2>3
<1>6. t = l \o FlattenSeq(rest)
  BY <1>1, <1>4, <1>5
<1>7. t[1] = l[1]
  <2> DEFINE y == FlattenSeq(rest)
  <2>1. y \in Seq(Token) /\ l \in Seq(Token)
    BY <1>3, <1>4, FlattenType DEF Text
  <2> HIDE DEF y
  <2>2. 1 \in 1 .. Len(l)
    BY <1>3, <2>1
  <2>3. (l \o y)[1] = l[1]
    BY <2>1, <2>2, ConcatProperties
  <2> QED
    BY <1>6, <2>3 DEF y
<1> QED
  BY <1>2, <1>3, <1>7 DEF l, ls

\* A text without numbers, or that begins with a fence, is left by
\* stripNumberedLinePrefixes.
LEMMA UnnumberedStays ==
  ASSUME NEW t \in Text, "num" \notin Range(t) \/ (t # <<>> /\ t[1] = "fence")
  PROVE  stripNumberedLinePrefixes(t) = t
<1> DEFINE ls == splitLogicalLines(t)
           written == {k \in DOMAIN ls : Trimmed(ls[k]) # <<>>}
<1>1. ls \in Seq(Text) /\ IsLines(ls) /\ FlattenSeq(ls) = t /\ DOMAIN ls = 1 .. Len(ls)
      /\ Len(ls) \in Nat
  BY SplitIsLines
<1>2. \A k \in 1 .. Len(ls) : ls[k] \in Text /\ IsLine(ls[k])
  BY <1>1 DEF IsLines
<1>3. SUFFICES ~AllNumbered(ls)
  BY DEF stripNumberedLinePrefixes
<1>4. AllNumbered(ls) => written # {} /\ \A k \in written : IsNumbered(ls[k])
  BY DEF AllNumbered
<1>5. CASE "num" \notin Range(t)
  <2>1. \A k \in 1 .. Len(ls) : "num" \notin Range(ls[k])
    <3> HIDE DEF ls
    <3> QED
      BY <1>1, <1>5, RangeOfFlatten
  <2>2. \A k \in 1 .. Len(ls) : ~IsNumbered(ls[k])
    <3> HIDE DEF ls
    <3> QED
      BY <1>2, <2>1, NumberedHas
  <2>3. written \in SUBSET (1 .. Len(ls))
    BY <1>1
  <2> HIDE DEF written, ls
  <2> QED
    BY <1>4, <2>2, <2>3
<1>6. CASE t # <<>> /\ t[1] = "fence"
  <2>1. Len(ls) \in Nat \ {0} /\ ls[1] # <<>> /\ ls[1][1] = "fence"
    BY <1>6, FirstOfFirst
  <2> HIDE DEF ls
  <2>2. 1 \in 1 .. Len(ls) /\ ls[1] \in Text /\ IsLine(ls[1])
    BY <1>2, <2>1
  <2>3. "fence" \in Range(ls[1])
    <3>1. ls[1] \in Seq(Token)
      BY <2>2 DEF Text
    <3>2. 1 \in 1 .. Len(ls[1])
      BY <2>1, <3>1
    <3> QED
      BY <2>1, <3>1, <3>2, RangeOf
  <2>4. Trimmed(ls[1]) # <<>>
    <3>1. "fence" \in Range(Trimmed(ls[1]))
      BY <2>2, <2>3, TrimmedRange DEF Eols
    <3> QED
      BY <3>1 DEF Range
  <2>5. ~IsNumbered(ls[1])
    BY <2>1, <2>2, NumberedHas
  <2> QED
    BY <1>1, <1>4, <2>2, <2>4, <2>5
<1> QED
  BY <1>5, <1>6

\* A line as read_file numbers it loses the number and its space, and no more.
LEMMA LineWithoutNumber ==
  ASSUME NEW l \in Text, Len(l) >= 2, l[1] = "num", l[2] = "sp",
         ~Has(DropFirst(l, 2), {"num"})
  PROVE  /\ IsNumbered(l) /\ WithoutNumber(l) \in Text
         /\ "num" \notin Range(WithoutNumber(l))
         /\ \A x \in Range(l) : x \in Range(WithoutNumber(l)) \cup {"num", "sp"}
         /\ \A x \in Range(WithoutNumber(l)) : x \in Range(l)
<1> DEFINE n == Indentation(l)
           r == DropFirst(l, 1)
<1>1. l \in Seq(Token) /\ Len(l) \in Nat
  BY DEF Text
<1>2. n = 0
  <2>1. n \in 0 .. Len(l) /\ \A i \in 1 .. n : l[i] = "sp"
    BY IndentationOf
  <2> HIDE DEF n
  <2>2. n # 0 => 1 \in 1 .. n
    BY <1>1, <2>1
  <2> QED
    BY <2>1, <2>2
<1>3. IsNumbered(l)
  BY <1>1, <1>2 DEF IsNumbered
<1>4. /\ r \in Seq(Token) /\ Len(r) = Len(l) - 1
      /\ \A i \in 1 .. Len(l) - 1 : r[i] = l[1 + i]
  <2>1. 1 \in 0 .. Len(l)
    BY <1>1
  <2> QED
    BY <1>1, <2>1, DropFirstOf
<1>5. DropFirst(l, n + 1) = r
  BY <1>2
<1>6. WithoutNumber(l) = IF r # <<>> /\ Head(r) = "sp" THEN Tail(r) ELSE r
  BY <1>3, <1>5 DEF WithoutNumber
<1> HIDE DEF r, n
<1>7. r # <<>> /\ Head(r) = "sp"
  <2>1. r # <<>>
    BY <1>1, <1>4
  <2>2. Head(r) = r[1]
    BY <1>4, <2>1
  <2>3. r[1] = l[2]
    BY <1>1, <1>4
  <2> QED
    BY <2>1, <2>2, <2>3
<1> DEFINE w == WithoutNumber(l)
<1>8. w = Tail(r)
  BY <1>6, <1>7
<1>9. /\ w \in Seq(Token) /\ Len(w) = Len(l) - 2
      /\ \A i \in 1 .. Len(l) - 2 : w[i] = l[i + 2]
  <2>1. w \in Seq(Token) /\ Len(w) = Len(r) - 1
        /\ \A i \in 1 .. Len(r) - 1 : w[i] = r[i + 1]
    BY <1>4, <1>7, <1>8, HeadTailProperties
  <2> HIDE DEF w
  <2>2. \A i \in 1 .. Len(l) - 2 : i \in 1 .. Len(r) - 1 /\ i + 1 \in 1 .. Len(l) - 1
                                   /\ 1 + (i + 1) = i + 2
    BY <1>1, <1>4
  <2> QED
    BY <1>1, <1>4, <2>1, <2>2
<1> HIDE DEF w
<1>10. "num" \notin Range(w)
  <2> DEFINE d == DropFirst(l, 2)
  <2>1. /\ d \in Seq(Token) /\ Len(d) = Len(l) - 2
        /\ \A i \in 1 .. Len(l) - 2 : d[i] = l[2 + i]
    <3>1. 2 \in 0 .. Len(l)
      BY <1>1
    <3> QED
      BY <1>1, <3>1, DropFirstOf
  <2>2. "num" \notin Range(d)
    BY HasOf
  <2> HIDE DEF d
  <2>3. \A i \in 1 .. Len(l) - 2 : w[i] = d[i]
    BY <1>9, <2>1
  <2> QED
    BY <1>9, <2>1, <2>2, <2>3, RangeOf
<1>11. ASSUME NEW x \in Range(l) PROVE x \in Range(w) \cup {"num", "sp"}
  <2>1. PICK i \in 1 .. Len(l) : l[i] = x
    BY <1>1, RangeOf
  <2>2. CASE i \in 1 .. 2
    BY <2>1, <2>2
  <2>3. CASE i \notin 1 .. 2
    <3> DEFINE j == i - 2
    <3>1. j \in 1 .. Len(l) - 2 /\ j + 2 = i
      BY <1>1, <2>1, <2>3
    <3> HIDE DEF j
    <3>2. j \in 1 .. Len(w) /\ w[j] = x
      BY <1>9, <2>1, <3>1
    <3> QED
      BY <1>9, <3>2, RangeOf
  <2> QED
    BY <2>2, <2>3
<1>12. ASSUME NEW x \in Range(w) PROVE x \in Range(l)
  <2>1. PICK i \in 1 .. Len(w) : w[i] = x
    BY <1>9, RangeOf
  <2>2. i + 2 \in 1 .. Len(l) /\ l[i + 2] = x
    BY <1>1, <1>9, <2>1
  <2> QED
    BY <1>1, <2>2, RangeOf
<1> QED
  BY <1>3, <1>9, <1>10, <1>11, <1>12 DEF w, Text

\* A text as read_file numbers it loses the numbers, and no other quoting.
LEMMA UnnumberedQuotes ==
  ASSUME NEW t \in Text, NumberedText(t)
  PROVE  /\ stripNumberedLinePrefixes(t) \in Text
         /\ "num" \notin Range(stripNumberedLinePrefixes(t))
         /\ \A x \in {"fence", "esc"} :
              x \in Range(t) => x \in Range(stripNumberedLinePrefixes(t))
         /\ \A x \in Range(stripNumberedLinePrefixes(t)) : x \in Range(t)
<1> DEFINE ls == splitLogicalLines(t)
           n == Len(ls)
           u == stripNumberedLinePrefixes(t)
           written == {k \in DOMAIN ls : Trimmed(ls[k]) # <<>>}
           W == [k \in DOMAIN ls |-> WithoutNumber(ls[k])]
<1>1. ls \in Seq(Text) /\ IsLines(ls) /\ FlattenSeq(ls) = t /\ DOMAIN ls = 1 .. n
      /\ n \in Nat
  BY SplitIsLines
<1>2. \A k \in 1 .. n :
        /\ ls[k] \in Text /\ IsLine(ls[k])
        /\ Len(ls[k]) >= 2 /\ ls[k][1] = "num" /\ ls[k][2] = "sp"
        /\ ~Has(DropFirst(ls[k], 2), {"num"})
  BY <1>1 DEF IsLines, NumberedText
<1>3. AllNumbered(ls) <=> written # {} /\ \A k \in written : IsNumbered(ls[k])
  BY DEF AllNumbered
<1>4. u = IF AllNumbered(ls) THEN FlattenSeq(W) ELSE t
  BY DEF stripNumberedLinePrefixes
<1>5. u \in Text
  BY StripNumbersOf
<1> HIDE DEF ls, u
<1>6. ASSUME NEW k \in 1 .. n
      PROVE  /\ IsNumbered(ls[k]) /\ WithoutNumber(ls[k]) \in Text
             /\ "num" \notin Range(WithoutNumber(ls[k]))
             /\ \A x \in Range(ls[k]) :
                  x \in Range(WithoutNumber(ls[k])) \cup {"num", "sp"}
             /\ \A x \in Range(WithoutNumber(ls[k])) : x \in Range(ls[k])
             /\ Trimmed(ls[k]) # <<>>
  <2> DEFINE l == ls[k]
  <2>1. /\ l \in Text /\ IsLine(l)
        /\ Len(l) >= 2 /\ l[1] = "num" /\ l[2] = "sp"
        /\ ~Has(DropFirst(l, 2), {"num"})
    BY <1>2
  <2> HIDE DEF l
  <2>2. /\ IsNumbered(l) /\ WithoutNumber(l) \in Text
        /\ "num" \notin Range(WithoutNumber(l))
        /\ \A x \in Range(l) : x \in Range(WithoutNumber(l)) \cup {"num", "sp"}
        /\ \A x \in Range(WithoutNumber(l)) : x \in Range(l)
    BY <2>1, LineWithoutNumber
  <2>3. "num" \in Range(Trimmed(l))
    <3>1. "num" \in Range(l)
      BY <2>1, <2>2, NumberedHas
    <3> QED
      BY <2>1, <3>1, TrimmedRange DEF Eols
  <2>4. Trimmed(l) # <<>>
    BY <2>3 DEF Range
  <2> QED
    BY <2>2, <2>4 DEF l
<1>7. CASE n = 0
  <2>1. ls = <<>>
    BY <1>1, <1>7
  <2>2. t = <<>>
    BY <1>1, <2>1, FlattenEmpty
  <2>3. written = {}
    BY <2>1
  <2>4. u = <<>>
    BY <1>3, <1>4, <2>2, <2>3
  <2> QED
    BY <1>5, <2>2, <2>4 DEF u, Range
<1>8. CASE n # 0
  <2>1. AllNumbered(ls)
    <3>1. 1 \in 1 .. n
      BY <1>1, <1>8
    <3>2. written = 1 .. n
      BY <1>1, <1>6
    <3> HIDE DEF written
    <3> QED
      BY <1>3, <1>6, <3>1, <3>2
  <2>2. W \in Seq(Text) /\ Len(W) = n /\ \A k \in 1 .. n : W[k] = WithoutNumber(ls[k])
    <3>1. W = [k \in 1 .. n |-> WithoutNumber(ls[k])]
      BY <1>1
    <3> QED
      BY <1>1, <1>6, <3>1
  <2>3. u = FlattenSeq(W)
    BY <1>4, <2>1
  <2> HIDE DEF W, n
  <2>4. "num" \notin Range(u)
    <3>1. \A k \in 1 .. n : "num" \notin Range(W[k])
      BY <1>6, <2>2
    <3> QED
      BY <2>2, <2>3, <3>1, RangeOfFlatten
  <2>5. ASSUME NEW x \in {"fence", "esc"}, x \in Range(t) PROVE x \in Range(u)
    <3>1. PICK k \in 1 .. n : x \in Range(ls[k])
      BY <1>1, <2>5, RangeOfFlatten DEF n
    <3>2. x \in Range(W[k])
      BY <1>6, <2>2, <3>1
    <3> QED
      BY <2>2, <2>3, <3>2, RangeOfFlatten
  <2>6. ASSUME NEW x \in Range(u) PROVE x \in Range(t)
    <3>1. PICK k \in 1 .. n : x \in Range(W[k])
      BY <2>2, <2>3, <2>6, RangeOfFlatten
    <3>2. x \in Range(ls[k])
      BY <1>6, <2>2, <3>1
    <3> QED
      BY <1>1, <3>1, <3>2, RangeOfFlatten DEF n
  <2> QED
    BY <1>5, <2>4, <2>5, <2>6 DEF u
<1> QED
  BY <1>7, <1>8

\* How Min is found.
LEMMA MinIs ==
  ASSUME NEW T \in SUBSET Nat, NEW n \in T, \A m \in T : n <= m
  PROVE  Min(T) = n
<1> DEFINE k == Min(T)
<1>1. k \in T /\ \A m \in T : k <= m
  BY MinOf
<1> HIDE DEF k
<1>2. k <= n /\ n <= k /\ k \in Nat /\ n \in Nat
  BY <1>1
<1> QED
  BY <1>2 DEF k

\* How Max is found.
LEMMA MaxIs ==
  ASSUME NEW b \in Nat, NEW T \in SUBSET (0 .. b), NEW n \in T, \A m \in T : m <= n
  PROVE  Max(T) = n
<1> DEFINE k == Max(T)
<1>1. k \in T /\ \A m \in T : m <= k
  BY MaxOf
<1> HIDE DEF k
<1>2. k <= n /\ n <= k
  BY <1>1
<1>3. k \in 0 .. b /\ n \in 0 .. b
  BY <1>1
<1> QED
  BY <1>2, <1>3 DEF k

\* Of a text in a fence stripMarkdownFence leaves what the fence encloses, and
\* takes no number and no escaped line break with it.
LEMMA UnfencedIs ==
  ASSUME NEW t \in Text, NEW i \in Nat, FencedText(t, i)
  PROVE  /\ stripMarkdownFence(t) = FenceBody(t, i)
         /\ FenceBody(t, i) \in Text
         /\ \A x \in {"num", "esc"} : x \in Range(t) => x \in Range(FenceBody(t, i))
         /\ t # <<>> /\ t[1] = "fence"
<1> DEFINE n == Len(t)
           S == Eols \cup {"sp"}
           kept == {j \in DOMAIN t : t[j] \notin S}
           breaks == {j \in DOMAIN t : t[j] \in Eols}
<1>1. t \in Seq(Token) /\ n \in Nat /\ DOMAIN t = 1 .. n
  BY DEF Text
<1>2. /\ i \in 2 .. n - 2 /\ t[1] = "fence" /\ t[n] = "fence"
      /\ t[i] \in Eols /\ t[n - 1] \in Eols
      /\ \A j \in 2 .. i - 1 : t[j] \in Words
  BY DEF FencedText
<1>3. "fence" \notin S
  BY DEF Eols
<1>4. 1 \in 1 .. n /\ n \in 1 .. n /\ i \in 1 .. n /\ n - 1 \in 1 .. n /\ i # n - 1
      /\ n - 1 \in Nat /\ t # <<>>
  <2> HIDE DEF n
  <2>1. i \in 2 .. n - 2 /\ n \in Nat
    BY <1>1, <1>2
  <2>2. n # 0 /\ Len(<<>>) = 0
    BY <2>1
  <2> QED
    BY <2>1, <2>2 DEF n
<1>5. TrimOf(t, S) = t
  <2> HIDE DEF S
  <2>1. kept \in SUBSET (0 .. n) /\ kept \in SUBSET Nat /\ kept \in SUBSET (1 .. n)
    <3> SUFFICES ASSUME NEW k \in kept PROVE k \in 0 .. n /\ k \in Nat /\ k \in 1 .. n
      BY Zenon
    <3>1. k \in 1 .. n
      BY <1>1
    <3> QED
      BY <1>1, <3>1
  <2>2. 1 \in kept /\ n \in kept
    BY <1>1, <1>2, <1>3, <1>4
  <2>3. TrimOf(t, S) = IF kept = {} THEN <<>> ELSE SubSeq(t, Min(kept), Max(kept))
    BY DEF TrimOf
  <2> HIDE DEF kept
  <2>4. \A m \in kept : 1 <= m /\ m <= n
    BY <1>1, <2>1
  <2>6. Min(kept) = 1
    BY <2>1, <2>2, <2>4, MinIs
  <2>7. Max(kept) = n
    BY <1>1, <2>1, <2>2, <2>4, MaxIs
  <2>8. SubSeq(t, 1, n) = t
    BY <1>1, SubSeqFull
  <2> QED
    BY <2>2, <2>3, <2>6, <2>7, <2>8
<1>6. /\ \A k \in breaks : k \in 1 .. n /\ i <= k /\ k <= n - 1
      /\ i \in breaks /\ n - 1 \in breaks
  <2>1. \A k \in 1 .. n : t[k] \in Eols => i <= k /\ k <= n - 1
    <3> TAKE k \in 1 .. n
    <3> HAVE t[k] \in Eols
    <3>1. k # 1 /\ k # n
      BY <1>2, <1>3
    <3>2. k \notin 2 .. i - 1
      BY <1>2, TokensApart DEF Eols
    <3> HIDE DEF n
    <3>3. i \in 2 .. n - 2
      BY <1>2
    <3> QED
      BY <1>1, <3>1, <3>2, <3>3
  <2> QED
    BY <1>1, <1>2, <1>4, <2>1
<1>7. Min(breaks) = i /\ Max(breaks) = n - 1 /\ Cardinality(breaks) >= 2
  <2> DEFINE m == n - 1
  <2>1. m \in Nat /\ i \in breaks /\ m \in breaks /\ i # m /\ i \in Nat
        /\ \A k \in breaks : k \in 1 .. n /\ i <= k /\ k <= m
    BY <1>4, <1>6
  <2> HIDE DEF breaks, m
  <2>2. breaks \in SUBSET (0 .. n) /\ breaks \in SUBSET Nat /\ breaks \in SUBSET (1 .. n)
    <3> SUFFICES ASSUME NEW k \in breaks PROVE k \in 0 .. n /\ k \in Nat /\ k \in 1 .. n
      BY Zenon
    <3>1. k \in 1 .. n
      BY <2>1
    <3> QED
      BY <1>1, <3>1
  <2>5. Min(breaks) = i
    BY <2>1, <2>2, MinIs
  <2>6. Max(breaks) = m
    BY <1>1, <2>1, <2>2, MaxIs
  <2>7. Cardinality(breaks) >= 2
    <3>1. IsFiniteSet({i}) /\ Cardinality({i}) = 1
      BY FS_Singleton
    <3>2. Cardinality({i} \cup {m}) = 2
      <4>1. m \notin {i}
        BY <2>1
      <4>2. Cardinality({i} \cup {m})
              = IF m \in {i} THEN Cardinality({i}) ELSE Cardinality({i}) + 1
        BY <3>1, FS_AddElement
      <4> QED
        BY <3>1, <4>1, <4>2
    <3>3. {i} \cup {m} \in SUBSET breaks
      BY <2>1
    <3>4. IsFiniteSet(breaks)
      <4>1. IsFiniteSet(1 .. n)
        BY <1>1, FS_Interval
      <4> QED
        BY <2>2, <4>1, FS_Subset
    <3>5. Cardinality({i} \cup {m}) <= Cardinality(breaks)
      BY <3>3, <3>4, FS_Subset
    <3>6. Cardinality(breaks) \in Nat
      BY <3>4, FS_CardinalityType
    <3> QED
      BY <3>2, <3>5, <3>6
  <2> QED
    BY <2>5, <2>6, <2>7 DEF m
<1>8. t # <<>> /\ Head(t) = "fence" /\ Last(t) = "fence"
  <2>1. t # <<>>
    BY <1>4
  <2>2. Head(t) = t[1]
    BY <1>1, <2>1
  <2>3. Last(t) = t[n]
    BY <1>1, <2>1, LastFront
  <2> QED
    BY <1>2, <2>1, <2>2, <2>3
<1>9. stripMarkdownFence(t) = SubSeq(t, i + 1, n - 2)
  <2> DEFINE f == TrimOf(t, Eols \cup {"sp"})
             b == {j \in DOMAIN f : f[j] \in Eols}
  <2>1. f = t /\ b = breaks
    BY <1>5
  <2>2. stripMarkdownFence(t)
          = IF /\ f # <<>> /\ Head(f) = "fence" /\ Last(f) = "fence"
               /\ Cardinality(b) >= 2 /\ Max(b) = Len(f) - 1
              THEN SubSeq(f, Min(b) + 1, Len(f) - 2)
              ELSE t
    BY DEF stripMarkdownFence
  <2> HIDE DEF f, b, breaks
  <2> QED
    BY <1>7, <1>8, <2>1, <2>2
<1> DEFINE c == i + 1
           d == n - 2
           body == SubSeq(t, c, d)
<1>10. c \in 1 .. n + 1 /\ d \in 0 .. n /\ c <= d + 1
  BY <1>1, <1>2
<1>11. /\ body \in Text
       /\ \A x : x \in Range(body) <=> \E j \in c .. d : t[j] = x
  <2> HIDE DEF c, d
  <2> QED
    BY <1>10, RangeOfCut
<1>12. ASSUME NEW x \in {"num", "esc"}, x \in Range(t) PROVE x \in Range(body)
  <2>1. PICK j \in 1 .. n : t[j] = x
    BY <1>1, <1>12, RangeOf
  <2>2. x \notin Words /\ x \notin Eols /\ x # "fence"
    BY TokensApart DEF Eols
  <2>3. j # 1 /\ j # n /\ j # i /\ j # n - 1 /\ j \notin 2 .. i - 1
    BY <1>2, <2>1, <2>2
  <2>4. j \in c .. d
    <3> HIDE DEF n
    <3>1. i \in 2 .. n - 2
      BY <1>2
    <3> QED
      BY <1>1, <2>1, <2>3, <3>1
  <2> HIDE DEF body, c, d
  <2> QED
    BY <1>11, <2>1, <2>4
<1> QED
  BY <1>2, <1>8, <1>9, <1>11, <1>12 DEF FenceBody

\* A text without fences and numbers is read as it is.
LEMMA PlainReadings ==
  ASSUME NEW t \in Text, QuotedAs(t, "plain")
  PROVE  /\ stripMarkdownFence(t) = t
         /\ stripNumberedLinePrefixes(t) = t
<1>1. ~Has(t, {"fence", "num"})
  BY DEF QuotedAs
<1>2. "fence" \notin Range(t) /\ "num" \notin Range(t)
  BY <1>1, HasOf
<1> QED
  BY <1>2, UnfencedStays, UnnumberedStays

\* Of a text with numbered lines only the numbers are taken away.
LEMMA NumberedReadings ==
  ASSUME NEW t \in Text, QuotedAs(t, "numbered")
  PROVE  /\ stripMarkdownFence(t) = t
         /\ "num" \notin Range(stripNumberedLinePrefixes(t))
         /\ \A x \in {"fence", "esc"} :
              x \in Range(t) => x \in Range(stripNumberedLinePrefixes(t))
<1>1. NumberedText(t) /\ ~Has(t, {"fence"})
  BY DEF QuotedAs
<1>2. "fence" \notin Range(t)
  BY <1>1, HasOf
<1> QED
  BY <1>1, <1>2, UnfencedStays, UnnumberedQuotes

\* Of a fenced text only the fence is taken away.
LEMMA FencedReadings ==
  ASSUME NEW t \in Text, QuotedAs(t, "fenced")
  PROVE  LET u == stripMarkdownFence(t)
         IN  /\ stripNumberedLinePrefixes(t) = t
             /\ "fence" \notin Range(u)
             /\ \A x \in {"num", "esc"} : x \in Range(t) => x \in Range(u)
             /\ stripNumberedLinePrefixes(u) = u
<1>1. PICK i \in DOMAIN t : FencedText(t, i) /\ ~Has(FenceBody(t, i), {"fence", "num"})
  BY DEF QuotedAs
<1>2. i \in Nat
  BY <1>1 DEF Text
<1> DEFINE u == FenceBody(t, i)
<1>3. /\ stripMarkdownFence(t) = u
      /\ u \in Text
      /\ \A x \in {"num", "esc"} : x \in Range(t) => x \in Range(u)
      /\ t # <<>> /\ t[1] = "fence"
  BY <1>1, <1>2, UnfencedIs
<1>4. ~Has(u, {"fence", "num"})
  BY <1>1
<1> HIDE DEF u
<1>5. "fence" \notin Range(u) /\ "num" \notin Range(u)
  BY <1>4, HasOf
<1>6. stripNumberedLinePrefixes(t) = t
  BY <1>3, UnnumberedStays
<1>7. stripNumberedLinePrefixes(u) = u
  BY <1>3, <1>5, UnnumberedStays
<1> QED
  BY <1>3, <1>5, <1>6, <1>7

\* Of a fenced text with numbered lines the fence is taken away, and the numbers
\* with it.
LEMMA FencedNumberedReadings ==
  ASSUME NEW t \in Text, QuotedAs(t, "fenced_numbered")
  PROVE  LET u == stripMarkdownFence(t)
             w == stripNumberedLinePrefixes(u)
         IN  /\ stripNumberedLinePrefixes(t) = t
             /\ "fence" \notin Range(u)
             /\ \A x \in {"num", "esc"} : x \in Range(t) => x \in Range(u)
             /\ "fence" \notin Range(w) /\ "num" \notin Range(w)
             /\ "esc" \in Range(t) => "esc" \in Range(w)
<1>1. PICK i \in DOMAIN t : /\ FencedText(t, i)
                            /\ NumberedText(FenceBody(t, i))
                            /\ ~Has(FenceBody(t, i), {"fence"})
  BY DEF QuotedAs
<1>2. i \in Nat
  BY <1>1 DEF Text
<1> DEFINE u == FenceBody(t, i)
           w == stripNumberedLinePrefixes(u)
<1>3. /\ stripMarkdownFence(t) = u
      /\ u \in Text
      /\ \A x \in {"num", "esc"} : x \in Range(t) => x \in Range(u)
      /\ t # <<>> /\ t[1] = "fence"
  BY <1>1, <1>2, UnfencedIs
<1>4. ~Has(u, {"fence"}) /\ NumberedText(u)
  BY <1>1
<1> HIDE DEF u
<1>5. "fence" \notin Range(u)
  BY <1>4, HasOf
<1>6. stripNumberedLinePrefixes(t) = t
  BY <1>3, UnnumberedStays
<1>7. /\ "num" \notin Range(w)
      /\ \A x \in {"fence", "esc"} : x \in Range(u) => x \in Range(w)
      /\ \A x \in Range(w) : x \in Range(u)
  BY <1>3, <1>4, UnnumberedQuotes
<1> HIDE DEF w
<1>8. "fence" \notin Range(w) /\ ("esc" \in Range(t) => "esc" \in Range(w))
  BY <1>3, <1>5, <1>7
<1> QED
  BY <1>3, <1>5, <1>6, <1>7, <1>8 DEF w

\* Texts that are quoted alike are read alike: a reading that keeps the quoting
\* of the replacement keeps that of the expected text.
LEMMA QuotingReadings ==
  ASSUME NEW e \in Text, NEW r \in Text, QuotedAlike(e, r)
  PROVE  /\ KeepsQuoting(stripMarkdownFence(e), stripMarkdownFence(r), e)
         /\ KeepsQuoting(stripNumberedLinePrefixes(e), stripNumberedLinePrefixes(r), e)
         /\ KeepsQuoting(stripNumberedLinePrefixes(stripMarkdownFence(e)),
                         stripNumberedLinePrefixes(stripMarkdownFence(r)), e)
<1> DEFINE fe == stripMarkdownFence(e)
           fr == stripMarkdownFence(r)
           ne == stripNumberedLinePrefixes(e)
           nr == stripNumberedLinePrefixes(r)
           be == stripNumberedLinePrefixes(fe)
           br == stripNumberedLinePrefixes(fr)
<1> SUFFICES KeepsQuoting(fe, fr, e) /\ KeepsQuoting(ne, nr, e) /\ KeepsQuoting(be, br, e)
  OBVIOUS
<1>1. CASE QuotedAs(e, "plain") /\ QuotedAs(r, "plain")
  <2>1. fe = e /\ ne = e
    BY <1>1, PlainReadings
  <2>2. be = e
    BY <2>1
  <2> HIDE DEF fe, ne, be, fr, nr, br
  <2> QED
    BY <2>1, <2>2 DEF KeepsQuoting
<1>2. CASE QuotedAs(e, "numbered") /\ QuotedAs(r, "numbered")
  <2>1. fe = e /\ \A x \in {"fence", "esc"} : x \in Range(e) => x \in Range(ne)
    BY <1>2, NumberedReadings
  <2>2. fr = r /\ "num" \notin Range(nr)
    BY <1>2, NumberedReadings
  <2>3. be = ne /\ br = nr
    BY <2>1, <2>2
  <2> HIDE DEF fe, ne, be, fr, nr, br
  <2> QED
    BY <2>1, <2>2, <2>3 DEF KeepsQuoting, Quotes
<1>3. CASE QuotedAs(e, "fenced") /\ QuotedAs(r, "fenced")
  <2>1. /\ ne = e /\ be = fe
        /\ \A x \in {"num", "esc"} : x \in Range(e) => x \in Range(fe)
    BY <1>3, FencedReadings
  <2>2. "fence" \notin Range(fr) /\ br = fr
    BY <1>3, FencedReadings
  <2> HIDE DEF fe, ne, be, fr, nr, br
  <2> QED
    BY <2>1, <2>2 DEF KeepsQuoting, Quotes
<1>4. CASE QuotedAs(e, "fenced_numbered") /\ QuotedAs(r, "fenced_numbered")
  <2>1. /\ ne = e
        /\ \A x \in {"num", "esc"} : x \in Range(e) => x \in Range(fe)
        /\ "esc" \in Range(e) => "esc" \in Range(be)
    BY <1>4, FencedNumberedReadings
  <2>2. "fence" \notin Range(fr) /\ "fence" \notin Range(br) /\ "num" \notin Range(br)
    BY <1>4, FencedNumberedReadings
  <2> HIDE DEF fe, ne, be, fr, nr, br
  <2> QED
    BY <2>1, <2>2 DEF KeepsQuoting, Quotes
<1>5. PICK style \in {"plain", "numbered", "fenced", "fenced_numbered"} :
        QuotedAs(e, style) /\ QuotedAs(r, style)
  BY DEF QuotedAlike
<1> HIDE DEF fe, ne, be, fr, nr, br
<1> QED
  BY <1>1, <1>2, <1>3, <1>4, <1>5

\* Decoding takes escaped line breaks away and no other quoting.
LEMMA DecodedQuotes ==
  ASSUME NEW e \in Text, NEW r \in Text
  PROVE  /\ KeepsQuoting(e, r, e)
         /\ KeepsQuoting(e, decodeEscapedText(r), e)
         /\ KeepsQuoting(decodeEscapedText(e), decodeEscapedText(r), e)
<1> DEFINE p == decodeEscapedText(e)
           q == decodeEscapedText(r)
<1>1. /\ p \in Text /\ Len(p) = Len(e)
      /\ \A i \in 1 .. Len(e) : p[i] = IF e[i] = "esc" THEN "lf" ELSE e[i]
      /\ q \in Text /\ Len(q) = Len(r)
      /\ \A i \in 1 .. Len(r) : q[i] = IF r[i] = "esc" THEN "lf" ELSE r[i]
  BY DecodeOf
<1> HIDE DEF p, q
<1>2. "esc" \notin Range(q)
  BY <1>1, RangeOf DEF Text
<1>3. ASSUME NEW x \in {"fence", "num"}, x \in Range(e) PROVE x \in Range(p)
  <2>1. PICK i \in 1 .. Len(e) : e[i] = x
    BY <1>3, RangeOf DEF Text
  <2>2. i \in 1 .. Len(p) /\ p[i] = x
    BY <1>1, <2>1
  <2> QED
    BY <1>1, <2>2, RangeOf DEF Text
<1> QED
  BY <1>2, <1>3 DEF KeepsQuoting, Quotes, p, q

\* Normalising line endings does not touch quoting.
LEMMA NormalizedQuotes ==
  ASSUME NEW t \in Text, NEW eol \in Eols, NEW x \in Quotes
  PROVE  x \in Range(normalizeLineEndings(t, eol)) <=> x \in Range(t)
<1> DEFINE p == normalizeLineEndings(t, eol)
<1>1. /\ p \in Text /\ Len(p) = Len(t)
      /\ \A i \in 1 .. Len(t) : p[i] = IF t[i] \in Eols THEN eol ELSE t[i]
  BY NormalizeOf
<1> HIDE DEF p
<1>2. x \notin Eols
  BY QuotesApart
<1>3. \A i \in 1 .. Len(t) : p[i] = x <=> t[i] = x
  BY <1>1, <1>2
<1>4. x \in Range(p) <=> \E i \in 1 .. Len(p) : p[i] = x
  BY <1>1, RangeOf DEF Text
<1>5. x \in Range(t) <=> \E i \in 1 .. Len(t) : t[i] = x
  BY RangeOf DEF Text
<1> QED
  BY <1>1, <1>3, <1>4, <1>5 DEF p

-----------------------------------------------------------------------------
\* Readings.

\* A reading of a call that may be tried: it says what the call says.
Fits(v, t, e, r) ==
  /\ v.expected \in Text /\ v.replacement \in Text
  /\ v.strategy \in {"exact", "decoded", "fenced", "numbered", "line_endings"}
  /\ AsAsked(v.expected, v.replacement, e, r)
  /\ v.strategy = "line_endings" =>
       \A i \in 1 .. Len(v.replacement) :
         v.replacement[i] \in Eols => v.replacement[i] = dominantEol(t)
  /\ QuotedAlike(e, r) => KeepsQuoting(v.expected, v.replacement, e)

\* dominantEol is a line ending.
LEMMA DominantEolType ==
  ASSUME NEW t
  PROVE  dominantEol(t) \in Eols
BY DEF dominantEol, Eols

\* A reading fits that says what the call says.
LEMMA FitsAsWritten ==
  ASSUME NEW t \in Text, NEW e \in Text, NEW r \in Text,
         NEW p \in Text, NEW q \in Text,
         AsAsked(p, q, e, r), QuotedAlike(e, r) => KeepsQuoting(p, q, e),
         NEW s \in {"exact", "decoded", "fenced", "numbered"}
  PROVE  Fits(Reading(p, q, s), t, e, r)
BY DEF Fits, Reading

\* A reading without line numbers fits if the one with them does.
LEMMA UnnumberedFits ==
  ASSUME NEW t \in Text, NEW e \in Text, NEW r \in Text,
         NEW v, Fits(v, t, e, r),
         QuotedAlike(e, r) =>
           KeepsQuoting(stripNumberedLinePrefixes(v.expected),
                        stripNumberedLinePrefixes(v.replacement), e)
  PROVE  Fits(Unnumbered(v), t, e, r)
<1> DEFINE p == stripNumberedLinePrefixes(v.expected)
           q == stripNumberedLinePrefixes(v.replacement)
<1>1. v.expected \in Text /\ v.replacement \in Text
      /\ AsAsked(v.expected, v.replacement, e, r)
  BY DEF Fits
<1>2. p \in Text /\ WordsOf(p) = WordsOf(v.expected)
  BY <1>1, StripNumbersOf
<1>3. q \in Text /\ WordsOf(q) = WordsOf(v.replacement)
  BY <1>1, StripNumbersOf
<1>4. Unnumbered(v) = Reading(p, q, "numbered")
  BY DEF Unnumbered
<1>6. QuotedAlike(e, r) => KeepsQuoting(p, q, e)
  OBVIOUS
<1> HIDE DEF p, q
<1>5. AsAsked(p, q, e, r)
  BY <1>1, <1>2, <1>3 DEF AsAsked
<1> QED
  BY <1>2, <1>3, <1>4, <1>5, <1>6, FitsAsWritten

\* A reading with the line endings of the file fits if the one without does.
LEMMA WithLineEndingsFits ==
  ASSUME NEW t \in Text, NEW e \in Text, NEW r \in Text,
         NEW v, Fits(v, t, e, r)
  PROVE  Fits(WithLineEndings(v, dominantEol(t)), t, e, r)
<1> DEFINE x == dominantEol(t)
           p == normalizeLineEndings(v.expected, x)
           q == normalizeLineEndings(v.replacement, x)
<1>0. x \in Eols
  BY DominantEolType
<1>1. /\ v.expected \in Text /\ v.replacement \in Text
      /\ AsAsked(v.expected, v.replacement, e, r)
      /\ QuotedAlike(e, r) => KeepsQuoting(v.expected, v.replacement, e)
  BY DEF Fits
<1> HIDE DEF x
<1>2. p \in Text /\ WordsOf(p) = WordsOf(v.expected)
  BY <1>0, <1>1, NormalizeOf
<1>3. /\ q \in Text /\ WordsOf(q) = WordsOf(v.replacement)
      /\ Len(q) = Len(v.replacement)
      /\ \A i \in 1 .. Len(v.replacement) :
           q[i] = IF v.replacement[i] \in Eols THEN x ELSE v.replacement[i]
  BY <1>0, <1>1, NormalizeOf
<1>4. WithLineEndings(v, x) = Reading(p, q, "line_endings")
  BY DEF WithLineEndings
<1>8. \A y \in Quotes : (y \in Range(p) <=> y \in Range(v.expected))
                       /\ (y \in Range(q) <=> y \in Range(v.replacement))
  BY <1>0, <1>1, NormalizedQuotes
<1> HIDE DEF p, q
<1>9. QuotedAlike(e, r) => KeepsQuoting(p, q, e)
  BY <1>1, <1>8 DEF KeepsQuoting
<1>5. AsAsked(p, q, e, r)
  BY <1>1, <1>2, <1>3 DEF AsAsked
<1>6. \A i \in 1 .. Len(q) : q[i] \in Eols => q[i] = x
  BY <1>3
<1>7. Fits(Reading(p, q, "line_endings"), t, e, r)
  BY <1>2, <1>3, <1>5, <1>6, <1>9 DEF Fits, Reading, x
<1> QED
  BY <1>4, <1>7 DEF x

\* All readings of buildTextReplacementVariants fit.
LEMMA VariantsOf ==
  ASSUME NEW t \in Text, NEW e \in Text, NEW r \in Text
  PROVE  LET vs == buildTextReplacementVariants(t, e, r)
         IN  /\ DOMAIN vs = 1 .. Len(vs) /\ Len(vs) \in Nat
             /\ \A k \in 1 .. Len(vs) : Fits(vs[k], t, e, r)
<1> DEFINE unfenced == Reading(stripMarkdownFence(e), stripMarkdownFence(r), "fenced")
           exact == Reading(e, r, "exact")
           early == Reading(e, decodeEscapedText(r), "decoded")
           late == Reading(decodeEscapedText(e), decodeEscapedText(r), "decoded")
           preferred == IF shouldPreferDecodedReplacement(t, e, r) THEN <<early>> ELSE <<>>
           decoded == IF Has(e, {"esc"}) \/ Has(r, {"esc"}) THEN <<late>> ELSE <<>>
           four == <<exact, unfenced, Unnumbered(exact), Unnumbered(unfenced)>>
           written == preferred \o decoded \o four
           R == {v \in {exact, unfenced, early, late, Unnumbered(exact), Unnumbered(unfenced)} :
                   Fits(v, t, e, r)}
<1>1. /\ decodeEscapedText(e) \in Text /\ WordsOf(decodeEscapedText(e)) = WordsOf(e)
      /\ decodeEscapedText(r) \in Text /\ WordsOf(decodeEscapedText(r)) = WordsOf(r)
      /\ stripMarkdownFence(e) \in Text /\ stripMarkdownFence(r) \in Text
  BY DecodeOf, StripFenceType
<1>2. Fits(exact, t, e, r)
  <2>1. AsAsked(e, r, e, r)
    BY DEF AsAsked
  <2> QED
    BY <2>1, DecodedQuotes, FitsAsWritten
<1>3. Fits(unfenced, t, e, r)
  <2>1. AsAsked(stripMarkdownFence(e), stripMarkdownFence(r), e, r)
    BY DEF AsAsked
  <2> QED
    BY <1>1, <2>1, QuotingReadings, FitsAsWritten
<1>4. Fits(early, t, e, r)
  <2>1. AsAsked(e, decodeEscapedText(r), e, r)
    BY <1>1 DEF AsAsked
  <2> QED
    BY <1>1, <2>1, DecodedQuotes, FitsAsWritten
<1>5. Fits(late, t, e, r)
  <2>1. AsAsked(decodeEscapedText(e), decodeEscapedText(r), e, r)
    BY <1>1 DEF AsAsked
  <2> QED
    BY <1>1, <2>1, DecodedQuotes, FitsAsWritten
<1>6. Fits(Unnumbered(exact), t, e, r) /\ Fits(Unnumbered(unfenced), t, e, r)
  <2>1. exact.expected = e /\ exact.replacement = r
        /\ unfenced.expected = stripMarkdownFence(e)
        /\ unfenced.replacement = stripMarkdownFence(r)
    BY DEF Reading
  <2> HIDE DEF exact, unfenced
  <2>2. QuotedAlike(e, r) =>
          KeepsQuoting(stripNumberedLinePrefixes(exact.expected),
                       stripNumberedLinePrefixes(exact.replacement), e)
    BY <2>1, QuotingReadings
  <2>3. QuotedAlike(e, r) =>
          KeepsQuoting(stripNumberedLinePrefixes(unfenced.expected),
                       stripNumberedLinePrefixes(unfenced.replacement), e)
    BY <2>1, QuotingReadings
  <2>4. Fits(Unnumbered(exact), t, e, r)
    BY <1>2, <2>2, UnnumberedFits
  <2>5. Fits(Unnumbered(unfenced), t, e, r)
    BY <1>3, <2>3, UnnumberedFits
  <2> QED
    BY <2>4, <2>5
<1>0. buildTextReplacementVariants(t, e, r)
        = written \o [k \in DOMAIN written |-> WithLineEndings(written[k], dominantEol(t))]
  BY DEF buildTextReplacementVariants
<1> HIDE DEF exact, unfenced, early, late
<1>7. /\ exact \in R /\ unfenced \in R /\ early \in R /\ late \in R
      /\ Unnumbered(exact) \in R /\ Unnumbered(unfenced) \in R
  BY <1>2, <1>3, <1>4, <1>5, <1>6
<1>8. \A v \in R : Fits(v, t, e, r)
  OBVIOUS
<1> DEFINE u1 == Unnumbered(exact)
           u2 == Unnumbered(unfenced)
<1>9. four \in Seq(R)
  <2>1. four = <<exact, unfenced, u1, u2>> /\ u1 \in R /\ u2 \in R
    BY <1>7
  <2> HIDE DEF R, four, u1, u2
  <2> QED
    BY <1>7, <2>1
<1> HIDE DEF R, four
<1>10. preferred \in Seq(R) /\ decoded \in Seq(R)
  BY <1>7
<1> HIDE DEF preferred, decoded
<1>11. written \in Seq(R)
  BY <1>9, <1>10, ConcatProperties
<1> HIDE DEF written
<1> DEFINE m == Len(written)
           more == [k \in DOMAIN written |-> WithLineEndings(written[k], dominantEol(t))]
           W == {v \in {written[k] : k \in 1 .. m} \cup {more[k] : k \in 1 .. m} :
                   Fits(v, t, e, r)}
<1>12. m \in Nat /\ DOMAIN written = 1 .. m /\ \A k \in 1 .. m : Fits(written[k], t, e, r)
  BY <1>8, <1>11
<1>13. \A k \in 1 .. m : Fits(more[k], t, e, r)
  BY <1>12, WithLineEndingsFits
<1>14. written \in Seq(W)
  <2>1. \A k \in 1 .. m : written[k] \in W
    BY <1>12
  <2> HIDE DEF W
  <2> QED
    BY <1>11, <1>12, <2>1
<1>15. more \in Seq(W)
  <2>1. \A k \in 1 .. m : more[k] \in W
    BY <1>13
  <2>2. more = [k \in 1 .. m |-> more[k]]
    BY <1>12
  <2> HIDE DEF W, more
  <2> QED
    BY <1>12, <2>1, <2>2
<1>16. \A v \in W : Fits(v, t, e, r)
  OBVIOUS
<1> DEFINE vs == buildTextReplacementVariants(t, e, r)
<1>17. vs \in Seq(W)
  <2> HIDE DEF W
  <2> QED
    BY <1>0, <1>14, <1>15, ConcatProperties
<1> HIDE DEF vs, W
<1>18. DOMAIN vs = 1 .. Len(vs) /\ Len(vs) \in Nat /\ \A k \in 1 .. Len(vs) : vs[k] \in W
  BY <1>17
<1> QED
  BY <1>16, <1>18 DEF vs

\* A text cut before and behind a stretch.
LEMMA TextParts ==
  ASSUME NEW t \in Text, NEW i \in 1 .. Len(t) + 1, NEW n \in 0 .. Len(t) + 1 - i
  PROVE  /\ SubSeq(t, 1, i - 1) \in Text /\ SubSeq(t, i, i + n - 1) \in Text
         /\ DropFirst(t, i + n - 1) \in Text
         /\ t = SubSeq(t, 1, i - 1) \o (SubSeq(t, i, i + n - 1) \o DropFirst(t, i + n - 1))
<1> DEFINE m == Len(t)
           a == i - 1
           b == i + n - 1
           c == b + 1
<1>1. t \in Seq(Token) /\ m \in Nat
  BY DEF Text
<1>2. /\ a \in 0 .. m /\ b \in 0 .. m /\ b \in a .. m /\ m \in b .. m /\ a \in 0 .. b /\ i = a + 1
      /\ i \in 1 .. m + 1 /\ c \in 1 .. m + 1 /\ i <= b + 1 /\ 1 <= a + 1
      /\ a \in 1 - 1 .. m /\ 1 \in 1 .. m + 1 /\ m \in 0 .. m /\ c <= m + 1
  BY <1>1
<1> HIDE DEF a, b
<1>3. SubSeq(t, 1, a) \in Seq(Token)
  BY <1>1, <1>2, CutOf DEF m
<1>4. SubSeq(t, i, b) \in Seq(Token)
  BY <1>1, <1>2, CutOf DEF m
<1>5. DropFirst(t, b) \in Seq(Token) /\ DropFirst(t, b) = SubSeq(t, b + 1, m)
  BY <1>1, <1>2, DropFirstOf DEF m, DropFirst
<1>6. SubSeq(t, i, b) \o SubSeq(t, b + 1, m) = SubSeq(t, i, m)
  <2>1. i \in 1 .. Len(t) + 1 /\ b \in i - 1 .. Len(t) /\ m \in b .. Len(t)
    BY <1>1, <1>2
  <2> QED
    BY <1>1, <2>1, ConcatAdjacentSubSeq
<1>7. SubSeq(t, 1, a) \o SubSeq(t, a + 1, m) = SubSeq(t, 1, m)
  <2>1. 1 \in 1 .. Len(t) + 1 /\ a \in 1 - 1 .. Len(t) /\ m \in a .. Len(t)
    BY <1>1, <1>2
  <2> QED
    BY <1>1, <2>1, ConcatAdjacentSubSeq
<1>8. SubSeq(t, 1, m) = t
  BY <1>1, SubSeqFull
<1>9. t = SubSeq(t, 1, a) \o (SubSeq(t, i, b) \o DropFirst(t, b))
  BY <1>2, <1>5, <1>6, <1>7, <1>8
<1> QED
  BY <1>3, <1>4, <1>5, <1>9 DEF a, b, Text

-----------------------------------------------------------------------------
\* Counting occurrences.

\* The number of jumps from each position on is the solution of its equations,
\* if a jump goes forward and none starts behind m.
LEMMA JumpsExist ==
  ASSUME NEW m \in Nat, NEW jump \in [Nat -> Nat],
         \A i \in Nat : jump[i] # 0 => jump[i] > i /\ i <= m
  PROVE  \E h \in [Nat -> Nat] :
           \A i \in Nat : h[i] = IF jump[i] = 0 THEN 0 ELSE 1 + h[jump[i]]
<1> DEFINE Counts(h, i) == h[i] = IF jump[i] = 0 THEN 0 ELSE 1 + h[jump[i]]
           U == {k \in 0 .. m + 1 :
                   \E h \in [Nat -> Nat] :
                     \A i \in Nat : i >= m + 1 - k => Counts(h, i)}
<1>1. 0 \in U
  <2> DEFINE h == [i \in Nat |-> 0]
  <2>1. h \in [Nat -> Nat]
    OBVIOUS
  <2>2. ASSUME NEW i \in Nat, i >= m + 1 - 0 PROVE Counts(h, i)
    <3>1. h[i] = 0 /\ jump[i] = 0
      BY <2>2
    <3> HIDE DEF h
    <3> QED
      BY <3>1
  <2> HIDE DEF h, Counts
  <2> QED
    BY <2>1, <2>2
<1>2. ASSUME NEW k \in 0 .. m + 1 - 1, k \in U PROVE k + 1 \in U
  <2>1. PICK h \in [Nat -> Nat] : \A i \in Nat : i >= m + 1 - k => Counts(h, i)
    BY <1>2
  <2> DEFINE j == m - k
             x == IF jump[j] = 0 THEN 0 ELSE 1 + h[jump[j]]
             g == [i \in Nat |-> IF i = j THEN x ELSE h[i]]
  <2>2. j \in Nat /\ j = m - k
    OBVIOUS
  <2> HIDE DEF j
  <2>3. x \in Nat
    BY <2>2
  <2>4. g \in [Nat -> Nat] /\ g[j] = x /\ \A i \in Nat : i # j => g[i] = h[i]
    <3> HIDE DEF x
    <3> QED
      BY <2>2, <2>3
  <2> HIDE DEF g
  <2>5. ASSUME NEW i \in Nat, i >= m + 1 - (k + 1) PROVE Counts(g, i)
    <3>1. i >= j
      BY <2>2, <2>5
    <3>2. jump[i] # 0 => g[jump[i]] = h[jump[i]]
      <4>1. jump[i] \in Nat /\ (jump[i] # 0 => jump[i] # j)
        BY <2>2, <3>1
      <4> QED
        BY <2>4, <4>1
    <3>3. CASE i = j
      <4>1. g[i] = IF jump[i] = 0 THEN 0 ELSE 1 + h[jump[i]]
        BY <2>4, <3>3
      <4> QED
        BY <3>2, <4>1
    <3>4. CASE i # j
      <4>1. i >= m + 1 - k /\ g[i] = h[i]
        BY <2>2, <2>4, <3>1, <3>4
      <4>2. Counts(h, i)
        BY <2>1, <4>1
      <4> QED
        BY <3>2, <4>1, <4>2
    <3> QED
      BY <3>3, <3>4
  <2>6. k + 1 \in 0 .. m + 1
    OBVIOUS
  <2> HIDE DEF Counts
  <2> QED
    BY <2>4, <2>5, <2>6
<1>3. m + 1 \in U
  <2> DEFINE l == m + 1
  <2>1. l \in Nat /\ l \in 0 .. l
    OBVIOUS
  <2> HIDE DEF U
  <2>2. 0 \in U /\ \A k \in 0 .. l - 1 : k \in U => k + 1 \in U
    BY <1>1, <1>2
  <2> HIDE DEF l
  <2>3. l \in U
    BY <2>1, <2>2, UpTo
  <2> QED
    BY <2>3 DEF l
<1>4. PICK h \in [Nat -> Nat] : \A i \in Nat : i >= m + 1 - (m + 1) => Counts(h, i)
  BY <1>3
<1>5. \A i \in Nat : i >= m + 1 - (m + 1)
  OBVIOUS
<1> QED
  BY <1>4, <1>5

\* Whatever solves them is a number everywhere.
LEMMA JumpsCounted ==
  ASSUME NEW m \in Nat, NEW jump \in [Nat -> Nat],
         \A i \in Nat : jump[i] # 0 => jump[i] > i /\ i <= m,
         NEW g, \A i \in Nat : g[i] = IF jump[i] = 0 THEN 0 ELSE 1 + g[jump[i]]
  PROVE  \A i \in Nat : g[i] \in Nat
<1> DEFINE U == {k \in 0 .. m + 1 : \A i \in Nat : i >= m + 1 - k => g[i] \in Nat}
<1>1. 0 \in U
  <2>1. ASSUME NEW i \in Nat, i >= m + 1 - 0 PROVE g[i] \in Nat
    <3>1. jump[i] = 0
      BY <2>1
    <3> QED
      BY <3>1
  <2> QED
    BY <2>1
<1>2. ASSUME NEW k \in 0 .. m + 1 - 1, k \in U PROVE k + 1 \in U
  <2>1. ASSUME NEW i \in Nat, i >= m + 1 - (k + 1) PROVE g[i] \in Nat
    <3>1. CASE jump[i] = 0
      BY <3>1
    <3>2. CASE jump[i] # 0
      <4>1. jump[i] \in Nat /\ jump[i] >= m + 1 - k
        BY <2>1, <3>2
      <4>2. g[jump[i]] \in Nat
        BY <1>2, <4>1
      <4>3. g[i] = 1 + g[jump[i]]
        BY <3>2
      <4> QED
        BY <4>2, <4>3
    <3> QED
      BY <3>1, <3>2
  <2>2. k + 1 \in 0 .. m + 1
    OBVIOUS
  <2> QED
    BY <2>1, <2>2
<1>3. m + 1 \in U
  <2> DEFINE l == m + 1
  <2>1. l \in Nat /\ l \in 0 .. l
    OBVIOUS
  <2> HIDE DEF U
  <2>2. 0 \in U /\ \A k \in 0 .. l - 1 : k \in U => k + 1 \in U
    BY <1>1, <1>2
  <2> HIDE DEF l
  <2>3. l \in U
    BY <2>1, <2>2, UpTo
  <2> QED
    BY <2>3 DEF l
<1>4. \A i \in Nat : i >= m + 1 - (m + 1)
  OBVIOUS
<1> QED
  BY <1>3, <1>4

\* A text that countOccurrences counts at most once stands nowhere but at its
\* first occurrence, and where it overlaps that.
LEMMA CountedOnce ==
  ASSUME NEW t \in Text, NEW s \in Text, s # <<>>, Occurrences(t, s) # {},
         ~ (countOccurrences(t, s) > 1)
  PROVE  FoundOnlyAt(t, s, Min(Occurrences(t, s)))
<1> DEFINE found == Occurrences(t, s)
           n == Len(s)
           m == Len(t) + 1
           next(i) == {k \in found : k >= i}
           jump == [i \in Nat |-> IF next(i) = {} THEN 0 ELSE Min(next(i)) + n]
           Def(g) == [i \in Nat |->
                        IF next(i) = {} THEN 0 ELSE 1 + g[Min(next(i)) + n]]
           countFrom == CHOOSE g : g = Def(g)
<1>1. n \in Nat /\ n >= 1 /\ m \in Nat /\ Len(t) \in Nat
  BY DEF Text
<1>2. countOccurrences(t, s) = countFrom[1]
  BY DEF countOccurrences
<1>3. found \in SUBSET Nat /\ \A k \in found : k <= m
  BY <1>1 DEF Occurrences
<1> HIDE DEF found, n, m
<1>4. ASSUME NEW i \in Nat, next(i) # {}
      PROVE  /\ Min(next(i)) \in found /\ Min(next(i)) >= i
             /\ \A k \in found : k >= i => Min(next(i)) <= k
  <2>1. next(i) \in SUBSET Nat
    BY <1>3
  <2>2. \A k : k \in next(i) <=> k \in found /\ k >= i
    OBVIOUS
  <2> DEFINE T == next(i)
  <2>3. T \in SUBSET Nat /\ T # {}
    BY <1>4, <2>1
  <2> HIDE DEF T
  <2>4. Min(T) \in T /\ \A k \in T : Min(T) <= k
    BY <2>3, MinOf
  <2> QED
    BY <2>2, <2>4 DEF T
<1>5. /\ jump \in [Nat -> Nat]
      /\ \A i \in Nat : jump[i] # 0 => jump[i] > i /\ i <= m
      /\ \A i \in Nat : jump[i] = IF next(i) = {} THEN 0 ELSE Min(next(i)) + n
      /\ \A i \in Nat : jump[i] = 0 <=> next(i) = {}
  <2>1. ASSUME NEW i \in Nat, next(i) # {}
        PROVE  /\ Min(next(i)) + n \in Nat /\ Min(next(i)) + n > i /\ i <= m
    <3> DEFINE x == Min(next(i))
    <3>1. x \in found /\ x >= i
      BY <1>4, <2>1
    <3> HIDE DEF x
    <3>2. x + n \in Nat /\ x + n > i /\ i <= m
      BY <1>1, <1>3, <3>1
    <3> QED
      BY <3>2 DEF x
  <2>2. \A i \in Nat : jump[i] = IF next(i) = {} THEN 0 ELSE Min(next(i)) + n
    OBVIOUS
  <2>3. jump = [i \in Nat |-> jump[i]]
    OBVIOUS
  <2> HIDE DEF jump, next
  <2>4. ASSUME NEW i \in Nat
        PROVE  /\ jump[i] \in Nat
               /\ jump[i] # 0 => jump[i] > i /\ i <= m
               /\ jump[i] = 0 <=> next(i) = {}
    BY <2>1, <2>2
  <2> QED
    BY <2>2, <2>3, <2>4
<1> HIDE DEF next, jump
<1>6. \E g : g = Def(g)
  <2>1. PICK h \in [Nat -> Nat] :
               \A i \in Nat : h[i] = IF jump[i] = 0 THEN 0 ELSE 1 + h[jump[i]]
    BY <1>1, <1>5, JumpsExist
  <2>2. \A i \in Nat : h[i] = IF next(i) = {} THEN 0 ELSE 1 + h[Min(next(i)) + n]
    BY <1>5, <2>1
  <2>3. h = [i \in Nat |-> h[i]]
    OBVIOUS
  <2>4. h = Def(h)
    BY <2>2, <2>3
  <2> QED
    BY <2>4
<1>7. countFrom = Def(countFrom)
  <2> HIDE DEF Def
  <2> QED
    BY <1>6
<1> HIDE DEF countFrom
<1>8. \A i \in Nat : countFrom[i] = IF next(i) = {} THEN 0
                                    ELSE 1 + countFrom[Min(next(i)) + n]
  BY <1>7
<1>9. \A i \in Nat : countFrom[i] = IF jump[i] = 0 THEN 0 ELSE 1 + countFrom[jump[i]]
  BY <1>5, <1>8
<1>10. \A i \in Nat : countFrom[i] \in Nat
  BY <1>1, <1>5, <1>9, JumpsCounted
<1> DEFINE i == Min(found)
           j == i + n
<1>11. i \in found /\ (\A k \in found : i <= k) /\ i \in Nat /\ i >= 1 /\ j \in Nat
  <2>1. found # {}
    BY DEF found
  <2>2. Min(found) \in found /\ \A k \in found : Min(found) <= k
    BY <1>3, <2>1, MinOf
  <2>3. \A k \in found : k >= 1
    BY DEF found, Occurrences
  <2> HIDE DEF i
  <2>4. i \in found /\ \A k \in found : i <= k
    BY <2>2 DEF i
  <2> QED
    BY <1>1, <1>3, <2>3, <2>4
<1>12. next(1) = found /\ found # {}
  <2>1. \A k \in found : k >= 1
    BY DEF found, Occurrences
  <2> QED
    BY <1>11, <2>1 DEF next
<1>13. countFrom[1] = 1 + countFrom[j]
  BY <1>8, <1>12
<1> HIDE DEF i, j
<1>14. countFrom[j] = 0
  BY <1>2, <1>10, <1>11, <1>13
<1>15. next(j) = {}
  <2> SUFFICES ASSUME next(j) # {} PROVE FALSE
    OBVIOUS
  <2>1. jump[j] # 0 /\ jump[j] \in Nat
    BY <1>5, <1>11
  <2>2. countFrom[j] = 1 + countFrom[jump[j]]
    BY <1>9, <1>11, <2>1
  <2>3. countFrom[jump[j]] \in Nat
    BY <1>10, <2>1
  <2> QED
    BY <1>14, <2>2, <2>3
<1>16. \A k \in found : i <= k /\ k < i + n
  <2> SUFFICES ASSUME NEW k \in found PROVE i <= k /\ k < i + n
    OBVIOUS
  <2>1. ~ (k >= j)
    BY <1>15 DEF next
  <2> QED
    BY <1>1, <1>3, <1>11, <2>1 DEF j
<1> QED
  BY <1>16 DEF FoundOnlyAt, found, i, n

-----------------------------------------------------------------------------
\* Plans for one replacement, and the plan they agree on.

\* One stretch of t is replaced in u, as a call says; with any strategy but one,
\* it is found once.
Asked(t, u, strategy, e, r) ==
  \E p, old, new, s \in Text :
    /\ t = p \o (old \o s)
    /\ u = p \o new \o s
    /\ AsAsked(old, new, e, r)
    /\ strategy # "indentation" => FoundOnlyAt(t, old, Len(p) + 1)

\* What a plan for one replacement may be.
Plan(o, t, e, r) ==
  \/ o = NotUnique
  \/ /\ o = Edited(o.content, o.strategy)
     /\ o.strategy \in {"exact", "decoded", "fenced", "numbered", "line_endings",
                        "indentation"}
     /\ o.content \in Text
     /\ Asked(t, o.content, o.strategy, e, r)
     /\ o.strategy = "indentation" => LayoutKept(t, o.content)
     /\ o.strategy \in {"line_endings", "indentation"} =>
          Range(o.content) \cap Eols \subseteq Range(t) \cup {dominantEol(t)}
     /\ QuotedAlike(e, r) => KeepsQuoting(t, o.content, e)

\* A reading found in the file leads to a plan.
LEMMA ReplaceOnceOf ==
  ASSUME NEW t \in Text, NEW e \in Text, NEW r \in Text,
         NEW v, Fits(v, t, e, r), v.expected # <<>>,
         Occurrences(t, v.expected) # {}
  PROVE  Plan(ReplaceOnce(t, v), t, e, r)
<1> DEFINE q == v.expected
           w == v.replacement
           i == Min(Occurrences(t, q))
           n == Len(q)
           u == Spliced(t, i, n, w)
<1>1. q \in Text /\ w \in Text /\ n \in Nat /\ Len(t) \in Nat
  BY DEF Fits, Text
<1>2. /\ v.strategy \in {"exact", "decoded", "fenced", "numbered", "line_endings"}
      /\ AsAsked(q, w, e, r)
      /\ v.strategy = "line_endings" =>
           \A k \in 1 .. Len(w) : w[k] \in Eols => w[k] = dominantEol(t)
      /\ QuotedAlike(e, r) => KeepsQuoting(q, w, e)
  BY DEF Fits
<1>3. i \in Occurrences(t, q)
  <2>1. \A k \in Occurrences(t, q) : k \in 1 .. Len(t) + 1 - Len(q)
    BY DEF Occurrences
  <2>2. Occurrences(t, q) \in SUBSET Nat
    <3> SUFFICES ASSUME NEW k \in Occurrences(t, q) PROVE k \in Nat
      BY Zenon
    <3>1. k \in 1 .. Len(t) + 1 - Len(q)
      BY <2>1, Zenon
    <3> QED
      BY <1>1, <3>1
  <2> QED
    BY <2>2, MinOf
<1>4. \/ ReplaceOnce(t, v) = NotUnique
      \/ /\ ReplaceOnce(t, v) = Edited(u, v.strategy)
         /\ FoundOnlyAt(t, q, i)
  <2>1. CASE countOccurrences(t, q) > 1
    BY <2>1 DEF ReplaceOnce
  <2>2. CASE ~ (countOccurrences(t, q) > 1)
    <3>1. ReplaceOnce(t, v) = Edited(u, v.strategy)
      BY <2>2 DEF ReplaceOnce
    <3>2. q # <<>> /\ Occurrences(t, q) # {}
      OBVIOUS
    <3> HIDE DEF q
    <3>3. FoundOnlyAt(t, q, i)
      BY <1>1, <2>2, <3>2, CountedOnce
    <3> QED
      BY <3>1, <3>3
  <2> QED
    BY <2>1, <2>2
<1> HIDE DEF i, q, w, n
<1>5. i \in 1 .. Len(t) + 1 - n /\ SubSeq(t, i, i + n - 1) = q
  BY <1>3 DEF Occurrences, n
<1>6. i \in 1 .. Len(t) + 1 /\ n \in 0 .. Len(t) + 1 - i
  BY <1>1, <1>5
<1> DEFINE p == SubSeq(t, 1, i - 1)
           s == DropFirst(t, i + n - 1)
<1>7. p \in Text /\ s \in Text /\ t = p \o (q \o s)
  <2>1. p \in Text /\ s \in Text /\ t = p \o (SubSeq(t, i, i + n - 1) \o s)
    BY <1>6, TextParts, Zenon
  <2> QED
    BY <1>5, <2>1, Zenon
<1>8. u = p \o w \o s
  BY DEF Spliced
<1> HIDE DEF p, s, u
<1>9. u \in Text
  BY <1>1, <1>7, <1>8, ConcatProperties DEF Text
<1>10. ASSUME FoundOnlyAt(t, q, i) PROVE Asked(t, u, v.strategy, e, r)
  <2>1. Len(p) + 1 = i
    <3>1. Len(p) = i - 1
      <4> DEFINE j == i - 1
      <4>1. /\ t \in Seq(Token) /\ 1 \in 1 .. Len(t) + 1 /\ j \in 0 .. Len(t)
            /\ 1 <= j + 1 /\ j + 1 - 1 = j
        BY <1>1, <1>6 DEF Text
      <4> HIDE DEF j
      <4>2. Len(SubSeq(t, 1, j)) = j + 1 - 1
        BY <4>1, CutOf, Zenon
      <4> QED
        BY <4>1, <4>2 DEF p, j
    <3> QED
      BY <1>5, <3>1
  <2> QED
    BY <1>1, <1>2, <1>7, <1>8, <1>10, <2>1 DEF Asked
<1>11. v.strategy = "line_endings" => Range(u) \cap Eols \subseteq Range(t) \cup {dominantEol(t)}
  <2>1. Range(u) = Range(p) \cup Range(w) \cup Range(s)
    BY <1>1, <1>7, <1>8, RangeOfParts
  <2>2. Range(t) = Range(p) \cup Range(q) \cup Range(s)
    BY <1>1, <1>7, RangeOfParts
  <2>3. v.strategy = "line_endings" => Range(w) \cap Eols \subseteq {dominantEol(t)}
    <3>1. \A x : x \in Range(w) <=> \E k \in 1 .. Len(w) : w[k] = x
      BY <1>1, RangeOf DEF Text
    <3> QED
      BY <1>2, <3>1
  <2> QED
    BY <2>1, <2>2, <2>3
<1>13. QuotedAlike(e, r) => KeepsQuoting(t, u, e)
  <2>1. Range(u) = Range(p) \cup Range(w) \cup Range(s)
    BY <1>1, <1>7, <1>8, RangeOfParts
  <2>2. Range(t) = Range(p) \cup Range(q) \cup Range(s)
    BY <1>1, <1>7, RangeOfParts
  <2> QED
    BY <1>2, <2>1, <2>2 DEF KeepsQuoting
<1>12. ASSUME FoundOnlyAt(t, q, i) PROVE Plan(Edited(u, v.strategy), t, e, r)
  <2> DEFINE o == Edited(u, v.strategy)
  <2>1. o.content = u /\ o.strategy = v.strategy
    BY DEF Edited, Outcome
  <2> HIDE DEF o
  <2>2. o = Edited(o.content, o.strategy)
    BY <2>1 DEF o
  <2>3. Plan(o, t, e, r)
    BY <1>2, <1>9, <1>10, <1>11, <1>12, <1>13, <2>1, <2>2 DEF Plan
  <2> QED
    BY <2>3 DEF o
<1> QED
  BY <1>4, <1>12 DEF Plan

\* A reading whose lines are found leads to a plan.
LEMMA BlockPlan ==
  ASSUME NEW t \in Text, NEW e \in Text, NEW r \in Text,
         NEW v, Fits(v, t, e, r)
  PROVE  Plan(BlockReplaced(t, v), t, e, r)
<1>1. CASE BlockReplaced(t, v) = NotUnique
  BY <1>1 DEF Plan
<1>2. CASE BlockReplaced(t, v) # NotUnique
  <2> DEFINE o == BlockReplaced(t, v)
             u == o.content
  <2>1. /\ v.expected \in Text /\ v.replacement \in Text
        /\ AsAsked(v.expected, v.replacement, e, r)
        /\ QuotedAlike(e, r) => KeepsQuoting(v.expected, v.replacement, e)
    BY DEF Fits
  <2>2. /\ o = Edited(u, "indentation")
        /\ u \in Text /\ LayoutKept(t, u)
        /\ Range(u) \cap Eols \subseteq Range(t)
        /\ StretchReplaced(t, u, v.expected, v.replacement)
        /\ QuotesWritten(t, u, v.expected, v.replacement)
    BY <1>2, <2>1, BlockOf
  <2> HIDE DEF o
  <2>3. o.strategy = "indentation"
    BY <2>2 DEF Edited, Outcome
  <2>4. Asked(t, u, o.strategy, e, r)
    BY <2>1, <2>2, <2>3 DEF StretchReplaced, Asked, AsAsked
  <2>6. QuotedAlike(e, r) => KeepsQuoting(t, u, e)
    BY <2>1, <2>2 DEF QuotesWritten, KeepsQuoting
  <2>5. Plan(o, t, e, r)
    BY <2>2, <2>3, <2>4, <2>6 DEF Plan
  <2> QED
    BY <2>5 DEF o
<1> QED
  BY <1>1, <1>2

\* buildTextReplacement makes a plan, whichever reading it takes.
LEMMA PlanOf ==
  ASSUME NEW t \in Text, NEW e \in Text, NEW r \in Text
  PROVE  Plan(buildTextReplacement(t, e, r), t, e, r)
<1> DEFINE vs == buildTextReplacementVariants(t, e, r)
           usable == UsableReadings(vs)
           found == {k \in usable : Occurrences(t, vs[k].expected) # {}}
           fitting == {k \in usable : BlockReplaced(t, vs[k]) # NotUnique}
<1>1. /\ DOMAIN vs = 1 .. Len(vs) /\ Len(vs) \in Nat
      /\ \A k \in 1 .. Len(vs) : Fits(vs[k], t, e, r)
  BY VariantsOf
<1>2. buildTextReplacement(t, e, r)
        = IF found # {} THEN ReplaceOnce(t, vs[Min(found)])
          ELSE IF fitting = {} THEN NotUnique ELSE BlockReplaced(t, vs[Min(fitting)])
  BY DEF buildTextReplacement, ReplacedBy, IndentationFallback
<1> HIDE DEF vs
<1>3. usable \in SUBSET (1 .. Len(vs))
  BY <1>1 DEF UsableReadings
<1>7. \A k \in usable : vs[k].expected # <<>>
  BY DEF UsableReadings
<1> HIDE DEF usable
<1>4. CASE found # {}
  <2>0. \A k \in found : k \in usable
    OBVIOUS
  <2>1. found \in SUBSET Nat
    <3> HIDE DEF found
    <3> SUFFICES ASSUME NEW k \in found PROVE k \in Nat
      BY Zenon
    <3>1. k \in 1 .. Len(vs)
      BY <1>3, <2>0, Zenon
    <3> QED
      BY <1>1, <3>1
  <2>2. Min(found) \in found
    BY <1>4, <2>1, MinOf
  <2> DEFINE k == Min(found)
  <2>3. /\ k \in 1 .. Len(vs) /\ Occurrences(t, vs[k].expected) # {}
        /\ vs[k].expected # <<>>
    BY <1>3, <1>7, <2>2
  <2> HIDE DEF k
  <2>4. Plan(ReplaceOnce(t, vs[k]), t, e, r)
    BY <1>1, <2>3, ReplaceOnceOf
  <2> QED
    BY <1>2, <1>4, <2>4 DEF k
<1>5. CASE found = {} /\ fitting # {}
  <2>0. \A k \in fitting : k \in usable
    OBVIOUS
  <2>1. fitting \in SUBSET Nat
    <3> HIDE DEF fitting
    <3> SUFFICES ASSUME NEW k \in fitting PROVE k \in Nat
      BY Zenon
    <3>1. k \in 1 .. Len(vs)
      BY <1>3, <2>0, Zenon
    <3> QED
      BY <1>1, <3>1
  <2>2. Min(fitting) \in fitting
    BY <1>5, <2>1, MinOf
  <2> DEFINE k == Min(fitting)
  <2>3. k \in 1 .. Len(vs)
    BY <1>3, <2>2
  <2> HIDE DEF k
  <2>4. Plan(BlockReplaced(t, vs[k]), t, e, r)
    BY <1>1, <2>3, BlockPlan
  <2> QED
    BY <1>2, <1>5, <2>4 DEF k
<1>6. CASE found = {} /\ fitting = {}
  BY <1>2, <1>6 DEF Plan
<1> QED
  BY <1>4, <1>5, <1>6

\* The image of a finite set is finite.
LEMMA ImageFinite ==
  ASSUME NEW S, IsFiniteSet(S), NEW f
  PROVE  IsFiniteSet({f[x] : x \in S})
<1> DEFINE T == {f[x] : x \in S}
           g == [x \in S |-> f[x]]
<1>1. g \in Surjection(S, T)
  BY DEF Surjection
<1> HIDE DEF g
<1> QED
  BY <1>1, FS_Surjection

\* What is chosen among the plans of several replacements.
NoneOrAgreed(o, t, plans) ==
  \/ o \in {Ambiguous, NotUnique, Failed}
  \/ \E k \in EditsMade(t, plans) :
       /\ o = plans[k]
       /\ \A j \in EditsMade(t, plans) : plans[j].content = plans[k].content

\* AgreedPlan is a plan all that can be made agree with, or none.
LEMMA AgreedOf ==
  ASSUME NEW t, NEW n \in Nat, NEW plans, DOMAIN plans = 1 .. n
  PROVE  NoneOrAgreed(AgreedPlan(t, plans), t, plans)
<1> DEFINE made == EditsMade(t, plans)
           contents == {plans[k].content : k \in made}
           o == AgreedPlan(t, plans)
<1>1. made \in SUBSET (1 .. n)
  BY DEF EditsMade
<1>2. IsFiniteSet(made)
  <2>1. IsFiniteSet(1 .. n)
    BY FS_Interval
  <2> QED
    BY <1>1, <2>1, FS_Subset
<1>3. made \in SUBSET Nat
  <2> HIDE DEF made
  <2> SUFFICES ASSUME NEW k \in made PROVE k \in Nat
    BY Zenon
  <2>1. k \in 1 .. n
    BY <1>1, Zenon
  <2> QED
    BY <2>1
<1>4. o = IF Cardinality(contents) = 1 THEN plans[Min(made)]
          ELSE IF Cardinality(contents) > 1 THEN Ambiguous
          ELSE IF \E k \in DOMAIN plans : plans[k].outcome = "not_unique" THEN NotUnique
          ELSE Failed
  BY DEF AgreedPlan
<1> HIDE DEF made, o
<1>5. IsFiniteSet(contents)
  <2> DEFINE g == [k \in made |-> plans[k].content]
  <2>1. IsFiniteSet({g[k] : k \in made})
    <3> HIDE DEF g
    <3> QED
      BY <1>2, ImageFinite
  <2>2. contents = {g[k] : k \in made}
    OBVIOUS
  <2> QED
    BY <2>1, <2>2
<1>6. Cardinality(contents) = 1 <=> \E x : contents = {x}
  <2> HIDE DEF contents
  <2> QED
    BY <1>5, FS_Singleton
<1>7. ASSUME NEW x, contents = {x}
      PROVE  /\ Min(made) \in made /\ o = plans[Min(made)]
             /\ \A j \in made : plans[j].content = x
  <2>1. \A j \in made : plans[j].content = x
    BY <1>7
  <2>2. made # {}
    <3>1. x \in contents
      BY <1>7
    <3> QED
      BY <3>1
  <2>3. Min(made) \in made
    BY <1>3, <2>2, MinOf
  <2>4. Cardinality(contents) = 1
    <3> HIDE DEF contents
    <3> QED
      BY <1>6, <1>7
  <2> HIDE DEF contents
  <2> QED
    BY <1>4, <2>1, <2>3, <2>4
<1>8. \/ o \in {Ambiguous, NotUnique, Failed}
      \/ \E k \in made : o = plans[k] /\ \A j \in made : plans[j].content = plans[k].content
  <2>1. CASE Cardinality(contents) = 1
    <3>1. PICK x : contents = {x}
      <4> HIDE DEF contents
      <4> QED
        BY <1>6, <2>1
    <3> QED
      BY <1>7, <3>1
  <2>2. CASE Cardinality(contents) # 1
    <3> HIDE DEF contents
    <3> QED
      BY <1>4, <2>2
  <2> QED
    BY <2>1, <2>2
<1> QED
  BY <1>8 DEF made, o, NoneOrAgreed

\* Where the plans that can be made agree, one of them is made.
LEMMA AgreedWhenAlike ==
  ASSUME NEW t, NEW n \in Nat, NEW plans, DOMAIN plans = 1 .. n,
         EditsMade(t, plans) # {},
         NEW x, \A j \in EditsMade(t, plans) : plans[j].content = x
  PROVE  \E k \in EditsMade(t, plans) : AgreedPlan(t, plans) = plans[k]
<1> DEFINE made == EditsMade(t, plans)
           contents == {plans[k].content : k \in made}
<1>1. made \in SUBSET (1 .. n)
  BY DEF EditsMade
<1>2. made \in SUBSET Nat
  <2> HIDE DEF made
  <2> SUFFICES ASSUME NEW k \in made PROVE k \in Nat
    BY Zenon
  <2>1. k \in 1 .. n
    BY <1>1, Zenon
  <2> QED
    BY <2>1
<1>3. contents = {x}
  OBVIOUS
<1>4. Cardinality(contents) = 1
  BY <1>3, FS_Singleton
<1>5. Min(made) \in made
  BY <1>2, MinOf
<1> QED
  BY <1>4, <1>5 DEF AgreedPlan

\* What a call for a text may come to.
EditResult(o, t, c) ==
  \/ o \in {Ambiguous, NotUnique, Failed}
  \/ /\ o # NotUnique
     /\ Len(o.content) <= MaxFileSize
     /\ \E k \in 1 .. Len(c.replacements) : Plan(o, t, c.expected, c.replacements[k])

\* The answers that edit nothing are no edits.
LEMMA OutcomesApart ==
  /\ Ambiguous.outcome = "ambiguous" /\ Ambiguous.content = <<>> /\ Ambiguous.strategy = "none"
  /\ NotUnique.outcome = "not_unique" /\ NotUnique.content = <<>> /\ NotUnique.strategy = "none"
  /\ Failed.outcome = "failed" /\ Failed.content = <<>> /\ Failed.strategy = "none"
  /\ \A u, s : /\ Edited(u, s).outcome = "edited" /\ Edited(u, s).content = u
               /\ Edited(u, s).strategy = s
BY DEF Ambiguous, NotUnique, Failed, Edited, Outcome

\* What replaceSandboxTextWithCandidates answers.
LEMMA EditResultOf ==
  ASSUME NEW t \in Text, NEW c, c.expected \in Text, c.replacements \in Seq(Text)
  PROVE  EditResult(replaceSandboxTextWithCandidates(t, c), t, c)
<1> DEFINE rs == c.replacements
           n == Len(rs)
           plans == [k \in DOMAIN rs |-> buildTextReplacement(t, c.expected, rs[k])]
           o == AgreedPlan(t, plans)
           made == EditsMade(t, plans)
<1>1. n \in Nat /\ DOMAIN rs = 1 .. n /\ \A k \in 1 .. n : rs[k] \in Text
  BY DEF Text
<1>2. DOMAIN plans = 1 .. n
  BY <1>1
<1>3. \A k \in 1 .. n : Plan(plans[k], t, c.expected, rs[k])
  BY <1>1, PlanOf
<1>4. replaceSandboxTextWithCandidates(t, c) = WithinLimit(t, o)
  BY DEF replaceSandboxTextWithCandidates, buildTextReplacementFromCandidates
<1> HIDE DEF plans
<1>5. \/ o \in {Ambiguous, NotUnique, Failed}
      \/ \E k \in made : o = plans[k] /\ \A j \in made : plans[j].content = plans[k].content
  <2>1. NoneOrAgreed(AgreedPlan(t, plans), t, plans)
    BY <1>1, <1>2, AgreedOf
  <2> QED
    BY <2>1 DEF NoneOrAgreed
<1>6. \A k \in made : k \in 1 .. n /\ plans[k].outcome = "edited"
  BY <1>2 DEF EditsMade
<1>7. \A k \in made : plans[k] # NotUnique
  BY <1>6, OutcomesApart
<1> HIDE DEF o, made
<1>8. CASE o \in {Ambiguous, NotUnique, Failed}
  BY <1>4, <1>8 DEF WithinLimit, EditResult
<1>9. CASE \E k \in made : o = plans[k]
  <2>1. PICK k \in made : o = plans[k]
    BY <1>9
  <2>2. k \in 1 .. n /\ o # NotUnique /\ Plan(o, t, c.expected, rs[k])
    BY <1>3, <1>6, <1>7, <2>1
  <2>3. CASE Len(o.content) > MaxFileSize
    BY <1>4, <2>3 DEF WithinLimit, EditResult
  <2>4. CASE ~(Len(o.content) > MaxFileSize)
    <3>1. o.content \in Text
      BY <2>2 DEF Plan
    <3>2. Len(o.content) <= MaxFileSize
      BY <2>4, <3>1, EditAssumption DEF Text
    <3> QED
      BY <1>4, <2>2, <2>4, <3>2 DEF WithinLimit, EditResult
  <2> QED
    BY <2>3, <2>4
<1> QED
  BY <1>5, <1>8, <1>9

\* The edit that is made does not depend on the order of the replacements.
LEMMA ReversedAlike ==
  ASSUME NEW t \in Text, NEW c, c.expected \in Text, c.replacements \in Seq(Text),
         NEW d, d.expected = c.expected, d.replacements = Reverse(c.replacements),
         replaceSandboxTextWithCandidates(t, c).outcome = "edited"
  PROVE  replaceSandboxTextWithCandidates(t, d).content
           = replaceSandboxTextWithCandidates(t, c).content
<1> DEFINE e == c.expected
           rs == c.replacements
           qs == d.replacements
           n == Len(rs)
           plans == [k \in DOMAIN rs |-> buildTextReplacement(t, e, rs[k])]
           others == [k \in DOMAIN qs |-> buildTextReplacement(t, e, qs[k])]
           o == AgreedPlan(t, plans)
           made == EditsMade(t, plans)
           also == EditsMade(t, others)
<1>1. n \in Nat /\ DOMAIN rs = 1 .. n
  BY DEF Text
<1>2. DOMAIN qs = 1 .. n /\ \A k \in 1 .. n : n + 1 - k \in 1 .. n /\ qs[k] = rs[n + 1 - k]
  BY <1>1 DEF Reverse
<1>3. DOMAIN plans = 1 .. n /\ DOMAIN others = 1 .. n
  BY <1>1, <1>2
<1>4. \A k \in 1 .. n : others[k] = plans[n + 1 - k]
  BY <1>1, <1>2
<1>5. /\ replaceSandboxTextWithCandidates(t, c) = WithinLimit(t, o)
      /\ replaceSandboxTextWithCandidates(t, d) = WithinLimit(t, AgreedPlan(t, others))
  BY DEF replaceSandboxTextWithCandidates, buildTextReplacementFromCandidates
<1>6. \A k \in 1 .. n : others[k] = plans[n + 1 - k] /\ plans[k] = others[n + 1 - k]
  <2>1. \A k \in 1 .. n : n + 1 - k \in 1 .. n /\ n + 1 - (n + 1 - k) = k
    BY <1>1
  <2> HIDE DEF n, plans, others
  <2> QED
    BY <1>4, <2>1
<1> HIDE DEF plans, others
<1>7. \/ o \in {Ambiguous, NotUnique, Failed}
      \/ \E k \in made : o = plans[k] /\ \A j \in made : plans[j].content = plans[k].content
  <2>1. NoneOrAgreed(AgreedPlan(t, plans), t, plans)
    BY <1>1, <1>3, AgreedOf
  <2> QED
    BY <2>1 DEF NoneOrAgreed
<1>8. o.outcome = "edited" /\ ~(Len(o.content) > MaxFileSize)
  BY <1>5, OutcomesApart DEF WithinLimit
<1>9. \A x : also # {} /\ (\A j \in also : others[j].content = x) =>
               \E k \in also : AgreedPlan(t, others) = others[k]
  BY <1>1, <1>3, AgreedWhenAlike
<1>10. /\ \A k \in made : k \in 1 .. n /\ n + 1 - k \in also
       /\ \A k \in also : k \in 1 .. n /\ n + 1 - k \in made
  <2>1. \A k \in 1 .. n : n + 1 - k \in 1 .. n
    BY <1>1
  <2>2. \A k : k \in made <=> /\ k \in 1 .. n
                              /\ plans[k].outcome = "edited" /\ plans[k].content # t
    BY <1>3 DEF EditsMade
  <2>3. \A k : k \in also <=> /\ k \in 1 .. n
                              /\ others[k].outcome = "edited" /\ others[k].content # t
    BY <1>3 DEF EditsMade
  <2> HIDE DEF made, also
  <2> QED
    BY <1>6, <2>1, <2>2, <2>3
<1> HIDE DEF made, also, o
<1>11. PICK k \in made : o = plans[k] /\ \A j \in made : plans[j].content = plans[k].content
  BY <1>7, <1>8, OutcomesApart
<1>12. \A j \in also : others[j].content = o.content
  BY <1>6, <1>10, <1>11
<1>13. also # {}
  BY <1>10, <1>11
<1>14. PICK j \in also : AgreedPlan(t, others) = others[j]
  BY <1>9, <1>12, <1>13
<1>15. AgreedPlan(t, others).content = o.content
  BY <1>12, <1>14
<1> QED
  BY <1>5, <1>8, <1>15 DEF WithinLimit

-----------------------------------------------------------------------------
\* Lines replaced by number.

\* A text with one kind of line ending has the dominant one.
LEMMA OneKindOfEnding ==
  ASSUME NEW t \in Text, Cardinality(Range(t) \cap Eols) = 1
  PROVE  dominantEol(t) \in Range(t)
<1> DEFINE crlfs == {i \in DOMAIN t : t[i] = "crlf"}
           lfs == {i \in DOMAIN t : t[i] = "lf"}
           E == Range(t) \cap Eols
<1>1. t \in Seq(Token) /\ Len(t) \in Nat /\ DOMAIN t = 1 .. Len(t)
  BY DEF Text
<1>2. \A x : x \in Range(t) <=> \E i \in 1 .. Len(t) : t[i] = x
  BY <1>1, RangeOf
<1>3. IsFiniteSet(1 .. Len(t))
  BY <1>1, FS_Interval
<1>4. IsFiniteSet(crlfs) /\ IsFiniteSet(lfs)
  <2>1. crlfs \in SUBSET (1 .. Len(t)) /\ lfs \in SUBSET (1 .. Len(t))
    BY <1>1
  <2> HIDE DEF crlfs, lfs
  <2> QED
    BY <1>3, <2>1, FS_Subset
<1>5. \E x : E = {x}
  <2>1. IsFiniteSet(Eols)
    <3>1. Eols = {"lf"} \cup {"crlf"}
      BY DEF Eols
    <3>2. IsFiniteSet({"lf"})
      BY FS_Singleton
    <3> QED
      BY <3>1, <3>2, FS_AddElement
  <2>2. E \in SUBSET Eols
    OBVIOUS
  <2>3. Cardinality(E) = 1
    OBVIOUS
  <2> HIDE DEF E
  <2>4. IsFiniteSet(E)
    BY <2>1, <2>2, FS_Subset
  <2> QED
    BY <2>3, <2>4, FS_Singleton
<1>6. crlfs # {} <=> "crlf" \in E
  BY <1>1, <1>2 DEF Eols
<1>7. lfs # {} <=> "lf" \in E
  BY <1>1, <1>2 DEF Eols
<1>8. E \in SUBSET {"lf", "crlf"}
  BY DEF Eols
<1>9. dominantEol(t) = IF Cardinality(crlfs) > Cardinality(lfs) THEN "crlf" ELSE "lf"
  BY DEF dominantEol
<1>10. \A x \in E : x \in Range(t)
  OBVIOUS
<1> HIDE DEF crlfs, lfs, E
<1>11. Cardinality(crlfs) \in Nat /\ Cardinality(lfs) \in Nat
  BY <1>4, FS_CardinalityType
<1>12. (Cardinality(crlfs) = 0 <=> crlfs = {}) /\ (Cardinality(lfs) = 0 <=> lfs = {})
  BY <1>4, FS_EmptySet
<1>13. CASE E = {"crlf"}
  <2>1. crlfs # {} /\ lfs = {}
    BY <1>6, <1>7, <1>13
  <2>2. dominantEol(t) = "crlf"
    BY <1>9, <1>11, <1>12, <2>1
  <2> QED
    BY <1>10, <1>13, <2>2
<1>14. CASE E = {"lf"}
  <2>1. crlfs = {}
    BY <1>6, <1>14
  <2>2. dominantEol(t) = "lf"
    BY <1>9, <1>11, <1>12, <2>1
  <2> QED
    BY <1>10, <1>14, <2>2
<1> QED
  BY <1>5, <1>8, <1>13, <1>14

\* The first part of a concatenation is a prefix.
LEMMA PrefixOfConcat ==
  ASSUME NEW S, NEW a \in Seq(S), NEW b \in Seq(S)
  PROVE  IsPrefix(a, a \o b)
<1> DEFINE n == Len(a)
           c == a \o b
<1>1. n \in Nat /\ c \in Seq(S) /\ Len(c) = n + Len(b) /\ Len(b) \in Nat
      /\ \A i \in 1 .. n : c[i] = a[i]
  BY ConcatProperties
<1>2. 1 \in 1 .. Len(a) + 1 /\ n \in 0 .. Len(a) /\ 1 <= n + 1
  BY <1>1
<1>3. 1 \in 1 .. Len(c) + 1 /\ n \in 0 .. Len(c)
  BY <1>1
<1> HIDE DEF c
<1>4. /\ SubSeq(a, 1, n) \in Seq(S) /\ Len(SubSeq(a, 1, n)) = n + 1 - 1
      /\ \A i \in 1 .. n + 1 - 1 : SubSeq(a, 1, n)[i] = a[1 + i - 1]
  BY <1>2, CutOf
<1>5. /\ SubSeq(c, 1, n) \in Seq(S) /\ Len(SubSeq(c, 1, n)) = n + 1 - 1
      /\ \A i \in 1 .. n + 1 - 1 : SubSeq(c, 1, n)[i] = c[1 + i - 1]
  BY <1>1, <1>2, <1>3, CutOf
<1>6. n + 1 - 1 = n /\ \A i \in 1 .. n : 1 + i - 1 = i
  BY <1>1
<1>7. SubSeq(a, 1, n) = SubSeq(c, 1, n)
  <2> DEFINE x == SubSeq(a, 1, n)
             y == SubSeq(c, 1, n)
  <2>1. /\ x \in Seq(S) /\ y \in Seq(S) /\ Len(x) = n /\ Len(y) = n
        /\ \A i \in 1 .. n : x[i] = y[i]
    <3> HIDE DEF n
    <3> QED
      BY <1>1, <1>4, <1>5, <1>6
  <2> HIDE DEF x, y
  <2>2. x = y
    BY <2>1, SeqEqual
  <2> QED
    BY <2>2 DEF x, y
<1> QED
  BY <1>1, <1>7 DEF IsPrefix, c

\* The second part of a concatenation is a suffix.
LEMMA SuffixOfConcat ==
  ASSUME NEW S, NEW a \in Seq(S), NEW b \in Seq(S)
  PROVE  IsSuffix(b, a \o b)
<1> DEFINE m == Len(a)
           n == Len(b)
           c == a \o b
           x == Reverse(a)
           y == Reverse(b)
           z == Reverse(c)
<1>1. /\ m \in Nat /\ n \in Nat /\ c \in Seq(S) /\ Len(c) = m + n
      /\ \A i \in 1 .. m : c[i] = a[i] /\ a[i] \in S
      /\ \A i \in 1 .. n : c[m + i] = b[i] /\ b[i] \in S
  BY ConcatProperties
<1> HIDE DEF c
<1>2. /\ x \in Seq(S) /\ Len(x) = m /\ \A i \in 1 .. m : x[i] = a[(m - i) + 1]
  <2>1. \A i \in 1 .. m : (m - i) + 1 \in 1 .. m
    BY <1>1
  <2>2. x = [i \in 1 .. m |-> a[(m - i) + 1]]
    BY DEF Reverse
  <2> HIDE DEF x, m
  <2> QED
    BY <1>1, <2>1, <2>2
<1>3. /\ y \in Seq(S) /\ Len(y) = n /\ \A i \in 1 .. n : y[i] = b[(n - i) + 1]
  <2>1. \A i \in 1 .. n : (n - i) + 1 \in 1 .. n
    BY <1>1
  <2>2. y = [i \in 1 .. n |-> b[(n - i) + 1]]
    BY DEF Reverse
  <2> HIDE DEF y, n
  <2> QED
    BY <1>1, <2>1, <2>2
<1> DEFINE l == m + n
<1>4. /\ z \in Seq(S) /\ Len(z) = l
      /\ \A i \in 1 .. l : z[i] = c[(l - i) + 1]
  <2>1. l \in Nat
    BY <1>1
  <2>2. z = [i \in 1 .. l |-> c[(l - i) + 1]]
    BY <1>1 DEF Reverse
  <2>3. \A i \in 1 .. l : c[i] \in S
    BY <1>1
  <2> HIDE DEF z, l
  <2>4. \A i \in 1 .. l : (l - i) + 1 \in 1 .. l
    BY <2>1
  <2>5. \A i \in 1 .. l : c[(l - i) + 1] \in S
    BY <2>3, <2>4
  <2> QED
    BY <2>1, <2>2, <2>5
<1> DEFINE w == y \o x
<1>5. /\ w \in Seq(S) /\ Len(w) = n + m
      /\ \A i \in 1 .. n : w[i] = y[i]
      /\ \A i \in n + 1 .. n + m : w[i] = x[i - n]
  <2> HIDE DEF x, y, m, n
  <2> QED
    BY <1>1, <1>2, <1>3, ConcatProperties
<1> HIDE DEF x, y, z, w, m, n
<1>6. \A i \in 1 .. l : z[i] = w[i]
  <2> TAKE i \in 1 .. l
  <2>0. z[i] = c[(l - i) + 1]
    <3> HIDE DEF l
    <3> QED
      BY <1>4
  <2>1. CASE i \in 1 .. n
    <3> DEFINE j == (n - i) + 1
    <3>1. j \in 1 .. n
      BY <1>1, <2>1
    <3>2. (l - i) + 1 = m + j
      BY <1>1, <2>1
    <3>3. w[i] = b[j]
      BY <1>3, <1>5, <2>1
    <3> HIDE DEF j, l
    <3> QED
      BY <1>1, <2>0, <3>1, <3>2, <3>3
  <2>2. CASE i \in n + 1 .. n + m
    <3> DEFINE k == i - n
               j == (m - k) + 1
    <3>1. k \in 1 .. m /\ j \in 1 .. m
      BY <1>1, <2>2
    <3>2. (l - i) + 1 = j
      BY <1>1, <2>2
    <3>3. w[i] = x[k]
      BY <1>5, <2>2
    <3>4. x[k] = a[j]
      <4> HIDE DEF k
      <4> QED
        BY <1>2, <3>1
    <3> HIDE DEF j, k, l
    <3> QED
      BY <1>1, <2>0, <3>1, <3>2, <3>3, <3>4
  <2> QED
    BY <1>1, <2>1, <2>2
<1>7. z = w
  <2>1. Len(z) = Len(w) /\ z \in Seq(S) /\ w \in Seq(S) /\ Len(z) = l
    BY <1>1, <1>4, <1>5
  <2> QED
    BY <1>6, <2>1, SeqEqual
<1>8. IsPrefix(y, w)
  BY <1>2, <1>3, PrefixOfConcat DEF w
<1> QED
  BY <1>7, <1>8 DEF IsSuffix, y, z, c

\* A range of lines is made of lines, all closed before the end of the file.
LEMMA LinesOfRange ==
  ASSUME NEW ls, IsLines(ls), NEW a \in 1 .. Len(ls) + 1, NEW b \in a - 1 .. Len(ls)
  PROVE  /\ IsLines(SubSeq(ls, a, b))
         /\ b < Len(ls) => FlattenSeq(SubSeq(ls, a, b)) = <<>>
                           \/ ClosedLine(FlattenSeq(SubSeq(ls, a, b)))
<1> DEFINE s == SubSeq(ls, a, b)
           n == Len(ls)
           m == b + 1 - a
<1>1. ls \in Seq(Text) /\ n \in Nat
      /\ \A k \in 1 .. n : IsLine(ls[k]) /\ (k < n => ClosedLine(ls[k]))
  BY DEF IsLines
<1>2. s \in Seq(Text) /\ Len(s) = m /\ \A k \in 1 .. m : s[k] = ls[a + k - 1]
  BY <1>1, ThreeParts, SMTT(30)
<1>3. m \in Nat /\ \A k \in 1 .. m : a + k - 1 \in 1 .. n
                                   /\ ((k < m \/ b < n) => a + k - 1 < n)
  BY <1>1
<1> HIDE DEF s
<1>4. \A k \in 1 .. m : IsLine(s[k]) /\ ((k < m \/ b < n) => ClosedLine(s[k]))
  <2> TAKE k \in 1 .. m
  <2> DEFINE j == a + k - 1
  <2>1. s[k] = ls[j] /\ j \in 1 .. n /\ ((k < m \/ b < n) => j < n)
    BY <1>2, <1>3
  <2> HIDE DEF j, m, n
  <2> QED
    BY <1>1, <2>1
<1> HIDE DEF m
<1>5. IsLines(s)
  BY <1>2, <1>4 DEF IsLines
<1>6. ASSUME b < n PROVE FlattenSeq(s) = <<>> \/ ClosedLine(FlattenSeq(s))
  <2>1. CASE s = <<>>
    BY <2>1, FlattenEmpty
  <2>2. CASE s # <<>>
    <3>1. Last(FlattenSeq(s)) = Last(Last(s))
      BY <1>5, <2>2, SplitOfLines
    <3>2. Last(s) = s[m] /\ m \in 1 .. m
      <4>1. Len(s) \in Nat \ {0} /\ Last(s) = s[Len(s)]
        BY <1>2, <2>2, LastFront
      <4> QED
        BY <1>2, <4>1
    <3>3. ClosedLine(s[m])
      BY <1>4, <1>6, <3>2
    <3> QED
      BY <3>1, <3>2, <3>3 DEF ClosedLine
  <2> QED
    BY <2>1, <2>2
<1> QED
  BY <1>5, <1>6 DEF s

\* The lines around a range of a call stay in u what they are in t.
RangeKept(t, u, c) ==
  LET old == splitLogicalLines(t)
      new == splitLogicalLines(u)
      r == c.replacements[1]
  IN  /\ IsPrefix(SubSeq(old, 1, c.from - 1), new)
      /\ (r = <<>> \/ Last(r) \in Eols \cup {"esc"}) =>
           IsSuffix(SubSeq(old, c.to + 1, Len(old)), new)

\* What replaceSandboxLines writes has the line endings of the file, and is closed
\* if the replacement was complete lines.
LEMMA WrittenLines ==
  ASSUME NEW r \in Text, NEW eol \in Eols
  PROVE  LET w == normalizeLineEndings(decodeEscapedText(r), eol)
         IN  /\ w \in Text
             /\ \A i \in 1 .. Len(w) : w[i] \in Eols => w[i] = eol
             /\ (r = <<>> \/ Last(r) \in Eols \cup {"esc"}) => w = <<>> \/ ClosedLine(w)
<1> DEFINE d == decodeEscapedText(r)
           w == normalizeLineEndings(d, eol)
           n == Len(r)
<1>1. /\ d \in Text /\ Len(d) = n
      /\ \A i \in 1 .. n : d[i] = IF r[i] = "esc" THEN "lf" ELSE r[i]
  BY DecodeOf
<1> HIDE DEF d
<1>2. /\ w \in Text /\ Len(w) = Len(d)
      /\ \A i \in 1 .. Len(d) : w[i] = IF d[i] \in Eols THEN eol ELSE d[i]
  BY <1>1, NormalizeOf
<1> HIDE DEF w
<1>3. \A i \in 1 .. Len(w) : w[i] \in Eols => w[i] = eol
  BY <1>1, <1>2
<1>4. ASSUME Last(r) \in Eols \cup {"esc"}, r # <<>> PROVE ClosedLine(w)
  <2>1. n \in Nat \ {0} /\ Last(r) = r[n] /\ n \in 1 .. n
    <3>1. r \in Seq(Token) /\ r # <<>>
      BY <1>4 DEF Text
    <3>2. Len(r) \in Nat \ {0} /\ Last(r) = r[Len(r)]
      BY <3>1, LastFront
    <3> QED
      BY <3>2
  <2>2. d[n] \in Eols
    BY <1>1, <1>4, <2>1 DEF Eols
  <2>3. w[n] \in Eols
    BY <1>1, <1>2, <2>1, <2>2
  <2>4. w # <<>>
    BY <1>1, <1>2, <2>1 DEF Text
  <2>5. Last(w) = w[n]
    <3>1. w \in Seq(Token) /\ Len(w) = n
      BY <1>1, <1>2 DEF Text
    <3>2. Last(w) = w[Len(w)]
      BY <2>4, <3>1, LastFront
    <3> QED
      BY <3>1, <3>2
  <2> QED
    BY <2>3, <2>5 DEF ClosedLine
<1>5. ASSUME r = <<>> PROVE w = <<>>
  <2>1. Len(w) = 0
    BY <1>1, <1>2, <1>5
  <2> QED
    BY <1>2, <2>1 DEF Text
<1> QED
  BY <1>2, <1>3, <1>4, <1>5 DEF w, d

\* replaceSandboxLines keeps the lines around the range and the line endings.
LEMMA RangeReplacedOf ==
  ASSUME NEW t \in Text, NEW c, NEW r \in Text, r = c.replacements[1],
         c.from \in 1 .. Len(splitLogicalLines(t)),
         c.to \in c.from .. Len(splitLogicalLines(t))
  PROVE  /\ RangeReplaced(t, c) \in Text
         /\ RangeKept(t, RangeReplaced(t, c), c)
         /\ Range(RangeReplaced(t, c)) \cap Eols \subseteq Range(t) \cup {dominantEol(t)}
<1> DEFINE ls == splitLogicalLines(t)
           n == Len(ls)
           a == c.from
           b == c.to
           p == SubSeq(ls, 1, a - 1)
           m == SubSeq(ls, a, b)
           q == SubSeq(ls, b + 1, n)
           eol == dominantEol(t)
           w == normalizeLineEndings(decodeEscapedText(r), eol)
           u == RangeReplaced(t, c)
           fp == FlattenSeq(p)
           fm == FlattenSeq(m)
           fq == FlattenSeq(q)
<1>1. ls \in Seq(Text) /\ IsLines(ls) /\ FlattenSeq(ls) = t
  BY SplitIsLines
<1>2. u = fp \o w \o fq
  BY DEF RangeReplaced
<1>3. /\ w \in Text
      /\ \A i \in 1 .. Len(w) : w[i] \in Eols => w[i] = eol
      /\ (r = <<>> \/ Last(r) \in Eols \cup {"esc"}) => w = <<>> \/ ClosedLine(w)
  BY WrittenLines, DominantEolType
<1> HIDE DEF ls, w, u
<1>4. /\ n \in Nat /\ a \in 1 .. n /\ b \in a .. n /\ a \in 1 .. Len(ls) + 1
      /\ b \in a - 1 .. Len(ls)
  BY <1>1 DEF ls
<1>5. p \in Seq(Text) /\ m \in Seq(Text) /\ q \in Seq(Text) /\ ls = p \o (m \o q)
  <2> HIDE DEF a, b
  <2> QED
    BY <1>1, <1>4, ThreeParts
<1>6. IsLines(p) /\ (fp = <<>> \/ ClosedLine(fp))
  <2>1. 1 \in 1 .. Len(ls) + 1 /\ a - 1 \in 1 - 1 .. Len(ls) /\ a - 1 < Len(ls)
    BY <1>4
  <2> DEFINE i == a - 1
  <2>2. 1 \in 1 .. Len(ls) + 1 /\ i \in 1 - 1 .. Len(ls) /\ i < Len(ls)
    BY <2>1
  <2> HIDE DEF i
  <2>3. IsLines(SubSeq(ls, 1, i))
    BY <1>1, <2>2, LinesOfRange
  <2>4. FlattenSeq(SubSeq(ls, 1, i)) = <<>> \/ ClosedLine(FlattenSeq(SubSeq(ls, 1, i)))
    BY <1>1, <2>2, LinesOfRange
  <2> QED
    BY <2>3, <2>4 DEF i
<1>7. IsLines(q)
  <2>1. b + 1 \in 1 .. Len(ls) + 1 /\ n \in b + 1 - 1 .. Len(ls)
    BY <1>4
  <2> DEFINE i == b + 1
  <2>2. i \in 1 .. Len(ls) + 1 /\ n \in i - 1 .. Len(ls)
    BY <2>1
  <2> HIDE DEF i
  <2>3. IsLines(SubSeq(ls, i, n))
    BY <1>1, <2>2, LinesOfRange
  <2> QED
    BY <2>3 DEF i
<1> HIDE DEF p, m, q
<1>8. fp \in Text /\ fm \in Text /\ fq \in Text /\ t = fp \o (fm \o fq)
  <2>1. fp \in Text /\ fm \in Text /\ fq \in Text
        /\ FlattenSeq(p \o (m \o q)) = fp \o (fm \o fq)
    BY <1>5, FlattenThreeParts
  <2> QED
    BY <1>1, <1>5, <2>1
<1>9. splitLogicalLines(fp) = p /\ splitLogicalLines(fq) = q
  BY <1>6, <1>7, SplitOfLines
<1> HIDE DEF fp, fm, fq
<1>10. w \o fq \in Text /\ u = fp \o (w \o fq) /\ u \in Text
  <2>1. fp \in Seq(Token) /\ w \in Seq(Token) /\ fq \in Seq(Token)
    BY <1>3, <1>8 DEF Text
  <2>2. (fp \o w) \o fq = fp \o (w \o fq)
    <3>1. Associates(fp, w, fq)
      BY <2>1, Associative, Zenon
    <3> QED
      BY <3>1, Zenon DEF Associates
  <2>3. w \o fq \in Seq(Token)
    BY <2>1, ConcatProperties
  <2> DEFINE v == w \o fq
  <2>4. fp \o v \in Seq(Token)
    <3> HIDE DEF v
    <3>1. v \in Seq(Token)
      BY <2>3 DEF v
    <3> QED
      BY <2>1, <3>1, ConcatProperties
  <2> QED
    BY <1>2, <2>2, <2>3, <2>4 DEF Text
<1> DEFINE v == w \o fq
           new == splitLogicalLines(u)
<1>11. new = p \o splitLogicalLines(v)
  <2> HIDE DEF v
  <2>1. v \in Text /\ u = fp \o v
    BY <1>10 DEF v
  <2>2. splitLogicalLines(fp \o v) = splitLogicalLines(fp) \o splitLogicalLines(v)
    BY <1>6, <1>8, <2>1, SplitConcat
  <2> QED
    BY <1>9, <2>1, <2>2
<1>12. IsPrefix(p, new)
  <2>1. splitLogicalLines(v) \in Seq(Text)
    BY <1>10, SplitType
  <2> HIDE DEF v, new
  <2> QED
    BY <1>5, <1>11, <2>1, PrefixOfConcat
<1>13. ASSUME r = <<>> \/ Last(r) \in Eols \cup {"esc"} PROVE IsSuffix(q, new)
  <2> DEFINE x == splitLogicalLines(w)
  <2>1. splitLogicalLines(v) = x \o q
    BY <1>3, <1>8, <1>9, <1>13, SplitConcat
  <2>2. x \in Seq(Text)
    BY <1>3, SplitType
  <2> HIDE DEF x, v, new
  <2>3. (p \o x) \o q = p \o (x \o q)
    <3>1. Associates(p, x, q)
      BY <1>5, <2>2, Associative, Zenon
    <3> QED
      BY <3>1, Zenon DEF Associates
  <2>4. p \o x \in Seq(Text)
    BY <1>5, <2>2, ConcatProperties
  <2> DEFINE y == p \o x
  <2>5. IsSuffix(q, y \o q)
    <3> HIDE DEF y
    <3>1. y \in Seq(Text)
      BY <2>4 DEF y
    <3> QED
      BY <1>5, <3>1, SuffixOfConcat
  <2> QED
    BY <1>11, <2>1, <2>3, <2>5
<1>14. RangeKept(t, u, c)
  BY <1>12, <1>13 DEF RangeKept, p, q, ls
<1>15. Range(u) \cap Eols \subseteq Range(t) \cup {eol}
  <2>1. Range(u) = Range(fp) \cup Range(w) \cup Range(fq)
    BY <1>2, <1>3, <1>8, RangeOfParts DEF fp, fq
  <2>2. Range(t) = Range(fp) \cup Range(fm) \cup Range(fq)
    BY <1>8, RangeOfParts
  <2>3. Range(w) \cap Eols \subseteq {eol}
    <3>1. \A x : x \in Range(w) <=> \E k \in 1 .. Len(w) : w[k] = x
      BY <1>3, RangeOf DEF Text
    <3> QED
      BY <1>3, <3>1
  <2> QED
    BY <2>1, <2>2, <2>3
<1> QED
  BY <1>10, <1>14, <1>15 DEF u

\* What a call for a range of lines may come to.
LineResult(o, t, c) ==
  \/ o = Failed
  \/ /\ o = Edited(o.content, "line_range")
     /\ o.content \in Text /\ Len(o.content) <= MaxFileSize
     /\ RangeKept(t, o.content, c)
     /\ Range(o.content) \cap Eols \subseteq Range(t) \cup {dominantEol(t)}

\* What replaceSandboxLines answers.
LEMMA LineResultOf ==
  ASSUME NEW t \in Text, NEW c \in Call, c.from > 0
  PROVE  LineResult(replaceSandboxLines(t, c), t, c)
<1> DEFINE ls == splitLogicalLines(t)
           u == RangeReplaced(t, c)
           o == Edited(u, "line_range")
<1>1. /\ c.replacements \in Seq(Text) /\ Len(c.replacements) = 1
      /\ c.from \in Nat /\ c.to \in Nat /\ c.replacements[1] \in Text
  BY DEF Call, Text
<1>2. ls \in Seq(Text) /\ Len(ls) \in Nat
  BY SplitIsLines
<1>3. \/ replaceSandboxLines(t, c) = Failed
      \/ /\ c.from <= c.to /\ c.to <= Len(ls)
         /\ replaceSandboxLines(t, c) = WithinLimit(t, o)
  BY DEF replaceSandboxLines
<1>4. CASE replaceSandboxLines(t, c) = Failed
  BY <1>4 DEF LineResult
<1>5. CASE /\ c.from <= c.to /\ c.to <= Len(ls)
           /\ replaceSandboxLines(t, c) = WithinLimit(t, o)
  <2>1. c.from \in 1 .. Len(ls) /\ c.to \in c.from .. Len(ls)
    BY <1>1, <1>2, <1>5
  <2>2. /\ u \in Text /\ RangeKept(t, u, c)
        /\ Range(u) \cap Eols \subseteq Range(t) \cup {dominantEol(t)}
    BY <1>1, <2>1, RangeReplacedOf
  <2>3. o.content = u
    BY OutcomesApart
  <2> HIDE DEF u, ls
  <2>4. Len(u) \in Nat
    BY <2>2 DEF Text
  <2>5. CASE Len(u) > MaxFileSize
    BY <1>5, <2>3, <2>5 DEF WithinLimit, LineResult
  <2>6. CASE ~(Len(u) > MaxFileSize)
    <3>1. Len(u) <= MaxFileSize
      BY <2>4, <2>6, EditAssumption
    <3>2. replaceSandboxLines(t, c) = o
      BY <1>5, <2>3, <2>6 DEF WithinLimit
    <3>3. o = Edited(o.content, "line_range")
      BY <2>3
    <3> HIDE DEF o
    <3> QED
      BY <2>2, <2>3, <3>1, <3>2, <3>3 DEF LineResult
  <2> QED
    BY <2>5, <2>6
<1> QED
  BY <1>3, <1>4, <1>5

-----------------------------------------------------------------------------
\* The calls.

\* One stretch that is replaced as asked, in the positions of ReplacedAsAsked.
AskedAt(t, u, strategy, e, r) ==
  \E i \in 1 .. Len(t) + 1 :
    \E n \in 0 .. Len(t) + 1 - i :
      LET size == Len(u) + n - Len(t)
          old == SubSeq(t, i, i + n - 1)
          new == SubSeq(u, i, i + size - 1)
      IN  /\ size >= 0
          /\ u = Spliced(t, i, n, new)
          /\ AsAsked(old, new, e, r)
          /\ strategy # "indentation" => FoundOnlyAt(t, old, i)

\* A stretch of t is found at such positions.
LEMMA AskedStretch ==
  ASSUME NEW t \in Text, NEW u \in Text, NEW strategy, NEW e, NEW r,
         Asked(t, u, strategy, e, r)
  PROVE  AskedAt(t, u, strategy, e, r)
<1>1. PICK p \in Text, old \in Text, new \in Text, s \in Text :
             /\ t = p \o (old \o s)
             /\ u = p \o new \o s
             /\ AsAsked(old, new, e, r)
             /\ strategy # "indentation" => FoundOnlyAt(t, old, Len(p) + 1)
  BY DEF Asked
<1> DEFINE a == Len(p)
           n == Len(old)
           m == Len(new)
           z == Len(s)
           i == a + 1
<1>2. a \in Nat /\ n \in Nat /\ m \in Nat /\ z \in Nat
  BY DEF Text
<1>3. /\ Spliced(t, a + 1, n, new) = u
      /\ SubSeq(t, a + 1, a + n) = old
      /\ Len(t) = a + n + z
  <2>1. p \in Seq(Token) /\ old \in Seq(Token) /\ new \in Seq(Token) /\ s \in Seq(Token)
    BY DEF Text
  <2>2. MiddleFound(p, old, s)
    BY <2>1, SplicedConcat
  <2>3. /\ Spliced(p \o (old \o s), Len(p) + 1, Len(old), new) = p \o new \o s
        /\ SubSeq(p \o (old \o s), Len(p) + 1, Len(p) + Len(old)) = old
        /\ Len(p \o (old \o s)) = Len(p) + Len(old) + Len(s)
    BY <2>2, Zenon DEF MiddleFound
  <2> QED
    BY <1>1, <2>3, Zenon
<1>4. u = p \o (new \o s)
  <2>1. p \in Seq(Token) /\ new \in Seq(Token) /\ s \in Seq(Token)
    BY DEF Text
  <2>2. Associates(p, new, s)
    BY <2>1, Associative, Zenon
  <2> QED
    BY <1>1, <2>2, Zenon DEF Associates
<1>5. SubSeq(u, a + 1, a + m) = new /\ Len(u) = a + m + z
  <2>1. p \in Seq(Token) /\ new \in Seq(Token) /\ s \in Seq(Token)
    BY DEF Text
  <2>2. MiddleFound(p, new, s)
    BY <2>1, SplicedConcat
  <2>3. /\ SubSeq(p \o (new \o s), Len(p) + 1, Len(p) + Len(new)) = new
        /\ Len(p \o (new \o s)) = Len(p) + Len(new) + Len(s)
    BY <2>2, Zenon DEF MiddleFound
  <2> QED
    BY <1>4, <2>3, Zenon
<1> HIDE DEF a, n, m, z
<1>6. /\ i \in 1 .. Len(t) + 1 /\ n \in 0 .. Len(t) + 1 - i
      /\ Len(u) + n - Len(t) = m /\ m >= 0
      /\ i + n - 1 = a + n /\ i + m - 1 = a + m /\ i = a + 1
  BY <1>2, <1>3, <1>5
<1> HIDE DEF i
<1>7. /\ Len(u) + n - Len(t) >= 0
      /\ SubSeq(t, i, i + n - 1) = old
      /\ SubSeq(u, i, i + (Len(u) + n - Len(t)) - 1) = new
      /\ u = Spliced(t, i, n, new)
  BY <1>3, <1>5, <1>6
<1>8. strategy # "indentation" => FoundOnlyAt(t, old, i)
  BY <1>1 DEF a, i
<1> QED
  BY <1>1, <1>6, <1>7, <1>8 DEF AskedAt

-----------------------------------------------------------------------------
\* The invariant.

\* What the handler of a call answers.
ResultOf(t, c) ==
  IF c.from = 0 THEN replaceSandboxTextWithCandidates(t, c) ELSE replaceSandboxLines(t, c)

\* The last call met a text and left the file its handler makes of it.
Answered ==
  \/ last = NoCall
  \/ /\ last.call \in Call
     /\ last.before \in Text
     /\ last.result = ResultOf(last.before, last.call)
     /\ file = IF last.result.outcome = "edited" THEN last.result.content ELSE last.before

\* The file is a text of at most the size the policy allows.
FileFits == file \in Text /\ Len(file) <= MaxFileSize

\* The inductive invariant: the last answer is the one its handler gives on the file
\* it met, and the file is what the answer left.
IInv == FileFits /\ Answered /\ calls \in 0 .. MaxCalls

\* What a call is made of.
LEMMA CallType ==
  ASSUME NEW c \in Call
  PROVE  /\ c.expected \in Text /\ c.replacements \in Seq(Text)
         /\ c.from \in Nat /\ c.to \in Nat
BY DEF Call, Text

\* An edit makes a text that fits.
LEMMA ResultType ==
  ASSUME NEW t \in Text, NEW c \in Call, ResultOf(t, c).outcome = "edited"
  PROVE  ResultOf(t, c).content \in Text /\ Len(ResultOf(t, c).content) <= MaxFileSize
<1>1. CASE c.from = 0
  <2> DEFINE o == replaceSandboxTextWithCandidates(t, c)
  <2>1. EditResult(o, t, c)
    BY CallType, EditResultOf
  <2>2. ResultOf(t, c) = o
    BY <1>1 DEF ResultOf
  <2> HIDE DEF o
  <2> QED
    BY <2>1, <2>2, OutcomesApart DEF EditResult, Plan
<1>2. CASE c.from # 0
  <2> DEFINE o == replaceSandboxLines(t, c)
  <2>1. c.from > 0
    BY <1>2, CallType
  <2>2. LineResult(o, t, c)
    BY <2>1, LineResultOf
  <2>3. ResultOf(t, c) = o
    BY <1>2 DEF ResultOf
  <2> HIDE DEF o
  <2> QED
    BY <2>2, <2>3, OutcomesApart DEF LineResult
<1> QED
  BY <1>1, <1>2

\* The files of the start are texts that fit.
LEMMA InitInvariant ==
  Init => IInv
<1> SUFFICES ASSUME Init PROVE IInv
  OBVIOUS
<1>1. file \in Text /\ Len(file) <= MaxFileSize
  BY EditAssumption DEF Init, Text
<1>2. calls \in 0 .. MaxCalls
  BY EditAssumption DEF Init
<1> QED
  BY <1>1, <1>2 DEF Init, IInv, FileFits, Answered

\* An answer keeps the invariant.
LEMMA AnswerInvariant ==
  ASSUME IInv, NEW c \in Calls, Answer(c, ResultOf(file, c))
  PROVE  IInv'
<1> DEFINE o == ResultOf(file, c)
<1>1. file \in Text /\ Len(file) <= MaxFileSize /\ calls \in 0 .. MaxCalls
  BY DEF IInv, FileFits
<1>2. c \in Call
  BY EditAssumption
<1>3. o.outcome = "edited" => o.content \in Text /\ Len(o.content) <= MaxFileSize
  BY <1>1, <1>2, ResultType
<1>4. /\ calls < MaxCalls /\ calls' = calls + 1
      /\ last' = [before |-> file, result |-> o, call |-> c]
      /\ file' = IF o.outcome = "edited" THEN o.content ELSE file
  BY DEF Answer
<1>5. last'.result = ResultOf(last'.before, last'.call)
  BY <1>4
<1> HIDE DEF o
<1>6. FileFits'
  BY <1>1, <1>3, <1>4 DEF FileFits
<1>7. calls' \in 0 .. MaxCalls
  BY <1>1, <1>4, EditAssumption
<1>8. Answered'
  BY <1>1, <1>2, <1>4, <1>5 DEF Answered
<1> QED
  BY <1>6, <1>7, <1>8 DEF IInv

\* Every step keeps the invariant.
LEMMA NextInvariant ==
  IInv /\ [Next]_vars => IInv'
<1> SUFFICES ASSUME IInv, [Next]_vars PROVE IInv'
  OBVIOUS
<1>1. ASSUME NEW c \in Calls, EditRepoFile(c) PROVE IInv'
  <2>1. Answer(c, ResultOf(file, c))
    BY <1>1 DEF EditRepoFile, ResultOf
  <2> QED
    BY <2>1, AnswerInvariant
<1>2. ASSUME NEW c \in Calls, ReplaceRepoLines(c) PROVE IInv'
  <2>1. c.from # 0
    BY <1>2, CallType, EditAssumption DEF ReplaceRepoLines
  <2>2. Answer(c, ResultOf(file, c))
    BY <1>2, <2>1 DEF ReplaceRepoLines, ResultOf
  <2> QED
    BY <2>2, AnswerInvariant
<1>3. CASE UNCHANGED vars
  BY <1>3 DEF vars, IInv, FileFits, Answered
<1> QED
  BY <1>1, <1>2, <1>3 DEF Next

\* After every call of edit_repo_file or replace_repo_lines, in any number and for
\* any words, files and texts, the file is what the last answer says.
THEOREM EditInvariant ==
  Spec => []IInv
BY InitInvariant, NextInvariant, PTL DEF Spec

\* What was written by the last call, if it edited anything.
LEMMA LastEdit ==
  ASSUME IInv, HasEdited
  PROVE  /\ last.call \in Call /\ last.before \in Text /\ file \in Text
         /\ file = last.result.content
         /\ \/ last.call.from = 0 /\ EditResult(last.result, last.before, last.call)
            \/ last.call.from # 0 /\ LineResult(last.result, last.before, last.call)
<1>1. last # NoCall
  <2>1. NoCall.result = Failed
    BY DEF NoCall
  <2> QED
    BY <2>1, OutcomesApart DEF HasEdited
<1>2. /\ last.call \in Call /\ last.before \in Text
      /\ last.result = ResultOf(last.before, last.call)
      /\ file = last.result.content /\ file \in Text
  BY <1>1 DEF IInv, Answered, FileFits, HasEdited
<1>3. CASE last.call.from = 0
  BY <1>2, <1>3, CallType, EditResultOf DEF ResultOf
<1>4. CASE last.call.from # 0
  <2>1. last.call.from > 0
    BY <1>2, <1>4, CallType
  <2> QED
    BY <1>2, <1>4, <2>1, LineResultOf DEF ResultOf
<1> QED
  BY <1>2, <1>3, <1>4

\* Only an edit names a strategy.
LEMMA StrategyOfEdit ==
  ASSUME IInv, last.result.strategy # "none"
  PROVE  HasEdited
<1>1. last # NoCall
  <2>1. NoCall.result = Failed
    BY DEF NoCall
  <2> QED
    BY <2>1, OutcomesApart
<1>2. /\ last.call \in Call /\ last.before \in Text
      /\ last.result = ResultOf(last.before, last.call)
  BY <1>1 DEF IInv, Answered
<1>3. CASE last.call.from = 0
  <2>1. EditResult(last.result, last.before, last.call)
    BY <1>2, <1>3, CallType, EditResultOf DEF ResultOf
  <2> QED
    BY <2>1, OutcomesApart DEF EditResult, Plan, HasEdited
<1>4. CASE last.call.from # 0
  <2>1. last.call.from > 0
    BY <1>2, <1>4, CallType
  <2>2. LineResult(last.result, last.before, last.call)
    BY <1>2, <1>4, <2>1, LineResultOf DEF ResultOf
  <2> QED
    BY <2>2, OutcomesApart DEF LineResult, HasEdited
<1> QED
  BY <1>3, <1>4

\* The invariant and PlanOf give ReplacedAsAsked.
LEMMA InvariantAsked ==
  IInv => ReplacedAsAsked
<1> SUFFICES ASSUME IInv, TextReplaced PROVE ReplacedAsAsked
  BY DEF ReplacedAsAsked
<1> DEFINE t == last.before
           c == last.call
           rs == c.replacements
<1>1. HasEdited /\ c.from = 0
  BY DEF TextReplaced
<1>2. /\ c \in Call /\ t \in Text /\ file \in Text /\ file = last.result.content
      /\ EditResult(last.result, t, c)
  BY <1>1, LastEdit
<1>3. PICK k \in 1 .. Len(rs) :
             Asked(t, file, last.result.strategy, c.expected, rs[k])
  BY <1>1, <1>2, OutcomesApart DEF EditResult, Plan, HasEdited
<1>4. rs[k] \in Range(rs)
  <2>1. rs \in Seq(Text)
    BY <1>2, CallType
  <2> QED
    BY <1>3, <2>1, RangeOf
<1>5. AskedAt(t, file, last.result.strategy, c.expected, rs[k])
  <2> HIDE DEF t
  <2> QED
    BY <1>2, <1>3, AskedStretch
<1> QED
  BY <1>4, <1>5 DEF ReplacedAsAsked, AskedAt

\* The invariant and the quoting of the readings give QuotingIsNotWritten.
LEMMA InvariantQuoting ==
  IInv => QuotingIsNotWritten
<1> SUFFICES ASSUME IInv, TextReplaced,
                    \A r \in Range(last.call.replacements) :
                      QuotedAlike(last.call.expected, r)
             PROVE  Quoting(file) \cap Quoting(last.call.expected) \subseteq Quoting(last.before)
  BY DEF QuotingIsNotWritten
<1> DEFINE t == last.before
           c == last.call
           rs == c.replacements
<1>1. HasEdited /\ c.from = 0
  BY DEF TextReplaced
<1>2. /\ c \in Call /\ t \in Text /\ file \in Text /\ file = last.result.content
      /\ EditResult(last.result, t, c)
  BY <1>1, LastEdit
<1>3. PICK k \in 1 .. Len(rs) :
        QuotedAlike(c.expected, rs[k]) => KeepsQuoting(t, file, c.expected)
  BY <1>1, <1>2, OutcomesApart DEF EditResult, Plan, HasEdited
<1>4. rs[k] \in Range(rs)
  <2>1. rs \in Seq(Text)
    BY <1>2, CallType
  <2> QED
    BY <1>3, <2>1, RangeOf
<1>5. KeepsQuoting(t, file, c.expected)
  BY <1>3, <1>4
<1>6. \A u : Quoting(u) = {x \in Quotes : x \in Range(u)}
  BY HasOf DEF Quoting, Quotes
<1> QED
  BY <1>5, <1>6 DEF KeepsQuoting

\* The invariant and BlockOf give BlockKeepsLayout.
LEMMA InvariantLayout ==
  IInv => BlockKeepsLayout
<1> SUFFICES ASSUME IInv, last.result.strategy = "indentation" PROVE BlockKeepsLayout
  BY DEF BlockKeepsLayout
<1>1. HasEdited
  BY StrategyOfEdit
<1>2. /\ file = last.result.content
      /\ \/ EditResult(last.result, last.before, last.call)
         \/ LineResult(last.result, last.before, last.call)
  BY <1>1, LastEdit
<1>3. LayoutKept(last.before, file)
  BY <1>1, <1>2, OutcomesApart DEF EditResult, LineResult, Plan, HasEdited
<1> QED
  BY <1>3 DEF BlockKeepsLayout, LayoutKept

\* The invariant and what the three strategies write give LineEndingsKept.
LEMMA InvariantEndings ==
  IInv => LineEndingsKept
<1> SUFFICES ASSUME IInv,
                    last.result.strategy \in {"line_range", "line_endings", "indentation"},
                    Cardinality(Range(last.before) \cap Eols) = 1
             PROVE  Range(file) \cap Eols \subseteq Range(last.before)
  BY DEF LineEndingsKept
<1>1. HasEdited
  BY StrategyOfEdit
<1>2. /\ file = last.result.content /\ last.before \in Text
      /\ \/ EditResult(last.result, last.before, last.call)
         \/ LineResult(last.result, last.before, last.call)
  BY <1>1, LastEdit
<1>3. Range(file) \cap Eols \subseteq Range(last.before) \cup {dominantEol(last.before)}
  BY <1>1, <1>2, OutcomesApart DEF EditResult, LineResult, Plan, HasEdited
<1>4. dominantEol(last.before) \in Range(last.before)
  BY <1>2, OneKindOfEnding
<1> QED
  BY <1>3, <1>4

\* The invariant and RangeReplacedOf give RangeIsReplaced.
LEMMA InvariantRange ==
  IInv => RangeIsReplaced
<1> SUFFICES ASSUME IInv, last.result.strategy = "line_range" PROVE RangeIsReplaced
  BY DEF RangeIsReplaced
<1>1. HasEdited
  BY StrategyOfEdit
<1>2. /\ file = last.result.content
      /\ \/ EditResult(last.result, last.before, last.call)
         \/ LineResult(last.result, last.before, last.call)
  BY <1>1, LastEdit
<1>3. RangeKept(last.before, file, last.call)
  BY <1>1, <1>2, OutcomesApart DEF EditResult, LineResult, Plan, HasEdited
<1> QED
  BY <1>3 DEF RangeIsReplaced, RangeKept

\* The invariant and ReversedAlike give AliasOrderIsIrrelevant.
LEMMA InvariantOrder ==
  IInv => AliasOrderIsIrrelevant
<1> SUFFICES ASSUME IInv, TextReplaced PROVE AliasOrderIsIrrelevant
  BY DEF AliasOrderIsIrrelevant
<1> DEFINE t == last.before
           c == last.call
           d == [c EXCEPT !.replacements = Reverse(@)]
<1>1. HasEdited /\ c.from = 0
  BY DEF TextReplaced
<1>2. c \in Call /\ t \in Text /\ file = last.result.content
  BY <1>1, LastEdit
<1>3. last # NoCall
  <2>1. NoCall.result = Failed
    BY DEF NoCall
  <2> QED
    BY <1>1, <2>1, OutcomesApart DEF HasEdited
<1>4. last.result = replaceSandboxTextWithCandidates(t, c)
  BY <1>1, <1>3 DEF IInv, Answered, ResultOf
<1>5. c.expected \in Text /\ c.replacements \in Seq(Text)
  BY <1>2, CallType
<1>6. d.expected = c.expected /\ d.replacements = Reverse(c.replacements)
  BY <1>2 DEF Call
<1> HIDE DEF d, t, c
<1>7. replaceSandboxTextWithCandidates(t, d).content
        = replaceSandboxTextWithCandidates(t, c).content
  BY <1>1, <1>2, <1>4, <1>5, <1>6, ReversedAlike DEF HasEdited
<1>8. replaceSandboxTextWithCandidates(t, d).content = file
  BY <1>2, <1>4, <1>7
<1> QED
  BY <1>8 DEF AliasOrderIsIrrelevant, d, t, c

\* No edit makes the file larger than policy.maxSnapshotBytes
\* (replaceSandboxTextWithCandidates, replaceSandboxLines).
THEOREM FileStaysText ==
  Spec => []FileFits
BY EditInvariant, PTL DEF IInv

\* Whichever reading edit_repo_file takes of a call, it replaces one stretch of the
\* file that says what was expected by one that says what was asked for, and leaves
\* the rest (buildTextReplacement, replaceIndentationInsensitiveBlock).
THEOREM EditsReplaceAsAsked ==
  Spec => []ReplacedAsAsked
BY EditInvariant, InvariantAsked, PTL

\* Fences, line numbers and escaped line breaks in which a model quotes both texts
\* alike are never written to a file that had none (buildTextReplacementVariants).
THEOREM QuotingStaysOut ==
  Spec => []QuotingIsNotWritten
BY EditInvariant, InvariantQuoting, PTL

\* An edit that found its lines in spite of their indentation takes no indentation
\* and no line ending from any line (adjustIndentation).
THEOREM BlocksKeepLayout ==
  Spec => []BlockKeepsLayout
BY EditInvariant, InvariantLayout, PTL

\* A file with one kind of line ending keeps it when lines are replaced by number, by
\* block or with normalised endings (replaceSandboxLines).
THEOREM EndingsAreKept ==
  Spec => []LineEndingsKept
BY EditInvariant, InvariantEndings, PTL

\* replace_repo_lines leaves the lines around its range what they were, if the
\* replacement is complete lines (replaceSandboxLines).
THEOREM RangesAreReplaced ==
  Spec => []RangeIsReplaced
BY EditInvariant, InvariantRange, PTL

\* The order in which a model names its replacements decides nothing: only replacements
\* that agree are made (buildTextReplacementFromCandidates).
THEOREM AliasOrderNeverMatters ==
  Spec => []AliasOrderIsIrrelevant
BY EditInvariant, InvariantOrder, PTL

=============================================================================
