--------------------------- MODULE WaitStoreProofs ---------------------------
(***************************************************************************)
(* Theorems about the wait repository and its files, for any keys, rings,  *)
(* hours and files.                                                        *)
(***************************************************************************)
EXTENDS WaitStore, SequenceTheorems, WellFoundedInduction, TLAPS

-----------------------------------------------------------------------------
(* Induction, over a set that is closed under the step                     *)

(* Numbers that are not empty have a smallest one.                         *)
LEMMA Smallest ==
  ASSUME NEW S \in SUBSET Nat, S # {}
  PROVE  \E m \in S : \A n \in S : m <= n
  <1> DEFINE R == OpToRel(<, Nat)
  <1>1. \A m, n \in Nat : n < m => <<n, m>> \in R BY DEF OpToRel
  <1>2. \E m \in S : \A n \in S : ~ (<<n, m>> \in R)
    <2>1. IsWellFoundedOn(R, Nat) BY NatLessThanWellFounded
    <2> HIDE DEF R
    <2> QED BY <2>1, WFMin
  <1>3. PICK m \in S : \A n \in S : ~ (<<n, m>> \in R)
    <2> HIDE DEF R
    <2> QED BY <1>2
  <1>4. ASSUME NEW n \in S PROVE m <= n
    <2>1. ~ (n < m)
      <3> HIDE DEF R
      <3> QED BY <1>1, <1>3, Zenon
    <2> QED BY <2>1
  <1> QED BY <1>4

LEMMA Induct ==
  ASSUME NEW B, 0 \in B, \A n \in Nat : n \in B => n + 1 \in B
  PROVE  Nat \subseteq B
  <1> SUFFICES ASSUME Nat \ B # {} PROVE FALSE OBVIOUS
  <1>1. PICK m \in Nat \ B : \A n \in Nat \ B : m <= n BY Smallest
  <1>2. m - 1 \in Nat /\ m - 1 \in B BY <1>1
  <1> QED BY <1>1, <1>2

LEMMA SeqInduct ==
  ASSUME NEW X, NEW B, <<>> \in B,
         \A s \in Seq(X), x \in X : s \in B => Append(s, x) \in B
  PROVE  Seq(X) \subseteq B
  <1> DEFINE C == {n \in Nat : \A s \in Seq(X) : Len(s) = n => s \in B}
  <1>1. 0 \in C BY EmptySeq
  <1>2. ASSUME NEW n \in Nat, n \in C PROVE n + 1 \in C
    <2> SUFFICES ASSUME NEW s \in Seq(X), Len(s) = n + 1 PROVE s \in B OBVIOUS
    <2>1. s # <<>> BY <1>2, EmptySeq
    <2>2. PICK t \in Seq(X), x \in X : s = Append(t, x) BY <2>1, SequenceEmptyOrAppend
    <2>3. Len(t) = n BY <2>2, AppendProperties, LenProperties
    <2> QED BY <1>2, <2>2, <2>3
  <1>3. Nat \subseteq C
    <2> HIDE DEF C
    <2> QED BY <1>1, <1>2, Induct
  <1> QED BY <1>3, LenProperties

(* A function of i is known when what it is after i is known from what it  *)
(* was before.                                                             *)
LEMMA Same ==
  ASSUME NEW n \in Nat, NEW f, NEW g, f[0] = g[0],
         \A i \in 1..n : f[i - 1] = g[i - 1] => f[i] = g[i]
  PROVE  f[n] = g[n]
  <1> DEFINE B == {i \in Nat : i <= n => f[i] = g[i]}
  <1>1. ASSUME NEW i \in Nat, i \in B PROVE i + 1 \in B
    <2> SUFFICES ASSUME i + 1 <= n PROVE f[i + 1] = g[i + 1] OBVIOUS
    <2>1. i <= n /\ i + 1 \in 1..n /\ (i + 1) - 1 = i OBVIOUS
    <2> QED BY <1>1, <2>1
  <1>2. Nat \subseteq B
    <2>1. 0 \in B OBVIOUS
    <2> HIDE DEF B
    <2> QED BY <1>1, <2>1, Induct
  <1> QED BY <1>2

(* What a loop over s has after each of its rounds: D is what a round does.*)
Loops(Y, c, D, s) ==
  {f \in [0..Len(s) -> Y] : f[0] = c /\ \A i \in 1..Len(s) : f[i] = D[f[i - 1]][s[i]]}

LEMMA LoopExtends ==
  ASSUME NEW X, NEW Y, NEW c \in Y, NEW D \in [Y -> [X -> Y]],
         NEW s \in Seq(X), NEW x \in X, NEW f \in Loops(Y, c, D, s)
  PROVE  \E g \in Loops(Y, c, D, Append(s, x)) : g[Len(Append(s, x))] = D[f[Len(s)]][x]
  <1> USE DEF Loops
  <1> DEFINE g == [i \in 0..Len(s) + 1 |-> IF i <= Len(s) THEN f[i] ELSE D[f[Len(s)]][x]]
  <1>1. Len(s) \in Nat BY LenProperties
  <1>2. /\ Len(Append(s, x)) = Len(s) + 1 /\ Append(s, x)[Len(s) + 1] = x
        /\ \A i \in 1..Len(s) : Append(s, x)[i] = s[i]
    BY AppendProperties
  <1>3. g \in [0..Len(s) + 1 -> Y]
    <2>1. Len(s) \in 0..Len(s) BY <1>1
    <2>2. f[Len(s)] \in Y BY <2>1
    <2> QED BY <2>2, <1>1
  <1>4. ASSUME NEW i \in 1..Len(s) + 1 PROVE g[i] = D[g[i - 1]][Append(s, x)[i]]
    <2>1. i - 1 \in 0..Len(s) /\ g[i - 1] = f[i - 1] BY <1>1
    <2>2. CASE i = Len(s) + 1 BY <1>1, <1>2, <2>1, <2>2
    <2>3. CASE i \in 1..Len(s) BY <1>1, <1>2, <2>1, <2>3
    <2>4. i = Len(s) + 1 \/ i \in 1..Len(s) BY <1>1
    <2> QED BY <2>2, <2>3, <2>4
  <1>5. g \in Loops(Y, c, D, Append(s, x))
    <2>1. g[0] = c BY <1>1
    <2> HIDE DEF g
    <2> QED BY <1>2, <1>3, <1>4, <2>1
  <1>6. g[Len(Append(s, x))] = D[f[Len(s)]][x] BY <1>1, <1>2
  <1> HIDE DEF g, Loops
  <1> QED BY <1>5, <1>6

(* What it has in the end: F of the sequence.                              *)
LoopIs(F, X, Y, c, D) ==
  \A s \in Seq(X) : \A f \in Loops(Y, c, D, s) : F[s] = f[Len(s)]

Folds(F, X, Y, c, D) ==
  /\ F[<<>>] = c
  /\ \A s \in Seq(X) : F[s] \in Y
  /\ \A s \in Seq(X), x \in X : F[Append(s, x)] = D[F[s]][x]

LEMMA Fold ==
  ASSUME NEW X, NEW Y, NEW c \in Y, NEW D \in [Y -> [X -> Y]], NEW F, LoopIs(F, X, Y, c, D)
  PROVE  Folds(F, X, Y, c, D)
  <1> USE DEF LoopIs
  <1> DEFINE B == {s \in Seq(X) : Loops(Y, c, D, s) # {}}
  <1>1. <<>> \in B /\ F[<<>>] = c
    <2> DEFINE f == [i \in 0..0 |-> c]
    <2>1. f \in Loops(Y, c, D, <<>>) BY EmptySeq DEF Loops
    <2>2. f[Len(<<>>)] = c BY EmptySeq
    <2> HIDE DEF f
    <2> QED BY <2>1, <2>2, EmptySeq
  <1>2. ASSUME NEW s \in Seq(X), NEW x \in X, s \in B PROVE Append(s, x) \in B
    BY <1>2, LoopExtends, AppendProperties
  <1>3. Seq(X) \subseteq B
    <2> HIDE DEF B
    <2> QED BY <1>1, <1>2, SeqInduct
  <1>4. ASSUME NEW s \in Seq(X) PROVE F[s] \in Y
    <2>1. PICK f \in Loops(Y, c, D, s) : TRUE BY <1>3
    <2>2. f \in [0..Len(s) -> Y] BY DEF Loops
    <2>3. Len(s) \in 0..Len(s) BY LenProperties
    <2> QED BY <2>2, <2>3
  <1>5. ASSUME NEW s \in Seq(X), NEW x \in X PROVE F[Append(s, x)] = D[F[s]][x]
    <2>1. PICK f \in Loops(Y, c, D, s) : TRUE BY <1>3
    <2>2. PICK g \in Loops(Y, c, D, Append(s, x)) : g[Len(Append(s, x))] = D[f[Len(s)]][x]
      BY LoopExtends
    <2>3. Append(s, x) \in Seq(X) BY AppendProperties
    <2> QED BY <2>2, <2>3
  <1> QED BY <1>1, <1>4, <1>5 DEF Folds

(***************************************************************************)
(* Chosen                                                                  *)
(***************************************************************************)
LEMMA ChosenIs ==
  ASSUME NEW s, NEW S, Len(s) \in Nat, NEW f,
         f = [i \in 0..Len(s) |->
                IF i = 0 THEN <<>>
                ELSE IF s[i] \in S THEN Append(f[i - 1], s[i]) ELSE f[i - 1]]
  PROVE  Chosen(s, S) = f[Len(s)]
  <1> DEFINE P(g) == g = [i \in 0..Len(s) |->
                            IF i = 0 THEN <<>>
                            ELSE IF s[i] \in S THEN Append(g[i - 1], s[i]) ELSE g[i - 1]]
             h == CHOOSE g : P(g)
  <1>1. P(h)
    <2>1. P(f) OBVIOUS
    <2> HIDE DEF P
    <2> QED BY <2>1
  <1>2. h[Len(s)] = f[Len(s)]
    <2>1. h[0] = f[0]
      <3> HIDE DEF h
      <3>1. 0 \in 0..Len(s) OBVIOUS
      <3> QED BY <1>1, <3>1
    <2>2. ASSUME NEW i \in 1..Len(s), h[i - 1] = f[i - 1] PROVE h[i] = f[i]
      <3> HIDE DEF h
      <3>1. i \in 0..Len(s) /\ i # 0 OBVIOUS
      <3>2. h[i] = IF s[i] \in S THEN Append(h[i - 1], s[i]) ELSE h[i - 1] BY <1>1, <3>1
      <3>3. f[i] = IF s[i] \in S THEN Append(f[i - 1], s[i]) ELSE f[i - 1] BY <3>1
      <3> HIDE DEF P
      <3> QED BY <2>2, <3>2, <3>3
    <2> HIDE DEF h, P
    <2> QED BY <2>1, <2>2, Same
  <1>3. Chosen(s, S) = h[Len(s)] BY Zenon DEF Chosen
  <1> QED BY <1>2, <1>3

LEMMA ChosenSteps ==
  ASSUME NEW X, NEW S
  PROVE  /\ Chosen(<<>>, S) = <<>>
         /\ \A s \in Seq(X) : Chosen(s, S) \in Seq(X)
         /\ \A s \in Seq(X), x \in X :
              Chosen(Append(s, x), S) =
                IF x \in S THEN Append(Chosen(s, S), x) ELSE Chosen(s, S)
  <1> DEFINE D == [a \in Seq(X) |-> [x \in X |-> IF x \in S THEN Append(a, x) ELSE a]]
  <1>1. D \in [Seq(X) -> [X -> Seq(X)]] BY AppendProperties
  <1>2. ASSUME NEW s \in Seq(X), NEW f \in Loops(Seq(X), <<>>, D, s)
        PROVE  Chosen(s, S) = f[Len(s)]
    <2>1. Len(s) \in Nat /\ \A i \in 1..Len(s) : s[i] \in X BY LenProperties, ElementOfSeq
    <2>2. ASSUME NEW i \in 0..Len(s)
          PROVE  f[i] = IF i = 0 THEN <<>>
                        ELSE IF s[i] \in S THEN Append(f[i - 1], s[i]) ELSE f[i - 1]
      <3>1. CASE i = 0 BY <3>1 DEF Loops
      <3>2. CASE i # 0
        <4>1. i \in 1..Len(s) /\ i - 1 \in 0..Len(s) BY <2>1, <3>2
        <4>2. f[i] = D[f[i - 1]][s[i]] /\ f[i - 1] \in Seq(X) /\ s[i] \in X
          <5> HIDE DEF D
          <5> QED BY <2>1, <4>1 DEF Loops
        <4> QED BY <4>2, <3>2
      <3> QED BY <3>1, <3>2
    <2>3. f = [i \in 0..Len(s) |->
                 IF i = 0 THEN <<>>
                 ELSE IF s[i] \in S THEN Append(f[i - 1], s[i]) ELSE f[i - 1]]
      BY <2>2 DEF Loops
    <2> QED BY <2>1, <2>3, ChosenIs
  <1> DEFINE F == [s \in Seq(X) |-> Chosen(s, S)]
  <1>3. Folds(F, X, Seq(X), <<>>, D)
    <2>1. LoopIs(F, X, Seq(X), <<>>, D)
      <3> HIDE DEF D
      <3> QED BY <1>2 DEF LoopIs
    <2>2. <<>> \in Seq(X) BY EmptySeq
    <2> HIDE DEF D, F
    <2> QED BY <1>1, <2>1, <2>2, Fold
  <1> QED BY <1>3, EmptySeq, AppendProperties DEF Folds

LEMMA ChosenType == ASSUME NEW X, NEW S, NEW s \in Seq(X) PROVE Chosen(s, S) \in Seq(X)
  BY ChosenSteps

LEMMA ChosenTakes ==
  ASSUME NEW X, NEW S, NEW s \in Seq(X), NEW x \in X, x \in S
  PROVE  Chosen(Append(s, x), S) = Append(Chosen(s, S), x)
  BY ChosenSteps

LEMMA ChosenDrops ==
  ASSUME NEW X, NEW S, NEW s \in Seq(X), NEW x \in X, x \notin S
  PROVE  Chosen(Append(s, x), S) = Chosen(s, S)
  <1>1. \A t \in Seq(X), y \in X :
          Chosen(Append(t, y), S) = IF y \in S THEN Append(Chosen(t, S), y) ELSE Chosen(t, S)
    BY ChosenSteps
  <1> QED BY <1>1

LEMMA ChosenEmpty == ASSUME NEW S PROVE Chosen(<<>>, S) = <<>>
  BY ChosenSteps

(* Ranges                                                                  *)
LEMMA RangeAppend ==
  ASSUME NEW X, NEW s \in Seq(X), NEW x \in X
  PROVE  Range(Append(s, x)) = Range(s) \cup {x}
  <1>1. Range(Append(s, x)) = {Append(s, x)[i] : i \in 1..Len(s) + 1}
    <2>1. Append(s, x) \in Seq(X) /\ Len(Append(s, x)) = Len(s) + 1 BY AppendProperties
    <2> QED BY <2>1, RangeEquality
  <1>2. Range(s) = {s[i] : i \in 1..Len(s)} BY RangeEquality
  <1>3. \A i \in 1..Len(s) : i \in 1..Len(s) + 1 /\ Append(s, x)[i] = s[i]
    BY AppendProperties, LenProperties
  <1>4. Append(s, x)[Len(s) + 1] = x /\ Len(s) + 1 \in 1..Len(s) + 1
    BY AppendProperties, LenProperties
  <1>5. \A i \in 1..Len(s) + 1 : i = Len(s) + 1 \/ i \in 1..Len(s) BY LenProperties
  <1> QED BY <1>1, <1>2, <1>3, <1>4, <1>5

LEMMA RangeEmpty == Range(<<>>) = {} BY DEF Range

LEMMA EmptyRange ==
  ASSUME NEW X, NEW s \in Seq(X), Range(s) = {}
  PROVE  s = <<>>
  <1>1. CASE Len(s) = 0 BY <1>1, EmptySeq
  <1>2. CASE Len(s) # 0
    <2>1. Len(s) \in Nat /\ 1 \in 1..Len(s) BY <1>2, LenProperties
    <2>2. s[1] \in Range(s) BY <2>1, RangeEquality
    <2> QED BY <2>2
  <1> QED BY <1>1, <1>2

(* Choosing loses nothing that it is to choose, and nothing else stays.    *)
LEMMA ChosenRange ==
  ASSUME NEW X, NEW S, NEW s \in Seq(X)
  PROVE  Range(Chosen(s, S)) = Range(s) \cap S
  <1> DEFINE B == {t \in Seq(X) : Range(Chosen(t, S)) = Range(t) \cap S}
  <1>1. <<>> \in B BY ChosenEmpty, RangeEmpty, EmptySeq
  <1>2. ASSUME NEW t \in Seq(X), NEW x \in X, t \in B PROVE Append(t, x) \in B
    <2>1. Range(Append(t, x)) = Range(t) \cup {x} /\ Append(t, x) \in Seq(X)
      BY RangeAppend, AppendProperties
    <2>2. CASE x \in S
      <3>1. Chosen(Append(t, x), S) = Append(Chosen(t, S), x) BY <2>2, ChosenTakes
      <3>2. Range(Append(Chosen(t, S), x)) = Range(Chosen(t, S)) \cup {x}
        BY ChosenType, RangeAppend
      <3> QED BY <1>2, <2>1, <2>2, <3>1, <3>2
    <2>3. CASE x \notin S
      <3>1. Chosen(Append(t, x), S) = Chosen(t, S) BY <2>3, ChosenDrops
      <3> QED BY <1>2, <2>1, <2>3, <3>1
    <2> QED BY <2>2, <2>3
  <1>3. Seq(X) \subseteq B
    <2> HIDE DEF B
    <2> QED BY <1>1, <1>2, SeqInduct
  <1> QED BY <1>3

LEMMA AppendConcat ==
  ASSUME NEW X, NEW s \in Seq(X), NEW t \in Seq(X), NEW x \in X
  PROVE  s \o Append(t, x) = Append(s \o t, x)
  <1>1. <<x>> \in Seq(X) /\ s \o t \in Seq(X) BY ConcatProperties
  <1>2. Append(t, x) = t \o <<x>> /\ Append(s \o t, x) = (s \o t) \o <<x>>
    BY <1>1, AppendIsConcat
  <1> QED BY <1>1, <1>2, ConcatAssociative

LEMMA ChosenConcat ==
  ASSUME NEW X, NEW S, NEW s \in Seq(X), NEW t \in Seq(X)
  PROVE  Chosen(s \o t, S) = Chosen(s, S) \o Chosen(t, S)
  <1> DEFINE B == {u \in Seq(X) : Chosen(s \o u, S) = Chosen(s, S) \o Chosen(u, S)}
  <1>1. <<>> \in B
    <2>1. Chosen(s, S) \in Seq(X) /\ Chosen(<<>>, S) = <<>> BY ChosenType, ChosenEmpty
    <2> QED BY <2>1, ConcatEmptySeq, EmptySeq
  <1>2. ASSUME NEW u \in Seq(X), NEW x \in X, u \in B PROVE Append(u, x) \in B
    <2>1. Append(u, x) \in Seq(X) /\ s \o Append(u, x) = Append(s \o u, x) /\ s \o u \in Seq(X)
      BY AppendConcat, AppendProperties, ConcatProperties
    <2>2. Chosen(s, S) \in Seq(X) /\ Chosen(u, S) \in Seq(X) BY ChosenType
    <2>3. Chosen(s \o u, S) = Chosen(s, S) \o Chosen(u, S) BY <1>2
    <2>4. CASE x \in S
      <3>1. Chosen(Append(s \o u, x), S) = Append(Chosen(s \o u, S), x)
        <4> DEFINE v == s \o u
        <4>1. v \in Seq(X) BY <2>1
        <4> HIDE DEF v
        <4>2. Chosen(Append(v, x), S) = Append(Chosen(v, S), x) BY <2>4, <4>1, ChosenTakes
        <4> QED BY <4>2 DEF v
      <3>2. Chosen(Append(u, x), S) = Append(Chosen(u, S), x)
        BY <2>4, ChosenTakes
      <3>3. Chosen(s, S) \o Append(Chosen(u, S), x) = Append(Chosen(s, S) \o Chosen(u, S), x)
        BY <2>2, AppendConcat
      <3> QED BY <2>1, <2>3, <3>1, <3>2, <3>3
    <2>5. CASE x \notin S
      <3>1. Chosen(Append(s \o u, x), S) = Chosen(s \o u, S)
            /\ Chosen(Append(u, x), S) = Chosen(u, S)
        BY <2>1, <2>5, ChosenDrops
      <3> QED BY <2>1, <2>3, <3>1
    <2> QED BY <2>4, <2>5
  <1>3. Seq(X) \subseteq B
    <2> HIDE DEF B
    <2> QED BY <1>1, <1>2, SeqInduct
  <1> QED BY <1>3

(***************************************************************************)
(* AllLines                                                                *)
(***************************************************************************)
LEMMA AllLinesIs ==
  ASSUME NEW fs, Len(fs) \in Nat, NEW f,
         f = [i \in 0..Len(fs) |-> IF i = 0 THEN <<>> ELSE f[i - 1] \o fs[i].lines]
  PROVE  AllLines(fs) = f[Len(fs)]
  <1> DEFINE P(g) == g = [i \in 0..Len(fs) |-> IF i = 0 THEN <<>> ELSE g[i - 1] \o fs[i].lines]
             h == CHOOSE g : P(g)
  <1>1. P(h)
    <2>1. P(f) OBVIOUS
    <2> HIDE DEF P
    <2> QED BY <2>1
  <1>2. h[Len(fs)] = f[Len(fs)]
    <2> HIDE DEF h
    <2>1. h[0] = f[0]
      <3>1. 0 \in 0..Len(fs) OBVIOUS
      <3> QED BY <1>1, <3>1
    <2>2. ASSUME NEW i \in 1..Len(fs), h[i - 1] = f[i - 1] PROVE h[i] = f[i]
      <3>1. i \in 0..Len(fs) /\ i # 0 OBVIOUS
      <3>2. h[i] = h[i - 1] \o fs[i].lines BY <1>1, <3>1
      <3>3. f[i] = f[i - 1] \o fs[i].lines BY <3>1
      <3> HIDE DEF P
      <3> QED BY <2>2, <3>2, <3>3
    <2> HIDE DEF P
    <2> QED BY <2>1, <2>2, Same
  <1>3. AllLines(fs) = h[Len(fs)] BY Zenon DEF AllLines
  <1> QED BY <1>2, <1>3

LEMMA AllLinesSteps ==
  /\ AllLines(<<>>) = <<>>
  /\ \A fs \in Seq(File) : AllLines(fs) \in Seq(Line)
  /\ \A fs \in Seq(File), f \in File : AllLines(Append(fs, f)) = AllLines(fs) \o f.lines
  <1> DEFINE D == [a \in Seq(Line) |-> [f \in File |-> a \o f.lines]]
             F == [fs \in Seq(File) |-> AllLines(fs)]
  <1>1. D \in [Seq(Line) -> [File -> Seq(Line)]] BY ConcatProperties DEF File
  <1>2. ASSUME NEW fs \in Seq(File), NEW f \in Loops(Seq(Line), <<>>, D, fs)
        PROVE  AllLines(fs) = f[Len(fs)]
    <2>1. Len(fs) \in Nat /\ \A i \in 1..Len(fs) : fs[i] \in File BY LenProperties, ElementOfSeq
    <2>2. ASSUME NEW i \in 0..Len(fs)
          PROVE  f[i] = IF i = 0 THEN <<>> ELSE f[i - 1] \o fs[i].lines
      <3>1. CASE i = 0 BY <3>1 DEF Loops
      <3>2. CASE i # 0
        <4>1. i \in 1..Len(fs) /\ i - 1 \in 0..Len(fs) BY <2>1, <3>2
        <4>2. f[i] = D[f[i - 1]][fs[i]] /\ f[i - 1] \in Seq(Line) /\ fs[i] \in File
          <5> HIDE DEF D
          <5> QED BY <2>1, <4>1 DEF Loops
        <4> QED BY <4>2, <3>2
      <3> QED BY <3>1, <3>2
    <2>3. f = [i \in 0..Len(fs) |-> IF i = 0 THEN <<>> ELSE f[i - 1] \o fs[i].lines]
      BY <2>2 DEF Loops
    <2> QED BY <2>1, <2>3, AllLinesIs
  <1>3. Folds(F, File, Seq(Line), <<>>, D)
    <2>1. LoopIs(F, File, Seq(Line), <<>>, D)
      <3> HIDE DEF D
      <3> QED BY <1>2 DEF LoopIs
    <2>2. <<>> \in Seq(Line) BY EmptySeq
    <2> HIDE DEF D, F
    <2> QED BY <1>1, <2>1, <2>2, Fold
  <1> QED BY <1>3, EmptySeq, AppendProperties DEF Folds

LEMMA AllLinesType == ASSUME NEW fs \in Seq(File) PROVE AllLines(fs) \in Seq(Line)
  BY AllLinesSteps

LEMMA AllLinesAppend ==
  ASSUME NEW fs \in Seq(File), NEW f \in File
  PROVE  AllLines(Append(fs, f)) = AllLines(fs) \o f.lines
  BY AllLinesSteps

LEMMA AllLinesEmpty == AllLines(<<>>) = <<>> BY AllLinesSteps

LEMMA AllLinesRange ==
  ASSUME NEW fs \in Seq(File), NEW l
  PROVE  l \in Range(AllLines(fs)) <=> \E f \in Range(fs) : l \in Range(f.lines)
  <1> DEFINE B == {gs \in Seq(File) :
                     l \in Range(AllLines(gs)) <=> \E f \in Range(gs) : l \in Range(f.lines)}
  <1>1. <<>> \in B BY AllLinesEmpty, RangeEmpty, EmptySeq
  <1>2. ASSUME NEW gs \in Seq(File), NEW f \in File, gs \in B PROVE Append(gs, f) \in B
    <2>1. AllLines(Append(gs, f)) = AllLines(gs) \o f.lines BY AllLinesAppend
    <2>2. f.lines \in Seq(Line) BY DEF File
    <2>3. Range(AllLines(gs) \o f.lines) = Range(AllLines(gs)) \cup Range(f.lines)
      BY <2>2, AllLinesType, RangeConcatenation
    <2>4. Range(Append(gs, f)) = Range(gs) \cup {f} /\ Append(gs, f) \in Seq(File)
      BY RangeAppend, AppendProperties
    <2> QED BY <1>2, <2>1, <2>3, <2>4
  <1>3. Seq(File) \subseteq B
    <2> HIDE DEF B
    <2> QED BY <1>1, <1>2, SeqInduct
  <1> QED BY <1>3

(* An instance of ConcatAssociative, where few sequences are in sight.     *)
LEMMA Regroup ==
  ASSUME NEW a \in Seq(Line), NEW b \in Seq(Line), NEW c \in Seq(Line)
  PROVE  (a \o b) \o c = a \o (b \o c)
  BY ConcatAssociative

LEMMA AllLinesConcat ==
  ASSUME NEW fs \in Seq(File), NEW gs \in Seq(File)
  PROVE  AllLines(fs \o gs) = AllLines(fs) \o AllLines(gs)
  <1> DEFINE B == {hs \in Seq(File) : AllLines(fs \o hs) = AllLines(fs) \o AllLines(hs)}
  <1>1. <<>> \in B
    <2>1. AllLines(fs) \in Seq(Line) BY AllLinesType
    <2> QED BY <2>1, AllLinesEmpty, ConcatEmptySeq, EmptySeq
  <1>2. ASSUME NEW hs \in Seq(File), NEW f \in File, hs \in B PROVE Append(hs, f) \in B
    <2>1. fs \o Append(hs, f) = Append(fs \o hs, f) /\ fs \o hs \in Seq(File)
      BY AppendConcat, ConcatProperties
    <2>2. AllLines(Append(fs \o hs, f)) = AllLines(fs \o hs) \o f.lines BY <2>1, AllLinesAppend
    <2>3. AllLines(Append(hs, f)) = AllLines(hs) \o f.lines BY AllLinesAppend
    <2>4. AllLines(fs) \in Seq(Line) /\ AllLines(hs) \in Seq(Line) /\ f.lines \in Seq(Line)
      BY AllLinesType DEF File
    <2>5. (AllLines(fs) \o AllLines(hs)) \o f.lines = AllLines(fs) \o (AllLines(hs) \o f.lines)
      <3> HIDE DEF B
      <3> QED BY <2>4, Regroup
    <2>6. Append(hs, f) \in Seq(File) BY AppendProperties
    <2> QED BY <1>2, <2>1, <2>2, <2>3, <2>5, <2>6
  <1>3. Seq(File) \subseteq B
    <2> HIDE DEF B
    <2> QED BY <1>1, <1>2, SeqInduct
  <1> QED BY <1>3

(***************************************************************************)
(* The order of lines                                                      *)
(***************************************************************************)

(* A later line of a key is younger, or the earlier one is not read.       *)
Later(l, m) == l.key = m.key => l.age > m.age \/ l.age = Expired

Ordered(lines) == \A i, j \in DOMAIN lines : i < j => Later(lines[i], lines[j])

LEMMA OrderedConcat ==
  ASSUME NEW s \in Seq(Line), NEW t \in Seq(Line)
  PROVE  Ordered(s \o t) <=> /\ Ordered(s) /\ Ordered(t)
                             /\ \A l \in Range(s), m \in Range(t) : Later(l, m)
  <1>1. /\ Len(s) \in Nat /\ DOMAIN s = 1..Len(s) /\ Len(t) \in Nat /\ DOMAIN t = 1..Len(t)
        /\ s \o t \in Seq(Line) /\ Len(s \o t) = Len(s) + Len(t)
    BY LenProperties, ConcatProperties
  <1>2. DOMAIN (s \o t) = 1..Len(s) + Len(t) BY <1>1, LenProperties
  <1>3. \A i \in 1..Len(s) : i \in 1..Len(s) + Len(t) /\ (s \o t)[i] = s[i]
    BY <1>1, ConcatProperties
  <1>4. \A i \in 1..Len(t) :
          Len(s) + i \in 1..Len(s) + Len(t) /\ (s \o t)[Len(s) + i] = t[i]
    <2> TAKE i \in 1..Len(t)
    <2>1. Len(s) + i \in 1..Len(s) + Len(t) /\ ~ (Len(s) + i <= Len(s)) /\ Len(s) + i - Len(s) = i
      BY <1>1
    <2> QED BY <2>1, ConcatProperties
  <1>5. Range(s) = {s[i] : i \in 1..Len(s)} /\ Range(t) = {t[i] : i \in 1..Len(t)}
    BY RangeEquality
  <1>6. ASSUME Ordered(s \o t)
        PROVE  Ordered(s) /\ Ordered(t) /\ \A l \in Range(s), m \in Range(t) : Later(l, m)
    <2>1. Ordered(s) BY <1>1, <1>2, <1>3, <1>6 DEF Ordered
    <2>2. ASSUME NEW i \in 1..Len(t), NEW j \in 1..Len(t), i < j PROVE Later(t[i], t[j])
      <3>1. Len(s) + i < Len(s) + j BY <1>1, <2>2
      <3> QED BY <1>2, <1>4, <1>6, <3>1 DEF Ordered
    <2>3. ASSUME NEW i \in 1..Len(s), NEW j \in 1..Len(t) PROVE Later(s[i], t[j])
      <3>1. i < Len(s) + j BY <1>1
      <3> QED BY <1>2, <1>3, <1>4, <1>6, <3>1 DEF Ordered
    <2> QED BY <1>1, <1>5, <2>1, <2>2, <2>3 DEF Ordered
  <1>7. ASSUME Ordered(s), Ordered(t), \A l \in Range(s), m \in Range(t) : Later(l, m)
        PROVE  Ordered(s \o t)
    <2> SUFFICES ASSUME NEW i \in 1..Len(s) + Len(t), NEW j \in 1..Len(s) + Len(t), i < j
                 PROVE  Later((s \o t)[i], (s \o t)[j])
      BY <1>2 DEF Ordered
    <2>1. CASE j <= Len(s)
      <3>1. i \in 1..Len(s) /\ j \in 1..Len(s) BY <1>1, <2>1
      <3> QED BY <1>1, <1>3, <1>7, <3>1 DEF Ordered
    <2>2. CASE i <= Len(s) /\ j > Len(s)
      <3>1. i \in 1..Len(s) /\ j - Len(s) \in 1..Len(t) /\ Len(s) + (j - Len(s)) = j
        BY <1>1, <2>2
      <3>2. (s \o t)[i] = s[i] /\ (s \o t)[j] = t[j - Len(s)] BY <1>3, <1>4, <3>1
      <3> QED BY <1>5, <1>7, <3>1, <3>2
    <2>3. CASE i > Len(s)
      <3>1. /\ i - Len(s) \in 1..Len(t) /\ Len(s) + (i - Len(s)) = i
            /\ j - Len(s) \in 1..Len(t) /\ Len(s) + (j - Len(s)) = j /\ i - Len(s) < j - Len(s)
        BY <1>1, <2>3
      <3>2. (s \o t)[i] = t[i - Len(s)] /\ (s \o t)[j] = t[j - Len(s)] BY <1>4, <3>1
      <3> QED BY <1>1, <1>7, <3>1, <3>2 DEF Ordered
    <2> QED BY <1>1, <2>1, <2>2, <2>3
  <1> QED BY <1>6, <1>7

LEMMA OrderedEmpty == Ordered(<<>>) BY DEF Ordered

LEMMA OrderedAppend ==
  ASSUME NEW s \in Seq(Line), NEW x \in Line
  PROVE  Ordered(Append(s, x)) <=> Ordered(s) /\ \A l \in Range(s) : Later(l, x)
  <1> DEFINE t == <<x>>
  <1>1. t \in Seq(Line) /\ Append(s, x) = s \o t BY AppendIsConcat
  <1>2. Ordered(t) BY DEF Ordered
  <1>3. Range(t) = {x} BY DEF Range
  <1> HIDE DEF t
  <1>4. Ordered(s \o t) <=> /\ Ordered(s) /\ Ordered(t)
                            /\ \A l \in Range(s), m \in Range(t) : Later(l, m)
    BY <1>1, OrderedConcat
  <1> QED BY <1>1, <1>2, <1>3, <1>4

LEMMA OrderedChosen ==
  ASSUME NEW S, NEW s \in Seq(Line), Ordered(s)
  PROVE  Ordered(Chosen(s, S))
  <1> DEFINE B == {t \in Seq(Line) : Ordered(t) => Ordered(Chosen(t, S))}
  <1>1. <<>> \in B BY ChosenEmpty, OrderedEmpty, EmptySeq
  <1>2. ASSUME NEW t \in Seq(Line), NEW x \in Line, t \in B PROVE Append(t, x) \in B
    <2> SUFFICES ASSUME Ordered(Append(t, x)) PROVE Ordered(Chosen(Append(t, x), S))
      BY AppendProperties
    <2>1. Ordered(t) /\ \A l \in Range(t) : Later(l, x) BY OrderedAppend
    <2>2. Ordered(Chosen(t, S)) BY <1>2, <2>1
    <2>3. Chosen(t, S) \in Seq(Line) /\ Range(Chosen(t, S)) = Range(t) \cap S
      BY ChosenType, ChosenRange
    <2>4. CASE x \in S
      <3>1. Chosen(Append(t, x), S) = Append(Chosen(t, S), x) BY <2>4, ChosenTakes
      <3> QED BY <2>1, <2>2, <2>3, <3>1, OrderedAppend
    <2>5. CASE x \notin S BY <2>2, <2>5, ChosenDrops
    <2> QED BY <2>4, <2>5
  <1>3. Seq(Line) \subseteq B
    <2> HIDE DEF B
    <2> QED BY <1>1, <1>2, SeqInduct
  <1> QED BY <1>3

LEMMA Sizes ==
  /\ Capacity \in Nat /\ FileTicks \in Nat /\ HourTicks \in Nat /\ RetainTicks \in Nat
  /\ Capacity >= HourTicks /\ HourTicks >= 1 /\ RetainTicks >= HourTicks + FileTicks
  BY StoreAssumption DEF StoreAssumption

USE Sizes

(***************************************************************************)
(* The ring                                                                *)
(***************************************************************************)
LEMMA ModIs ==
  /\ \A x \in 0..Capacity - 1 : x % Capacity = x
  /\ \A x \in Capacity..2 * Capacity - 1 : x % Capacity = x - Capacity
  /\ \A x \in 2 * Capacity..3 * Capacity - 1 : x % Capacity = x - 2 * Capacity
  OBVIOUS

LEMMA FunctionSeq ==
  ASSUME NEW S, NEW n \in Nat, NEW f \in [1..n -> S]
  PROVE  f \in Seq(S) /\ Len(f) = n /\ DOMAIN f = 1..n
  <1>1. f \in Seq(S) BY SeqDef
  <1>2. DOMAIN f = 1..n /\ DOMAIN f = 1..Len(f) /\ Len(f) \in Nat BY <1>1, LenProperties
  <1>3. Len(f) = n BY <1>2
  <1> QED BY <1>1, <1>2, <1>3

(* The slots that Values reads, without the remainder.                     *)
Slot(p, j) ==
  IF p <= Capacity THEN j - 1
  ELSE IF p + j - 1 < 2 * Capacity THEN p + j - 1 - Capacity ELSE p + j - 1 - 2 * Capacity

Size(p) == IF p <= Capacity THEN p ELSE Capacity

(* The slot that Enqueue writes, and what p becomes.                       *)
Hit(p) == IF p < Capacity THEN p ELSE p - Capacity

Moved(p) == IF p + 1 = 2 * Capacity THEN Capacity ELSE p + 1

LEMMA SlotIs ==
  ASSUME NEW p \in 0..2 * Capacity - 1, NEW j \in 1..Size(p)
  PROVE  /\ Slot(p, j) \in 0..Capacity - 1
         /\ p > Capacity => (p + j - 1) % Capacity = Slot(p, j)
  <1>1. CASE p <= Capacity
    <2>1. Size(p) = p /\ Slot(p, j) = j - 1 BY <1>1 DEF Size, Slot
    <2> QED BY <1>1, <2>1
  <1>2. CASE p > Capacity
    <2>1. j \in 1..Capacity BY <1>2 DEF Size
    <2>2. CASE p + j - 1 < 2 * Capacity
      <3>1. Slot(p, j) = p + j - 1 - Capacity BY <1>2, <2>2 DEF Slot
      <3>2. p + j - 1 \in Capacity..2 * Capacity - 1 BY <1>2, <2>1, <2>2
      <3> QED BY <3>1, <3>2, ModIs
    <2>3. CASE p + j - 1 >= 2 * Capacity
      <3>1. Slot(p, j) = p + j - 1 - 2 * Capacity BY <1>2, <2>1, <2>3 DEF Slot
      <3>2. p + j - 1 \in 2 * Capacity..3 * Capacity - 1 BY <1>2, <2>1, <2>3
      <3> QED BY <3>1, <3>2, ModIs
    <2> QED BY <2>1, <2>2, <2>3
  <1> QED BY <1>1, <1>2

LEMMA ValuesAre ==
  ASSUME NEW r \in Ring
  PROVE  /\ Values(r) \in Seq(0..Expired)
         /\ Len(Values(r)) = Size(r.p) /\ DOMAIN Values(r) = 1..Size(r.p)
         /\ \A j \in 1..Size(r.p) :
              Slot(r.p, j) \in 0..Capacity - 1 /\ Values(r)[j] = r.data[Slot(r.p, j)]
  <1>1. r.p \in 0..2 * Capacity - 1 /\ r.data \in [0..Capacity - 1 -> 0..Expired] BY DEF Ring
  <1>2. Size(r.p) \in Nat BY <1>1 DEF Size
  <1>3. \A j \in 1..Size(r.p) :
          /\ Slot(r.p, j) \in 0..Capacity - 1
          /\ r.p > Capacity => (r.p + j - 1) % Capacity = Slot(r.p, j)
    BY <1>1, SlotIs
  <1>4. Values(r) = [j \in 1..Size(r.p) |-> r.data[Slot(r.p, j)]]
    <2>1. CASE r.p <= Capacity
      <3>1. Size(r.p) = r.p /\ \A j : Slot(r.p, j) = j - 1 BY <2>1 DEF Size, Slot
      <3> QED BY <2>1, <3>1 DEF Values
    <2>2. CASE r.p > Capacity
      <3>1. Size(r.p) = Capacity /\ ~ (r.p <= Capacity) BY <1>1, <2>2 DEF Size
      <3> QED BY <1>3, <2>2, <3>1 DEF Values
    <2> QED BY <1>1, <2>1, <2>2
  <1>5. Values(r) \in [1..Size(r.p) -> 0..Expired] BY <1>1, <1>3, <1>4
  <1>6. Values(r) \in Seq(0..Expired) /\ Len(Values(r)) = Size(r.p) /\ DOMAIN Values(r) = 1..Size(r.p)
    BY <1>2, <1>5, FunctionSeq
  <1> QED BY <1>3, <1>4, <1>6

(* w is v with a at its end, without its first element when it was full.   *)
Pushes(v, a, w) ==
  /\ Len(w) = IF Len(v) < Capacity THEN Len(v) + 1 ELSE Capacity
  /\ w[Len(w)] = a
  /\ \A j \in 1..Len(w) - 1 : w[j] = v[IF Len(v) < Capacity THEN j ELSE j + 1]

LEMMA SlotsMove ==
  ASSUME NEW p \in 0..2 * Capacity - 1
  PROVE  /\ Hit(p) \in 0..Capacity - 1 /\ p % Capacity = Hit(p) /\ Moved(p) \in 0..2 * Capacity - 1
         /\ Size(p) \in 0..Capacity /\ Size(Moved(p)) \in 1..Capacity
         /\ Size(Moved(p)) = IF Size(p) < Capacity THEN Size(p) + 1 ELSE Capacity
         /\ Slot(Moved(p), Size(Moved(p))) = Hit(p)
  <1>1. p % Capacity = Hit(p) BY ModIs DEF Hit
  <1>2. CASE p < Capacity BY <1>1, <1>2 DEF Hit, Moved, Size, Slot
  <1>3. CASE p >= Capacity BY <1>1, <1>3 DEF Hit, Moved, Size, Slot
  <1> QED BY <1>2, <1>3

LEMMA SlotsKept ==
  ASSUME NEW p \in 0..2 * Capacity - 1, NEW j \in 1..Size(Moved(p)) - 1, NEW i,
         i = IF Size(p) < Capacity THEN j ELSE j + 1
  PROVE  i \in 1..Size(p) /\ Slot(Moved(p), j) = Slot(p, i) /\ Slot(p, i) # Hit(p)
  <1>1. j \in Nat /\ j >= 1 /\ j < Size(Moved(p)) BY SlotsMove
  <1>2. CASE p < Capacity
    <2>1. Size(p) = p /\ Moved(p) = p + 1 /\ Size(Moved(p)) = p + 1 /\ i = j
      BY <1>2 DEF Moved, Size
    <2> QED BY <1>1, <1>2, <2>1 DEF Slot, Hit
  <1>3. CASE p >= Capacity
    <2>1. Size(p) = Capacity /\ Size(Moved(p)) = Capacity /\ i = j + 1
      BY <1>3 DEF Moved, Size
    <2>2. CASE p + 1 = 2 * Capacity
      <3>1. Moved(p) = Capacity BY <2>2 DEF Moved
      <3> QED BY <1>1, <1>3, <2>1, <2>2, <3>1 DEF Slot, Hit
    <2>3. CASE p + 1 # 2 * Capacity
      <3>1. Moved(p) = p + 1 BY <2>3 DEF Moved
      <3> QED BY <1>1, <1>3, <2>1, <2>3, <3>1 DEF Slot, Hit
    <2> QED BY <2>2, <2>3
  <1> QED BY <1>2, <1>3

LEMMA EnqueuePushes ==
  ASSUME NEW r \in Ring, NEW a \in 0..Expired
  PROVE  Enqueue(r, a) \in Ring /\ Pushes(Values(r), a, Values(Enqueue(r, a)))
  <1> DEFINE s == Enqueue(r, a)
  <1>1. r.p \in 0..2 * Capacity - 1 /\ r.data \in [0..Capacity - 1 -> 0..Expired] BY DEF Ring
  <1>2. Hit(r.p) \in 0..Capacity - 1 /\ Moved(r.p) \in 0..2 * Capacity - 1 BY <1>1, SlotsMove
  <1>3. s = [data |-> [r.data EXCEPT ![Hit(r.p)] = a], p |-> Moved(r.p)]
    <2>1. r.p % Capacity = Hit(r.p) BY <1>1, SlotsMove
    <2> QED BY <2>1 DEF Enqueue, Moved
  <1> HIDE DEF s
  <1>4. s.data = [r.data EXCEPT ![Hit(r.p)] = a] /\ s.p = Moved(r.p) BY <1>3
  <1>5. s \in Ring
    <2>1. [r.data EXCEPT ![Hit(r.p)] = a] \in [0..Capacity - 1 -> 0..Expired] BY <1>1, <1>2
    <2> QED BY <1>2, <1>3, <2>1 DEF Ring
  <1>6. Size(s.p) = (IF Size(r.p) < Capacity THEN Size(r.p) + 1 ELSE Capacity)
        /\ Size(s.p) \in 1..Capacity /\ Slot(s.p, Size(s.p)) = Hit(r.p)
    BY <1>1, <1>4, SlotsMove
  <1>7. Values(s)[Size(s.p)] = a
    <2>1. Size(s.p) \in 1..Size(s.p) BY <1>6
    <2>2. Values(s)[Size(s.p)] = s.data[Hit(r.p)] BY <1>5, <1>6, <2>1, ValuesAre
    <2> QED BY <1>1, <1>2, <1>4, <2>2
  <1>8. ASSUME NEW j \in 1..Size(s.p) - 1
        PROVE  Values(s)[j] = Values(r)[IF Size(r.p) < Capacity THEN j ELSE j + 1]
    <2> DEFINE i == IF Size(r.p) < Capacity THEN j ELSE j + 1
    <2>1. i \in 1..Size(r.p) /\ Slot(s.p, j) = Slot(r.p, i) /\ Slot(r.p, i) # Hit(r.p)
      BY <1>1, <1>4, SlotsKept
    <2>2. j \in 1..Size(s.p) BY <1>6
    <2> HIDE DEF i
    <2>3. Values(s)[j] = s.data[Slot(s.p, j)] BY <1>5, <2>2, ValuesAre
    <2>4. Values(r)[i] = r.data[Slot(r.p, i)] /\ Slot(r.p, i) \in 0..Capacity - 1
      BY <2>1, ValuesAre
    <2>5. s.data[Slot(r.p, i)] = r.data[Slot(r.p, i)] BY <1>1, <1>4, <2>1, <2>4
    <2>6. Values(s)[j] = Values(r)[i] BY <2>1, <2>3, <2>4, <2>5
    <2> QED BY <2>6 DEF i
  <1>9. Len(Values(r)) = Size(r.p) /\ Len(Values(s)) = Size(s.p) BY <1>5, ValuesAre
  <1>10. Pushes(Values(r), a, Values(s)) BY <1>6, <1>7, <1>8, <1>9 DEF Pushes
  <1> QED BY <1>5, <1>10 DEF s

LEMMA FilledIs ==
  ASSUME NEW ages, Len(ages) \in Nat, NEW f,
         f = [i \in 0..Len(ages) |-> IF i = 0 THEN EmptyRing ELSE Enqueue(f[i - 1], ages[i])]
  PROVE  Filled(ages) = f[Len(ages)]
  <1> DEFINE P(g) == g = [i \in 0..Len(ages) |-> IF i = 0 THEN EmptyRing ELSE Enqueue(g[i - 1], ages[i])]
             h == CHOOSE g : P(g)
  <1>1. P(h)
    <2>1. P(f) OBVIOUS
    <2> HIDE DEF P
    <2> QED BY <2>1
  <1>2. h[Len(ages)] = f[Len(ages)]
    <2> HIDE DEF h
    <2>1. h[0] = f[0]
      <3>1. 0 \in 0..Len(ages) OBVIOUS
      <3> QED BY <1>1, <3>1
    <2>2. ASSUME NEW i \in 1..Len(ages), h[i - 1] = f[i - 1] PROVE h[i] = f[i]
      <3>1. i \in 0..Len(ages) /\ i # 0 OBVIOUS
      <3>2. h[i] = Enqueue(h[i - 1], ages[i]) BY <1>1, <3>1
      <3>3. f[i] = Enqueue(f[i - 1], ages[i]) BY <3>1
      <3> HIDE DEF P
      <3> QED BY <2>2, <3>2, <3>3
    <2> HIDE DEF P
    <2> QED BY <2>1, <2>2, Same
  <1>3. Filled(ages) = h[Len(ages)] BY Zenon DEF Filled
  <1> QED BY <1>2, <1>3

LEMMA FilledSteps ==
  /\ Filled(<<>>) = EmptyRing
  /\ \A s \in Seq(0..Expired) : Filled(s) \in Ring
  /\ \A s \in Seq(0..Expired), a \in 0..Expired :
       Filled(Append(s, a)) = Enqueue(Filled(s), a)
  <1> DEFINE T == 0..Expired
             D == [r \in Ring |-> [a \in T |-> Enqueue(r, a)]]
             F == [s \in Seq(T) |-> Filled(s)]
  <1>1. D \in [Ring -> [T -> Ring]] BY EnqueuePushes
  <1>2. EmptyRing \in Ring BY DEF EmptyRing, Ring, Expired
  <1>3. ASSUME NEW s \in Seq(T), NEW f \in Loops(Ring, EmptyRing, D, s)
        PROVE  Filled(s) = f[Len(s)]
    <2> HIDE DEF T
    <2>1. Len(s) \in Nat /\ \A i \in 1..Len(s) : s[i] \in T BY LenProperties, ElementOfSeq
    <2>2. ASSUME NEW i \in 0..Len(s)
          PROVE  f[i] = IF i = 0 THEN EmptyRing ELSE Enqueue(f[i - 1], s[i])
      <3>1. CASE i = 0 BY <3>1 DEF Loops
      <3>2. CASE i # 0
        <4>1. i \in 1..Len(s) /\ i - 1 \in 0..Len(s) BY <2>1, <3>2
        <4>2. f[i] = D[f[i - 1]][s[i]] /\ f[i - 1] \in Ring /\ s[i] \in T
          <5> HIDE DEF D
          <5> QED BY <2>1, <4>1 DEF Loops
        <4> QED BY <4>2, <3>2
      <3> QED BY <3>1, <3>2
    <2>3. f = [i \in 0..Len(s) |-> IF i = 0 THEN EmptyRing ELSE Enqueue(f[i - 1], s[i])]
      BY <2>2 DEF Loops
    <2> QED BY <2>1, <2>3, FilledIs
  <1>4. Folds(F, T, Ring, EmptyRing, D)
    <2>1. LoopIs(F, T, Ring, EmptyRing, D)
      <3> HIDE DEF D, T
      <3> QED BY <1>3 DEF LoopIs
    <2> HIDE DEF D, F, T
    <2> QED BY <1>1, <1>2, <2>1, Fold
  <1> HIDE DEF T
  <1>5. /\ Filled(<<>>) = EmptyRing
        /\ \A s \in Seq(T) : Filled(s) \in Ring
        /\ \A s \in Seq(T), a \in T : Filled(Append(s, a)) = Enqueue(Filled(s), a)
    BY <1>4, EmptySeq, AppendProperties DEF Folds
  <1> QED BY <1>5 DEF T

(* v is the end of s, as much as fits into a ring.                         *)
EndOf(v, s) ==
  /\ Len(v) = IF Len(s) < Capacity THEN Len(s) ELSE Capacity
  /\ \A j \in 1..Len(v) : v[j] = s[Len(s) - Len(v) + j]

(* A ring that is filled holds the newest that were enqueued.              *)
LEMMA FilledEnd ==
  ASSUME NEW ages \in Seq(0..Expired)
  PROVE  Filled(ages) \in Ring /\ EndOf(Values(Filled(ages)), ages)
  <1> DEFINE T == 0..Expired
             B == {s \in Seq(T) : EndOf(Values(Filled(s)), s)}
  <1>1. <<>> \in B
    <2>1. Values(EmptyRing) = <<>> BY DEF Values, EmptyRing
    <2> QED BY <2>1, FilledSteps, EmptySeq DEF EndOf
  <1>2. ASSUME NEW s \in Seq(T), NEW a \in T, s \in B PROVE Append(s, a) \in B
    <2> DEFINE v == Values(Filled(s))
               w == Values(Filled(Append(s, a)))
               t == Append(s, a)
    <2>1. Pushes(v, a, w) /\ Filled(s) \in Ring
      BY FilledSteps, EnqueuePushes
    <2>2. EndOf(v, s) BY <1>2
    <2>3. t \in Seq(T) /\ Len(t) = Len(s) + 1 /\ t[Len(s) + 1] = a /\ Len(s) \in Nat
          /\ \A i \in 1..Len(s) : t[i] = s[i]
      <3> HIDE DEF T
      <3> QED BY AppendProperties, LenProperties
    <2> HIDE DEF T, B, v, w, t
    <2>4. Len(w) = IF Len(t) < Capacity THEN Len(t) ELSE Capacity
      BY <2>1, <2>2, <2>3 DEF Pushes, EndOf
    <2>5. ASSUME NEW j \in 1..Len(w) PROVE w[j] = t[Len(t) - Len(w) + j]
      <3>1. CASE j = Len(w)
        <4>1. Len(t) - Len(w) + j = Len(s) + 1 BY <2>3, <2>4, <3>1
        <4>2. w[j] = a BY <2>1, <3>1 DEF Pushes
        <4> QED BY <2>3, <4>1, <4>2
      <3>2. CASE j # Len(w)
        <4> DEFINE i == IF Len(v) < Capacity THEN j ELSE j + 1
        <4>1. j \in 1..Len(w) - 1 BY <2>3, <2>4, <3>2
        <4>2. w[j] = v[i] BY <2>1, <4>1 DEF Pushes
        <4>3. i \in 1..Len(v) /\ Len(s) - Len(v) + i = Len(t) - Len(w) + j
              /\ Len(s) - Len(v) + i \in 1..Len(s)
          <5>1. CASE Len(s) < Capacity
            <6>1. Len(v) = Len(s) /\ Len(w) = Len(s) + 1 /\ i = j
              BY <2>2, <2>3, <2>4, <5>1 DEF EndOf
            <6> QED BY <2>3, <4>1, <6>1
          <5>2. CASE Len(s) >= Capacity
            <6>1. Len(v) = Capacity /\ Len(w) = Capacity /\ i = j + 1
              BY <2>2, <2>3, <2>4, <5>2 DEF EndOf
            <6>2. j \in Nat /\ j >= 1 /\ j < Capacity /\ Len(t) = Len(s) + 1 BY <2>3, <4>1, <6>1
            <6> HIDE DEF i
            <6> QED BY <2>3, <5>2, <6>1, <6>2
          <5> QED BY <2>3, <5>1, <5>2
        <4> HIDE DEF i
        <4> QED BY <2>2, <2>3, <4>2, <4>3 DEF EndOf
      <3> QED BY <3>1, <3>2
    <2> QED BY <2>3, <2>4, <2>5 DEF EndOf, B, w, t
  <1>3. Seq(T) \subseteq B
    <2> HIDE DEF T, B
    <2> QED BY <1>1, <1>2, SeqInduct
  <1> QED BY <1>3, FilledSteps

(***************************************************************************)
(* What a purge and a partial read leave                                   *)
(***************************************************************************)
LEMMA RecentConcat ==
  ASSUME NEW s \in Seq(Line), NEW t \in Seq(Line)
  PROVE  Recent(s \o t) = Recent(s) \o Recent(t)
  BY ChosenConcat DEF Recent

LEMMA RecentType == ASSUME NEW s \in Seq(Line) PROVE Recent(s) \in Seq(Line)
  BY ChosenType DEF Recent

LEMMA RecentRange ==
  ASSUME NEW s \in Seq(Line), NEW l
  PROVE  l \in Range(Recent(s)) <=> l \in Range(s) /\ l.age <= HourTicks
  <1>1. Range(Recent(s)) = Range(s) \cap {m \in Line : m.age <= HourTicks}
    BY ChosenRange DEF Recent
  <1> QED BY <1>1, RangeOfSeq

(* Files that are removed held no line of the last hour.                   *)
LEMMA PurgeKeeps ==
  ASSUME NEW S, NEW fs \in Seq(File), \A f \in Range(fs) : f \in S \/ Recent(f.lines) = <<>>
  PROVE  Recent(AllLines(Chosen(fs, S))) = Recent(AllLines(fs))
  <1> DEFINE Good(gs) == \A f \in Range(gs) : f \in S \/ Recent(f.lines) = <<>>
             B == {gs \in Seq(File) :
                     Good(gs) => Recent(AllLines(Chosen(gs, S))) = Recent(AllLines(gs))}
  <1>1. <<>> \in B BY ChosenEmpty, EmptySeq
  <1>2. ASSUME NEW gs \in Seq(File), NEW f \in File, gs \in B PROVE Append(gs, f) \in B
    <2> SUFFICES ASSUME Good(Append(gs, f))
                 PROVE  Recent(AllLines(Chosen(Append(gs, f), S))) = Recent(AllLines(Append(gs, f)))
      BY AppendProperties
    <2>1. Good(gs) /\ (f \in S \/ Recent(f.lines) = <<>>) BY RangeAppend
    <2>2. Recent(AllLines(Chosen(gs, S))) = Recent(AllLines(gs)) BY <1>2, <2>1
    <2> HIDE DEF Good, B
    <2>3. AllLines(gs) \in Seq(Line) /\ f.lines \in Seq(Line) /\ Chosen(gs, S) \in Seq(File)
      BY AllLinesType, ChosenType DEF File
    <2>4. AllLines(Append(gs, f)) = AllLines(gs) \o f.lines BY AllLinesAppend
    <2>5. Recent(AllLines(Append(gs, f))) = Recent(AllLines(gs)) \o Recent(f.lines)
      BY <2>3, <2>4, RecentConcat
    <2>6. CASE f \in S
      <3>1. Chosen(Append(gs, f), S) = Append(Chosen(gs, S), f) BY <2>6, ChosenTakes
      <3>2. AllLines(Append(Chosen(gs, S), f)) = AllLines(Chosen(gs, S)) \o f.lines
        BY <2>3, AllLinesAppend
      <3>3. AllLines(Chosen(gs, S)) \in Seq(Line) BY <2>3, AllLinesType
      <3>4. Recent(AllLines(Chosen(Append(gs, f), S))) = Recent(AllLines(gs)) \o Recent(f.lines)
        BY <2>2, <2>3, <3>1, <3>2, <3>3, RecentConcat
      <3> QED BY <2>5, <3>4
    <2>7. CASE f \notin S
      <3>1. Chosen(Append(gs, f), S) = Chosen(gs, S) BY <2>7, ChosenDrops
      <3>2. Recent(AllLines(gs)) \in Seq(Line) BY <2>3, RecentType
      <3>3. Recent(AllLines(gs)) \o Recent(f.lines) = Recent(AllLines(gs))
        BY <2>1, <2>7, <3>2, ConcatEmptySeq
      <3> QED BY <2>2, <2>5, <3>1, <3>3
    <2> QED BY <2>6, <2>7
  <1>3. Seq(File) \subseteq B
    <2> HIDE DEF B
    <2> QED BY <1>1, <1>2, SeqInduct
  <1> QED BY <1>3

LEMMA PurgeOrdered ==
  ASSUME NEW S, NEW fs \in Seq(File), Ordered(AllLines(fs))
  PROVE  Ordered(AllLines(Chosen(fs, S)))
  <1> DEFINE B == {gs \in Seq(File) : Ordered(AllLines(gs)) => Ordered(AllLines(Chosen(gs, S)))}
  <1>1. <<>> \in B BY ChosenEmpty, EmptySeq
  <1>2. ASSUME NEW gs \in Seq(File), NEW f \in File, gs \in B PROVE Append(gs, f) \in B
    <2> SUFFICES ASSUME Ordered(AllLines(Append(gs, f)))
                 PROVE  Ordered(AllLines(Chosen(Append(gs, f), S)))
      BY AppendProperties
    <2> DEFINE a == AllLines(gs)
               c == AllLines(Chosen(gs, S))
    <2>1. a \in Seq(Line) /\ f.lines \in Seq(Line) /\ Chosen(gs, S) \in Seq(File) /\ c \in Seq(Line)
      BY AllLinesType, ChosenType DEF File
    <2>2. AllLines(Append(gs, f)) = a \o f.lines BY AllLinesAppend
    <2>3. /\ Ordered(a) /\ Ordered(f.lines)
          /\ \A l \in Range(a), m \in Range(f.lines) : Later(l, m)
      <3> HIDE DEF a, c
      <3> QED BY <2>1, <2>2, OrderedConcat
    <2>4. Ordered(c) BY <1>2, <2>3
    <2>5. Range(c) \subseteq Range(a)
      <3>1. Range(Chosen(gs, S)) = Range(gs) \cap S BY ChosenRange
      <3> QED BY <2>1, <3>1, AllLinesRange
    <2>6. CASE f \in S
      <3>1. Chosen(Append(gs, f), S) = Append(Chosen(gs, S), f) BY <2>6, ChosenTakes
      <3>2. AllLines(Append(Chosen(gs, S), f)) = c \o f.lines BY <2>1, AllLinesAppend
      <3> HIDE DEF a, c
      <3> QED BY <2>1, <2>3, <2>4, <2>5, <3>1, <3>2, OrderedConcat
    <2>7. CASE f \notin S BY <2>4, <2>7, ChosenDrops
    <2> QED BY <2>6, <2>7
  <1>3. Seq(File) \subseteq B
    <2> HIDE DEF B
    <2> QED BY <1>1, <1>2, SeqInduct
  <1> QED BY <1>3

LEMMA PrefixKeeps ==
  ASSUME NEW fs \in Seq(File), NEW n \in 0..Len(fs)
  PROVE  LET gs == SubSeq(fs, 1, n)
         IN  /\ gs \in Seq(File)
             /\ Range(AllLines(gs)) \subseteq Range(AllLines(fs))
             /\ Ordered(AllLines(fs)) => Ordered(AllLines(gs))
  <1> DEFINE gs == SubSeq(fs, 1, n)
             hs == SubSeq(fs, n + 1, Len(fs))
  <1>1. Len(fs) \in Nat /\ \A i \in 1..Len(fs) : fs[i] \in File BY LenProperties, ElementOfSeq
  <1>2. gs \in Seq(File) BY <1>1, SubSeqProperties
  <1>3. hs \in Seq(File) BY <1>1, SubSeqProperties
  <1>4. gs \o hs = fs
    <2>1. 1 \in 1..Len(fs) + 1 /\ n \in 1 - 1..Len(fs) /\ Len(fs) \in n..Len(fs) BY <1>1
    <2>2. gs \o hs = SubSeq(fs, 1, Len(fs)) BY <2>1, ConcatAdjacentSubSeq
    <2> QED BY <2>2, SubSeqFull
  <1> HIDE DEF gs, hs
  <1>5. AllLines(fs) = AllLines(gs) \o AllLines(hs) BY <1>2, <1>3, <1>4, AllLinesConcat
  <1>6. AllLines(gs) \in Seq(Line) /\ AllLines(hs) \in Seq(Line) BY <1>2, <1>3, AllLinesType
  <1>7. Range(AllLines(gs)) \subseteq Range(AllLines(fs)) BY <1>5, <1>6, RangeConcatenation
  <1>8. Ordered(AllLines(fs)) => Ordered(AllLines(gs)) BY <1>5, <1>6, OrderedConcat
  <1> QED BY <1>2, <1>7, <1>8 DEF gs

(***************************************************************************)
(* A minute later                                                          *)
(***************************************************************************)
AgedLine(l) == [l EXCEPT !.age = Older(@, Expired)]

LEMMA OlderIs ==
  ASSUME NEW a \in 0..Expired
  PROVE  /\ Older(a, Expired) \in 1..Expired
         /\ Older(a, Expired) = IF a < Expired THEN a + 1 ELSE Expired
  BY DEF Older, Expired

LEMMA AgedLineIs ==
  ASSUME NEW l \in Line
  PROVE  AgedLine(l) \in Line /\ AgedLine(l).key = l.key /\ AgedLine(l).age = Older(l.age, Expired)
  <1>1. l.age \in 0..Expired /\ l.key \in Keys BY DEF Line
  <1>2. Older(l.age, Expired) \in 0..Expired BY <1>1, OlderIs DEF Expired
  <1> QED BY <1>1, <1>2 DEF AgedLine, Line

LEMMA AgedLinesAre ==
  ASSUME NEW s \in Seq(Line)
  PROVE  /\ AgedLines(s) \in Seq(Line) /\ Len(AgedLines(s)) = Len(s)
         /\ \A i \in 1..Len(s) : AgedLines(s)[i] = AgedLine(s[i])
  <1>1. Len(s) \in Nat /\ DOMAIN s = 1..Len(s) /\ \A i \in 1..Len(s) : s[i] \in Line
    BY LenProperties, ElementOfSeq
  <1>2. AgedLines(s) = [i \in 1..Len(s) |-> AgedLine(s[i])] BY <1>1 DEF AgedLines, AgedLine
  <1>3. AgedLines(s) \in [1..Len(s) -> Line] BY <1>1, <1>2, AgedLineIs
  <1> QED BY <1>1, <1>2, <1>3, FunctionSeq

LEMMA AgedEmpty == AgedLines(<<>>) = <<>>
  BY DEF AgedLines

LEMMA AgedConcat ==
  ASSUME NEW s \in Seq(Line), NEW t \in Seq(Line)
  PROVE  AgedLines(s \o t) = AgedLines(s) \o AgedLines(t)
  <1>1. s \o t \in Seq(Line) /\ Len(s \o t) = Len(s) + Len(t) /\ Len(s) \in Nat /\ Len(t) \in Nat
    BY ConcatProperties, LenProperties
  <1>2. /\ AgedLines(s) \in Seq(Line) /\ AgedLines(t) \in Seq(Line) /\ AgedLines(s \o t) \in Seq(Line)
        /\ Len(AgedLines(s)) = Len(s) /\ Len(AgedLines(t)) = Len(t)
        /\ Len(AgedLines(s \o t)) = Len(s) + Len(t)
    BY <1>1, AgedLinesAre
  <1>3. AgedLines(s) \o AgedLines(t) \in Seq(Line)
        /\ Len(AgedLines(s) \o AgedLines(t)) = Len(s) + Len(t)
    BY <1>2, ConcatProperties
  <1>4. ASSUME NEW i \in 1..Len(s) + Len(t)
        PROVE  AgedLines(s \o t)[i] = (AgedLines(s) \o AgedLines(t))[i]
    <2>1. AgedLines(s \o t)[i] = AgedLine((s \o t)[i]) BY <1>1, AgedLinesAre
    <2>2. CASE i <= Len(s)
      <3>1. i \in 1..Len(s) BY <1>1, <2>2
      <3>2. (s \o t)[i] = s[i] BY <2>2, ConcatProperties
      <3>3. (AgedLines(s) \o AgedLines(t))[i] = AgedLines(s)[i] BY <1>2, <2>2, ConcatProperties
      <3> QED BY <2>1, <3>1, <3>2, <3>3, AgedLinesAre
    <2>3. CASE ~ (i <= Len(s))
      <3>1. i - Len(s) \in 1..Len(t) BY <1>1, <2>3
      <3>2. (s \o t)[i] = t[i - Len(s)] BY <2>3, ConcatProperties
      <3>3. (AgedLines(s) \o AgedLines(t))[i] = AgedLines(t)[i - Len(s)]
        BY <1>2, <2>3, ConcatProperties
      <3> QED BY <2>1, <3>1, <3>2, <3>3, AgedLinesAre
    <2> QED BY <2>2, <2>3
  <1> QED BY <1>2, <1>3, <1>4, SeqEqual

LEMMA AgedAppend ==
  ASSUME NEW s \in Seq(Line), NEW x \in Line
  PROVE  AgedLines(Append(s, x)) = Append(AgedLines(s), AgedLine(x))
  <1>1. <<x>> \in Seq(Line) /\ Append(s, x) = s \o <<x>> BY AppendIsConcat
  <1>2. AgedLines(<<x>>) = <<AgedLine(x)>> BY DEF AgedLines, AgedLine
  <1>3. AgedLines(s) \in Seq(Line) /\ AgedLine(x) \in Line BY AgedLinesAre, AgedLineIs
  <1>4. Append(AgedLines(s), AgedLine(x)) = AgedLines(s) \o <<AgedLine(x)>>
    BY <1>3, AppendIsConcat
  <1> QED BY <1>1, <1>2, <1>4, AgedConcat

LEMMA AgedRange ==
  ASSUME NEW s \in Seq(Line), NEW l
  PROVE  l \in Range(AgedLines(s)) <=> \E m \in Range(s) : l = AgedLine(m)
  <1>1. Range(s) = {s[i] : i \in 1..Len(s)} BY RangeEquality
  <1>2. AgedLines(s) \in Seq(Line) /\ Len(AgedLines(s)) = Len(s)
        /\ \A i \in 1..Len(s) : AgedLines(s)[i] = AgedLine(s[i])
    BY AgedLinesAre
  <1>3. Range(AgedLines(s)) = {AgedLines(s)[i] : i \in 1..Len(s)} BY <1>2, RangeEquality
  <1> QED BY <1>1, <1>2, <1>3

(* What is too old to be read does not come back.                          *)
LEMMA RecentAged ==
  ASSUME NEW s \in Seq(Line)
  PROVE  Recent(AgedLines(s)) = Recent(AgedLines(Recent(s)))
  <1> DEFINE B == {t \in Seq(Line) : Recent(AgedLines(t)) = Recent(AgedLines(Recent(t)))}
             S == {l \in Line : l.age <= HourTicks}
  <1>1. <<>> \in B BY ChosenEmpty, EmptySeq, AgedEmpty DEF Recent
  <1>2. ASSUME NEW t \in Seq(Line), NEW x \in Line, t \in B PROVE Append(t, x) \in B
    <2> SUFFICES Recent(AgedLines(Append(t, x))) = Recent(AgedLines(Recent(Append(t, x))))
      BY AppendProperties
    <2>1. Recent(AgedLines(t)) = Recent(AgedLines(Recent(t))) BY <1>2
    <2> HIDE DEF B
    <2>2. Recent(t) \in Seq(Line) BY RecentType
    <2>3. AgedLines(t) \in Seq(Line) /\ AgedLines(Recent(t)) \in Seq(Line) BY <2>2, AgedLinesAre
    <2>4. AgedLine(x) \in Line /\ AgedLine(x).age = Older(x.age, Expired) /\ x.age \in 0..Expired
      BY AgedLineIs DEF Line
    <2>5. AgedLines(Append(t, x)) = Append(AgedLines(t), AgedLine(x)) BY AgedAppend
    <2>6. CASE x.age <= HourTicks
      <3>1. Recent(Append(t, x)) = Append(Recent(t), x)
        <4>1. x \in S BY <2>6
        <4> HIDE DEF S
        <4>2. Chosen(Append(t, x), S) = Append(Chosen(t, S), x) BY <4>1, ChosenTakes
        <4> QED BY <4>2 DEF Recent, S
      <3>2. AgedLines(Append(Recent(t), x)) = Append(AgedLines(Recent(t)), AgedLine(x))
        BY <2>2, AgedAppend
      <3> DEFINE a == AgedLines(t)
                 b == AgedLines(Recent(t))
                 y == AgedLine(x)
      <3>3. Recent(Append(a, y)) = Recent(Append(b, y))
        <4> HIDE DEF a, b, y, S
        <4>1. a \in Seq(Line) /\ b \in Seq(Line) /\ y \in Line BY <2>3, <2>4 DEF a, b, y
        <4>2. Chosen(a, S) = Chosen(b, S) BY <2>1 DEF a, b, Recent, S
        <4>3. CASE y \in S
          <5>1. Chosen(Append(a, y), S) = Append(Chosen(a, S), y) BY <4>1, <4>3, ChosenTakes
          <5>2. Chosen(Append(b, y), S) = Append(Chosen(b, S), y) BY <4>1, <4>3, ChosenTakes
          <5> QED BY <4>2, <5>1, <5>2 DEF Recent, S
        <4>4. CASE y \notin S
          <5>1. Chosen(Append(a, y), S) = Chosen(a, S) BY <4>1, <4>4, ChosenDrops
          <5>2. Chosen(Append(b, y), S) = Chosen(b, S) BY <4>1, <4>4, ChosenDrops
          <5> QED BY <4>2, <5>1, <5>2 DEF Recent, S
        <4> QED BY <4>3, <4>4
      <3> QED BY <2>5, <3>1, <3>2, <3>3
    <2>7. CASE ~ (x.age <= HourTicks)
      <3>1. x \notin S BY <2>7
      <3>2. AgedLine(x) \notin S
        <4>1. AgedLine(x).age = Expired BY <2>4, <2>7, OlderIs DEF Expired
        <4> QED BY <4>1 DEF Expired
      <3> HIDE DEF S
      <3>3. Chosen(Append(t, x), S) = Chosen(t, S) BY <3>1, ChosenDrops
      <3>4. Chosen(Append(AgedLines(t), AgedLine(x)), S) = Chosen(AgedLines(t), S)
        BY <2>3, <2>4, <3>2, ChosenDrops
      <3> QED BY <2>1, <2>5, <3>3, <3>4 DEF Recent, S
    <2> QED BY <2>6, <2>7
  <1>3. Seq(Line) \subseteq B
    <2> HIDE DEF B
    <2> QED BY <1>1, <1>2, SeqInduct
  <1> QED BY <1>3

LEMMA LaterAged ==
  ASSUME NEW l \in Line, NEW m \in Line, Later(l, m)
  PROVE  Later(AgedLine(l), AgedLine(m))
  <1>1. l.age \in 0..Expired /\ m.age \in 0..Expired /\ Expired \in Nat BY DEF Line, Expired
  <1> QED BY <1>1, AgedLineIs, OlderIs DEF Later

LEMMA AgedOrdered ==
  ASSUME NEW s \in Seq(Line), Ordered(s)
  PROVE  Ordered(AgedLines(s))
  <1>1. /\ DOMAIN s = 1..Len(s) /\ \A i \in 1..Len(s) : s[i] \in Line
    BY LenProperties, ElementOfSeq
  <1>2. DOMAIN AgedLines(s) = 1..Len(s) /\ \A i \in 1..Len(s) : AgedLines(s)[i] = AgedLine(s[i])
    BY AgedLinesAre, LenProperties
  <1> QED BY <1>1, <1>2, LaterAged DEF Ordered

AgedFile(f) == [opened |-> Older(f.opened, Ancient), lines |-> AgedLines(f.lines)]

LEMMA AgedFileIs ==
  ASSUME NEW f \in File
  PROVE  /\ AgedFile(f) \in File /\ AgedFile(f).lines = AgedLines(f.lines)
         /\ AgedFile(f).opened = IF f.opened < Ancient THEN f.opened + 1 ELSE Ancient
  <1>1. f.opened \in 0..Ancient /\ f.lines \in Seq(Line) BY DEF File
  <1>2. Older(f.opened, Ancient) \in 0..Ancient BY <1>1 DEF Older, Ancient
  <1>3. AgedLines(f.lines) \in Seq(Line) BY <1>1, AgedLinesAre
  <1> QED BY <1>2, <1>3 DEF AgedFile, File, Older

LEMMA AgedFilesAre ==
  ASSUME NEW fs \in Seq(File)
  PROVE  /\ AgedFiles(fs) \in Seq(File) /\ Len(AgedFiles(fs)) = Len(fs)
         /\ \A i \in 1..Len(fs) : AgedFiles(fs)[i] = AgedFile(fs[i])
  <1>1. Len(fs) \in Nat /\ DOMAIN fs = 1..Len(fs) /\ \A i \in 1..Len(fs) : fs[i] \in File
    BY LenProperties, ElementOfSeq
  <1>2. AgedFiles(fs) = [i \in 1..Len(fs) |-> AgedFile(fs[i])] BY <1>1 DEF AgedFiles, AgedFile
  <1>3. AgedFiles(fs) \in [1..Len(fs) -> File] BY <1>1, <1>2, AgedFileIs
  <1> QED BY <1>1, <1>2, <1>3, FunctionSeq

LEMMA AgedFilesAppend ==
  ASSUME NEW fs \in Seq(File), NEW f \in File
  PROVE  AgedFiles(Append(fs, f)) = Append(AgedFiles(fs), AgedFile(f))
  <1> DEFINE gs == Append(fs, f)
             hs == AgedFiles(fs)
             x  == AgedFile(f)
  <1>1. /\ gs \in Seq(File) /\ Len(gs) = Len(fs) + 1 /\ gs[Len(fs) + 1] = f /\ Len(fs) \in Nat
        /\ \A i \in 1..Len(fs) : gs[i] = fs[i]
    BY AppendProperties, LenProperties
  <1>2. hs \in Seq(File) /\ x \in File /\ Len(hs) = Len(fs)
        /\ \A i \in 1..Len(fs) : hs[i] = AgedFile(fs[i])
    BY AgedFilesAre, AgedFileIs
  <1> HIDE DEF gs, hs, x
  <1>3. /\ Append(hs, x) \in Seq(File) /\ Len(Append(hs, x)) = Len(fs) + 1
        /\ Append(hs, x)[Len(fs) + 1] = x
        /\ \A i \in 1..Len(fs) : Append(hs, x)[i] = hs[i]
    BY <1>2, AppendProperties
  <1>4. /\ AgedFiles(gs) \in Seq(File) /\ Len(AgedFiles(gs)) = Len(fs) + 1
        /\ \A i \in 1..Len(fs) + 1 : AgedFiles(gs)[i] = AgedFile(gs[i])
    BY <1>1, AgedFilesAre
  <1>5. ASSUME NEW i \in 1..Len(fs) + 1 PROVE AgedFiles(gs)[i] = Append(hs, x)[i]
    <2>1. CASE i = Len(fs) + 1 BY <1>1, <1>3, <1>4, <2>1 DEF x
    <2>2. CASE i \in 1..Len(fs) BY <1>1, <1>2, <1>3, <1>4, <2>2
    <2>3. i = Len(fs) + 1 \/ i \in 1..Len(fs)
      <3>1. Len(fs) \in Nat BY <1>1
      <3> QED BY <3>1
    <2> QED BY <2>1, <2>2, <2>3
  <1>6. AgedFiles(gs) = Append(hs, x) BY <1>3, <1>4, <1>5, SeqEqual
  <1> QED BY <1>6 DEF gs, hs, x

LEMMA AllLinesAged ==
  ASSUME NEW fs \in Seq(File)
  PROVE  AllLines(AgedFiles(fs)) = AgedLines(AllLines(fs))
  <1> DEFINE B == {gs \in Seq(File) : AllLines(AgedFiles(gs)) = AgedLines(AllLines(gs))}
  <1>1. <<>> \in B
    <2>1. AgedFiles(<<>>) = <<>> BY DEF AgedFiles
    <2> QED BY <2>1, AllLinesEmpty, AgedEmpty, EmptySeq
  <1>2. ASSUME NEW gs \in Seq(File), NEW f \in File, gs \in B PROVE Append(gs, f) \in B
    <2>1. AllLines(gs) \in Seq(Line) /\ f.lines \in Seq(Line) /\ AgedFiles(gs) \in Seq(File)
          /\ AgedFile(f) \in File
      BY AllLinesType, AgedFilesAre, AgedFileIs DEF File
    <2>2. AllLines(Append(gs, f)) = AllLines(gs) \o f.lines BY AllLinesAppend
    <2>3. AgedLines(AllLines(gs) \o f.lines) = AgedLines(AllLines(gs)) \o AgedLines(f.lines)
      BY <2>1, AgedConcat
    <2>4. AgedFiles(Append(gs, f)) = Append(AgedFiles(gs), AgedFile(f)) BY AgedFilesAppend
    <2>5. AllLines(Append(AgedFiles(gs), AgedFile(f)))
            = AllLines(AgedFiles(gs)) \o AgedFile(f).lines
      BY <2>1, AllLinesAppend
    <2>6. AgedFile(f).lines = AgedLines(f.lines) BY AgedFileIs
    <2>7. Append(gs, f) \in Seq(File) BY AppendProperties
    <2> QED BY <1>2, <2>2, <2>3, <2>4, <2>5, <2>6, <2>7
  <1>3. Seq(File) \subseteq B
    <2> HIDE DEF B
    <2> QED BY <1>1, <1>2, SeqInduct
  <1> QED BY <1>3

LEMMA AgedRingIs ==
  ASSUME NEW r \in Ring
  PROVE  /\ AgedRing(r) \in Ring /\ DOMAIN Values(AgedRing(r)) = DOMAIN Values(r)
         /\ \A j \in DOMAIN Values(r) :
              Values(AgedRing(r))[j] = Older(Values(r)[j], Expired)
  <1> DEFINE s == AgedRing(r)
  <1>1. r.p \in 0..2 * Capacity - 1 /\ r.data \in [0..Capacity - 1 -> 0..Expired] BY DEF Ring
  <1>2. s = [data |-> [i \in 0..Capacity - 1 |-> Older(r.data[i], Expired)], p |-> r.p]
    <2>1. DOMAIN r.data = 0..Capacity - 1 BY <1>1
    <2> QED BY <2>1 DEF AgedRing
  <1>3. ASSUME NEW i \in 0..Capacity - 1 PROVE Older(r.data[i], Expired) \in 0..Expired
    <2>1. r.data[i] \in 0..Expired BY <1>1
    <2>2. Expired \in Nat BY DEF Expired
    <2> QED BY <2>1, <2>2, OlderIs
  <1>4. s \in Ring BY <1>1, <1>2, <1>3 DEF Ring
  <1>5. s.p = r.p /\ \A i \in 0..Capacity - 1 : s.data[i] = Older(r.data[i], Expired) BY <1>2
  <1> HIDE DEF s
  <1>6. ASSUME NEW j \in 1..Size(r.p) PROVE Values(s)[j] = Older(Values(r)[j], Expired)
    <2>1. Slot(r.p, j) \in 0..Capacity - 1 /\ Values(r)[j] = r.data[Slot(r.p, j)] BY ValuesAre
    <2>2. Values(s)[j] = s.data[Slot(r.p, j)] BY <1>4, <1>5, ValuesAre
    <2> QED BY <1>5, <2>1, <2>2
  <1>7. DOMAIN Values(r) = 1..Size(r.p) /\ DOMAIN Values(s) = 1..Size(r.p)
    BY <1>4, <1>5, ValuesAre
  <1> QED BY <1>4, <1>6, <1>7 DEF s

(***************************************************************************)
(* What a ring holds, in the order of time                                 *)
(***************************************************************************)
Younger(a, b) == a > b \/ a = Expired

Decreasing(ages) == \A i, j \in DOMAIN ages : i < j => Younger(ages[i], ages[j])

LEMMA AgesAre ==
  ASSUME NEW k, NEW s \in Seq(Line)
  PROVE  LET h == Ages(LinesOf(k, s))
         IN  /\ h \in Seq(0..Expired)
             /\ \A a : a \in Range(h) <=> \E l \in Range(s) : l.key = k /\ l.age = a
             /\ Ordered(s) => Decreasing(h)
  <1> DEFINE own == LinesOf(k, s)
             h == Ages(own)
             T == 0..Expired
  <1>1. own \in Seq(Line) BY ChosenType DEF LinesOf
  <1>2. Range(own) = Range(s) \cap {l \in Line : l.key = k} BY ChosenRange DEF LinesOf
  <1>3. Ordered(s) => Ordered(own) BY OrderedChosen DEF LinesOf
  <1> HIDE DEF own
  <1>4. Len(own) \in Nat /\ DOMAIN own = 1..Len(own) /\ \A i \in 1..Len(own) : own[i] \in Line
    BY <1>1, LenProperties, ElementOfSeq
  <1>5. h = [i \in 1..Len(own) |-> own[i].age] BY <1>4 DEF Ages
  <1>6. \A l \in Line : l.age \in T BY DEF Line
  <1> HIDE DEF h, T
  <1>7. h \in [1..Len(own) -> T] BY <1>4, <1>5, <1>6
  <1>8. h \in Seq(T) /\ Len(h) = Len(own) /\ DOMAIN h = 1..Len(own) BY <1>4, <1>7, FunctionSeq
  <1>9. Range(own) = {own[i] : i \in 1..Len(own)} BY <1>1, RangeEquality
  <1>10. Range(h) = {h[i] : i \in 1..Len(own)} BY <1>8, RangeEquality
  <1>11. \A i \in 1..Len(own) : h[i] = own[i].age BY <1>5
  <1>12. ASSUME NEW a PROVE a \in Range(h) <=> \E l \in Range(s) : l.key = k /\ l.age = a
    <2>1. a \in Range(h) <=> \E l \in Range(own) : l.age = a BY <1>9, <1>10, <1>11
    <2>2. Range(s) \subseteq Line BY RangeOfSeq
    <2> QED BY <1>2, <2>1, <2>2
  <1>13. ASSUME Ordered(s) PROVE Decreasing(h)
    <2> SUFFICES ASSUME NEW i \in 1..Len(own), NEW j \in 1..Len(own), i < j
                 PROVE  Younger(h[i], h[j])
      BY <1>8 DEF Decreasing
    <2>1. Later(own[i], own[j]) BY <1>3, <1>4, <1>13 DEF Ordered
    <2>2. own[i].key = k /\ own[j].key = k BY <1>2, <1>9
    <2> QED BY <1>11, <2>1, <2>2 DEF Later, Younger
  <1> QED BY <1>8, <1>12, <1>13 DEF own, h, T

LEMMA Down ==
  ASSUME NEW a \in 0..Expired, NEW b \in 0..Expired, NEW c \in 0..Expired, NEW d \in Nat,
         a # Expired, a >= b + d, Younger(b, c)
  PROVE  a >= c + (d + 1)
  <1>1. a \in Nat /\ b \in Nat /\ c \in Nat /\ a <= Expired /\ Expired \in Nat BY DEF Expired
  <1>2. b # Expired BY <1>1
  <1>3. b > c BY <1>2 DEF Younger
  <1> QED BY <1>1, <1>3

(* From one value to a later one lies at least the time between them.      *)
LEMMA Steep ==
  ASSUME NEW s \in Seq(0..Expired), Decreasing(s),
         NEW i \in 1..Len(s), NEW j \in i..Len(s), s[i] # Expired
  PROVE  s[i] >= s[j] + (j - i)
  <1>1. Len(s) \in Nat /\ DOMAIN s = 1..Len(s) BY LenProperties
  <1>2. \A n \in 1..Len(s) : s[n] \in 0..Expired BY ElementOfSeq
  <1>3. Expired \in Nat BY DEF Expired
  <1> DEFINE B == {d \in Nat : i + d <= Len(s) => s[i] >= s[i + d] + d}
  <1>4. 0 \in B
    <2>1. i + 0 = i /\ s[i] \in Nat BY <1>2, <1>3
    <2> QED BY <2>1
  <1>5. ASSUME NEW d \in Nat, d \in B PROVE d + 1 \in B
    <2> SUFFICES ASSUME i + (d + 1) <= Len(s) PROVE s[i] >= s[i + (d + 1)] + (d + 1) OBVIOUS
    <2> DEFINE m == i + d
               n == i + (d + 1)
    <2>1. m \in 1..Len(s) /\ n \in 1..Len(s) /\ m < n
      <3>1. i \in Nat /\ i >= 1 /\ Len(s) \in Nat /\ d \in Nat BY <1>1
      <3> QED BY <3>1
    <2>2. s[i] >= s[m] + d
      <3>1. i + d <= Len(s) BY <1>1, <2>1
      <3> QED BY <1>5, <3>1
    <2> HIDE DEF m, n
    <2>3. Younger(s[m], s[n]) BY <1>1, <2>1 DEF Decreasing
    <2>4. s[i] \in 0..Expired /\ s[m] \in 0..Expired /\ s[n] \in 0..Expired BY <1>2, <2>1
    <2>5. s[i] >= s[n] + (d + 1) BY <2>2, <2>3, <2>4, Down
    <2> QED BY <2>5 DEF n
  <1>6. Nat \subseteq B
    <2> HIDE DEF B
    <2> QED BY <1>4, <1>5, Induct
  <1>7. j - i \in Nat /\ i + (j - i) = j BY <1>1
  <1>8. j - i \in B BY <1>6, <1>7
  <1> QED BY <1>1, <1>7, <1>8

(* A younger value enters a ring: the order stays, and what leaves it is   *)
(* an hour old.                                                            *)
LEMMA PushKeeps ==
  ASSUME NEW v \in Seq(0..Expired), NEW w \in Seq(0..Expired), Pushes(v, 0, w),
         Len(v) <= Capacity, Decreasing(v), 0 \notin Range(v)
  PROVE  /\ Decreasing(w) /\ 0 \in Range(w)
         /\ \A a \in Range(v) : a < HourTicks => a \in Range(w)
  <1>1. /\ Len(v) \in Nat /\ DOMAIN v = 1..Len(v) /\ Len(w) \in Nat /\ DOMAIN w = 1..Len(w)
    BY LenProperties
  <1>2. \A i \in 1..Len(v) : v[i] \in 0..Expired BY ElementOfSeq
  <1>3. Range(v) = {v[i] : i \in 1..Len(v)} /\ Range(w) = {w[i] : i \in 1..Len(w)}
    BY RangeEquality
  <1>4. \A i \in 1..Len(v) : v[i] > 0 BY <1>2, <1>3 DEF Expired
  <1>5. 0 \in Range(w)
    <2>1. Len(w) \in 1..Len(w) BY <1>1 DEF Pushes
    <2> QED BY <1>3, <2>1 DEF Pushes
  <1> DEFINE shift == IF Len(v) < Capacity THEN 0 ELSE 1
  <1>6. Len(w) = Len(v) + 1 - shift /\ shift \in 0..1 BY <1>1 DEF Pushes
  <1>7. \A i \in 1..Len(w) - 1 : i + shift \in 1..Len(v) /\ w[i] = v[i + shift]
    <2> TAKE i \in 1..Len(w) - 1
    <2>1. w[i] = v[IF Len(v) < Capacity THEN i ELSE i + 1] BY DEF Pushes
    <2>2. i + 0 = i BY <1>1
    <2>3. CASE Len(v) < Capacity BY <1>1, <1>6, <2>1, <2>2, <2>3
    <2>4. CASE ~ (Len(v) < Capacity) BY <1>1, <1>6, <2>1, <2>4
    <2> QED BY <2>3, <2>4
  <1> HIDE DEF shift
  <1>8. Decreasing(w)
    <2> SUFFICES ASSUME NEW i \in 1..Len(w), NEW j \in 1..Len(w), i < j
                 PROVE  Younger(w[i], w[j])
      BY <1>1 DEF Decreasing
    <2>1. i \in 1..Len(w) - 1 BY <1>1
    <2>2. CASE j = Len(w)
      <3>1. w[j] = 0 BY <2>2 DEF Pushes
      <3> QED BY <1>4, <1>7, <2>1, <3>1 DEF Younger
    <2>3. CASE j # Len(w)
      <3>1. j \in 1..Len(w) - 1
        <4>1. j \in Nat /\ j >= 1 /\ j <= Len(w) /\ Len(w) \in Nat BY <1>1
        <4> QED BY <2>3, <4>1
      <3>2. i + shift < j + shift BY <1>6
      <3> QED BY <1>1, <1>7, <2>1, <3>1, <3>2 DEF Decreasing
    <2> QED BY <2>2, <2>3
  <1>9. ASSUME NEW i \in 1..Len(v), v[i] < HourTicks PROVE v[i] \in Range(w)
    <2>1. CASE i - shift >= 1
      <3>1. i - shift \in 1..Len(w) - 1 /\ (i - shift) + shift = i
        <4>1. i \in Nat /\ i <= Len(v) /\ Len(w) - 1 = Len(v) - shift BY <1>1, <1>6
        <4> QED BY <1>1, <1>6, <2>1, <4>1
      <3>2. i - shift \in 1..Len(w) BY <1>1, <3>1
      <3> QED BY <1>3, <1>7, <3>1, <3>2
    <2>2. CASE ~ (i - shift >= 1)
      <3>1. i = 1 /\ shift = 1 BY <1>1, <1>6, <2>2
      <3>2. Len(v) = Capacity
        <4>1. ~ (Len(v) < Capacity) BY <3>1 DEF shift
        <4>2. Len(v) \in Nat /\ Len(v) <= Capacity BY <1>1
        <4> QED BY <4>1, <4>2
      <3>3. v[1] # Expired BY <1>2, <1>9, <3>1 DEF Expired
      <3>4. 1 \in 1..Len(v) /\ Len(v) \in 1..Len(v) BY <3>1, <1>1
      <3>5. v[1] >= v[Len(v)] + (Len(v) - 1) BY <3>3, <3>4, Steep
      <3>6. v[1] \in Nat /\ v[Len(v)] \in Nat /\ v[Len(v)] >= 1 BY <1>2, <1>4, <3>4 DEF Expired
      <3>7. v[1] >= Capacity BY <3>2, <3>5, <3>6
      <3> QED BY <1>9, <3>1, <3>6, <3>7
    <2> QED BY <2>1, <2>2
  <1> QED BY <1>3, <1>5, <1>8, <1>9

(* A ring that is filled with ages in the order of time holds the last     *)
(* hour of them.                                                           *)
LEMMA EndKeeps ==
  ASSUME NEW v \in Seq(0..Expired), NEW s \in Seq(0..Expired), EndOf(v, s), Decreasing(s)
  PROVE  /\ Decreasing(v) /\ Range(v) \subseteq Range(s)
         /\ \A a \in Range(s) : a < HourTicks => a \in Range(v)
  <1>1. /\ Len(v) \in Nat /\ DOMAIN v = 1..Len(v) /\ Len(s) \in Nat /\ DOMAIN s = 1..Len(s)
    BY LenProperties
  <1>2. \A i \in 1..Len(s) : s[i] \in 0..Expired BY ElementOfSeq
  <1>3. Range(v) = {v[i] : i \in 1..Len(v)} /\ Range(s) = {s[i] : i \in 1..Len(s)}
    BY RangeEquality
  <1> DEFINE shift == Len(s) - Len(v)
  <1>4. shift \in Nat BY <1>1 DEF EndOf
  <1>5. \A j \in 1..Len(v) : j + shift \in 1..Len(s) /\ v[j] = s[j + shift]
    <2> TAKE j \in 1..Len(v)
    <2>1. j + shift \in 1..Len(s) /\ shift + j = j + shift BY <1>1, <1>4
    <2>2. v[j] = s[shift + j] BY DEF EndOf
    <2> HIDE DEF shift
    <2> QED BY <2>1, <2>2
  <1>6. Range(v) \subseteq Range(s)
    <2> HIDE DEF shift
    <2> QED BY <1>3, <1>5
  <1>7. Decreasing(v)
    <2> SUFFICES ASSUME NEW i \in 1..Len(v), NEW j \in 1..Len(v), i < j
                 PROVE  Younger(v[i], v[j])
      BY <1>1 DEF Decreasing
    <2>1. i + shift < j + shift BY <1>1
    <2> HIDE DEF shift
    <2> QED BY <1>1, <1>5, <2>1 DEF Decreasing
  <1>8. ASSUME NEW i \in 1..Len(s), s[i] < HourTicks PROVE s[i] \in Range(v)
    <2>1. CASE i > shift
      <3>1. i - shift \in 1..Len(v) /\ (i - shift) + shift = i BY <1>1, <2>1
      <3> HIDE DEF shift
      <3> QED BY <1>3, <1>5, <3>1
    <2>2. CASE ~ (i > shift)
      <3>1. Len(v) = Capacity
        <4>1. Len(v) # Len(s)
          <5> SUFFICES ASSUME Len(v) = Len(s) PROVE FALSE OBVIOUS
          <5>1. i \in Nat /\ i >= 1 /\ shift = 0 BY <1>1
          <5> QED BY <2>2, <5>1
        <4> QED BY <4>1 DEF EndOf
      <3>2. s[i] # Expired BY <1>2, <1>8 DEF Expired
      <3>3. Len(s) \in i..Len(s) /\ Len(s) \in 1..Len(s) BY <1>1
      <3>4. s[i] >= s[Len(s)] + (Len(s) - i) BY <3>2, <3>3, Steep
      <3>5. s[i] \in Nat /\ s[Len(s)] \in Nat BY <1>2, <3>3 DEF Expired
      <3>6. Len(s) - i >= Capacity
        <4>1. i \in Nat /\ i <= Len(s) - Len(v) BY <1>1, <1>4, <2>2
        <4> QED BY <1>1, <3>1, <4>1
      <3>7. s[i] >= Capacity
        <4> DEFINE a == s[i]
                   b == s[Len(s)]
                   d == Len(s) - i
        <4>1. a \in Nat /\ b \in Nat /\ a >= b + d /\ d >= Capacity /\ d \in Int
          BY <1>1, <3>4, <3>5, <3>6
        <4> HIDE DEF a, b, d
        <4>2. a >= Capacity BY <4>1
        <4> QED BY <4>2 DEF a
      <3> QED BY <1>8, <3>5, <3>7
    <2> QED BY <1>1, <1>4, <2>1, <2>2
  <1> QED BY <1>3, <1>6, <1>7, <1>8

(***************************************************************************)
(* What every operation keeps of the files                                 *)
(***************************************************************************)

(* No line that can be read is in a file that was opened long before it.   *)
FileAges(fs) ==
  \A f \in Range(fs) : \A l \in Range(f.lines) :
    l.age = Expired \/ f.opened <= l.age + FileTicks

FilesInv(fs) == fs \in Seq(File) /\ FileAges(fs) /\ Ordered(AllLines(fs))

(* gs are as good as fs: a start restores the same from them.              *)
Keeps(gs, fs) ==
  /\ FilesInv(gs)
  /\ Recent(AllLines(gs)) = Recent(AllLines(fs))
  /\ Range(AllLines(gs)) \subseteq Range(AllLines(fs))

LEMMA NewFileIs == NewFile \in File /\ NewFile.lines = <<>> /\ NewFile.opened = 0
  BY EmptySeq DEF NewFile, File, Ancient

LEMMA NewKeeps ==
  ASSUME NEW fs, FilesInv(fs)
  PROVE  Keeps(Append(fs, NewFile), fs)
  <1>1. fs \in Seq(File) BY DEF FilesInv
  <1>2. Append(fs, NewFile) \in Seq(File) /\ Range(Append(fs, NewFile)) = Range(fs) \cup {NewFile}
    BY <1>1, NewFileIs, AppendProperties, RangeAppend
  <1>3. AllLines(Append(fs, NewFile)) = AllLines(fs)
    <2>1. AllLines(Append(fs, NewFile)) = AllLines(fs) \o NewFile.lines
      BY <1>1, NewFileIs, AllLinesAppend
    <2>2. AllLines(fs) \in Seq(Line) BY <1>1, AllLinesType
    <2>3. AllLines(fs) \o <<>> = AllLines(fs) BY <2>2, ConcatEmptySeq
    <2> QED BY <2>1, <2>3, NewFileIs
  <1>4. FileAges(Append(fs, NewFile))
    <2>1. Range(NewFile.lines) = {} BY NewFileIs, RangeEmpty
    <2> QED BY <1>2, <2>1 DEF FilesInv, FileAges
  <1> QED BY <1>2, <1>3, <1>4 DEF Keeps, FilesInv

LEMMA PurgedKeeps ==
  ASSUME NEW fs, FilesInv(fs)
  PROVE  Keeps(Purged(fs), fs)
  <1> DEFINE S == {f \in File : f.opened <= RetainTicks}
  <1>1. fs \in Seq(File) /\ Range(fs) \subseteq File BY RangeOfSeq DEF FilesInv
  <1>2. Purged(fs) = Chosen(fs, S) BY DEF Purged
  <1>3. ASSUME NEW f \in Range(fs), f \notin S PROVE Recent(f.lines) = <<>>
    <2>1. f \in File /\ f.opened > RetainTicks /\ f.lines \in Seq(Line)
      BY <1>1, <1>3 DEF File, Ancient
    <2>2. f.opened \in Nat BY <2>1 DEF File, Ancient
    <2>3. ASSUME NEW l \in Range(f.lines) PROVE ~ (l.age <= HourTicks)
      <3>1. l \in Line BY <2>1, RangeOfSeq
      <3>2. l.age \in Nat BY <3>1 DEF Line, Expired
      <3>3. l.age = Expired \/ f.opened <= l.age + FileTicks BY DEF FilesInv, FileAges
      <3> QED BY <2>1, <2>2, <3>2, <3>3 DEF Expired
    <2>4. Range(Recent(f.lines)) = {} BY <2>1, <2>3, RecentRange
    <2> QED BY <2>1, <2>4, RecentType, EmptyRange
  <1>4. Range(Chosen(fs, S)) = Range(fs) \cap S /\ Chosen(fs, S) \in Seq(File)
    BY <1>1, ChosenRange, ChosenType
  <1> HIDE DEF S
  <1>5. Recent(AllLines(Chosen(fs, S))) = Recent(AllLines(fs)) BY <1>1, <1>3, PurgeKeeps
  <1>6. Ordered(AllLines(Chosen(fs, S))) BY <1>1, PurgeOrdered DEF FilesInv
  <1>7. Range(AllLines(Chosen(fs, S))) \subseteq Range(AllLines(fs))
    BY <1>1, <1>4, AllLinesRange
  <1>8. FileAges(Chosen(fs, S)) BY <1>4 DEF FilesInv, FileAges
  <1> QED BY <1>2, <1>4, <1>5, <1>6, <1>7, <1>8 DEF Keeps, FilesInv

(* bw.roll: it leaves at least the new file.                               *)
LEMMA RolledKeeps ==
  ASSUME NEW fs, FilesInv(fs)
  PROVE  Keeps(Purged(Append(fs, NewFile)), fs)
  <1>1. Keeps(Append(fs, NewFile), fs) BY NewKeeps
  <1>2. Keeps(Purged(Append(fs, NewFile)), Append(fs, NewFile)) BY <1>1, PurgedKeeps DEF Keeps
  <1> QED BY <1>1, <1>2 DEF Keeps

LEMMA RolledIs ==
  ASSUME NEW fs \in Seq(File)
  PROVE  Purged(Append(fs, NewFile)) = Append(Purged(fs), NewFile) /\ Purged(fs) \in Seq(File)
  <1> DEFINE S == {f \in File : f.opened <= RetainTicks}
  <1>1. NewFile \in S BY NewFileIs
  <1>2. Purged(fs) = Chosen(fs, S) /\ Purged(Append(fs, NewFile)) = Chosen(Append(fs, NewFile), S)
    BY DEF Purged
  <1> HIDE DEF S
  <1>3. Chosen(Append(fs, NewFile), S) = Append(Chosen(fs, S), NewFile)
    BY <1>1, NewFileIs, ChosenTakes
  <1> QED BY <1>2, <1>3, ChosenType

LEMMA AppendedIs ==
  ASSUME NEW g \in Seq(File), NEW f \in File, NEW k \in Keys
  PROVE  /\ Appended(Append(g, f), k)
              = Append(g, [f EXCEPT !.lines = Append(@, [key |-> k, age |-> 0])])
         /\ [f EXCEPT !.lines = Append(@, [key |-> k, age |-> 0])] \in File
  <1> DEFINE l  == [key |-> k, age |-> 0]
             h  == [f EXCEPT !.lines = Append(@, l)]
             fs == Append(g, f)
             hs == Appended(fs, k)
  <1>1. l \in Line BY DEF Line, Expired
  <1>2. f.lines \in Seq(Line) /\ f.opened \in 0..Ancient BY DEF File
  <1>3. h \in File
    <2>1. Append(f.lines, l) \in Seq(Line) BY <1>1, <1>2, AppendProperties
    <2> HIDE DEF l
    <2> QED BY <1>2, <2>1 DEF File
  <1>4. /\ fs \in Seq(File) /\ Len(fs) = Len(g) + 1 /\ fs[Len(g) + 1] = f /\ Len(g) \in Nat
        /\ DOMAIN fs = 1..Len(g) + 1
    BY AppendProperties, LenProperties
  <1>5. \A i \in 1..Len(g) : fs[i] = g[i] BY AppendProperties
  <1>6. hs = [fs EXCEPT ![Len(g) + 1] = h] BY <1>4 DEF Appended
  <1> HIDE DEF fs, h, hs
  <1>7. fs \in [1..Len(g) + 1 -> File] BY <1>4, ElementOfSeq
  <1>8. hs \in [1..Len(g) + 1 -> File] BY <1>3, <1>6, <1>7
  <1>9. hs \in Seq(File) /\ Len(hs) = Len(g) + 1 BY <1>4, <1>8, FunctionSeq
  <1>10. /\ Append(g, h) \in Seq(File) /\ Len(Append(g, h)) = Len(g) + 1
         /\ Append(g, h)[Len(g) + 1] = h
    BY <1>3, AppendProperties
  <1>11. \A i \in 1..Len(g) : Append(g, h)[i] = g[i] BY <1>3, AppendProperties
  <1>12. ASSUME NEW i \in 1..Len(g) + 1 PROVE hs[i] = Append(g, h)[i]
    <2>1. CASE i = Len(g) + 1 BY <1>4, <1>6, <1>7, <1>10, <2>1
    <2>2. CASE i # Len(g) + 1
      <3>1. i \in 1..Len(g) BY <1>4, <2>2
      <3>2. hs[i] = fs[i] BY <1>6, <1>7, <2>2
      <3> QED BY <1>5, <1>11, <3>1, <3>2
    <2> QED BY <2>1, <2>2
  <1>13. hs = Append(g, h) BY <1>9, <1>10, <1>12, SeqEqual
  <1> QED BY <1>3, <1>13 DEF fs, h, hs

(* bw.Write, a line into a file that is not old.                           *)
LEMMA AppendedKeeps ==
  ASSUME NEW g \in Seq(File), NEW f \in File, NEW k \in Keys,
         FilesInv(Append(g, f)), f.opened <= FileTicks,
         \A m \in Range(AllLines(Append(g, f))) : m.key = k => m.age # 0
  PROVE  LET hs == Appended(Append(g, f), k)
         IN  /\ FilesInv(hs)
             /\ hs # <<>>
             /\ AllLines(hs) = Append(AllLines(Append(g, f)), [key |-> k, age |-> 0])
  <1> DEFINE l  == [key |-> k, age |-> 0]
             h  == [f EXCEPT !.lines = Append(@, l)]
             fs == Append(g, f)
             hs == Append(g, h)
             ls == f.lines
  <1>1. Appended(fs, k) = hs /\ h \in File BY AppendedIs
  <1>2. l \in Line /\ l.key = k /\ l.age = 0 BY DEF Line, Expired
  <1>3. ls \in Seq(Line) /\ h.lines = Append(ls, l) /\ h.opened = f.opened /\ f.lines = ls
    BY DEF File
  <1> HIDE DEF h, l, ls
  <1>4. AllLines(g) \in Seq(Line) /\ AllLines(fs) \in Seq(Line) /\ fs \in Seq(File)
    BY AllLinesType, AppendProperties
  <1>5. AllLines(hs) = Append(AllLines(fs), l)
    <2>1. AllLines(hs) = AllLines(g) \o Append(ls, l) BY <1>1, <1>3, AllLinesAppend
    <2>2. AllLines(fs) = AllLines(g) \o ls BY <1>3, AllLinesAppend
    <2>3. AllLines(g) \o Append(ls, l) = Append(AllLines(g) \o ls, l)
      <3> DEFINE a == AllLines(g)
      <3>1. a \in Seq(Line) BY <1>4
      <3> HIDE DEF a
      <3>2. a \o Append(ls, l) = Append(a \o ls, l) BY <1>2, <1>3, <3>1, AppendConcat
      <3> QED BY <3>2 DEF a
    <2> QED BY <2>1, <2>2, <2>3
  <1>6. hs \in Seq(File) /\ hs # <<>> /\ Range(hs) = Range(g) \cup {h}
        /\ Range(fs) = Range(g) \cup {f}
    BY <1>1, AppendProperties, RangeAppend
  <1> HIDE DEF fs, hs
  <1>7. Ordered(AllLines(hs))
    <2>1. ASSUME NEW m \in Range(AllLines(fs)) PROVE Later(m, l)
      <3>1. m \in Line BY <1>4, RangeOfSeq
      <3>2. m.age \in Nat BY <3>1 DEF Line, Expired
      <3>3. m.key = k => m.age # 0 BY DEF fs
      <3> QED BY <1>2, <3>2, <3>3 DEF Later
    <2>2. Ordered(AllLines(fs)) BY DEF FilesInv, fs
    <2> QED BY <1>2, <1>4, <1>5, <2>1, <2>2, OrderedAppend
  <1>8. FileAges(hs)
    <2> SUFFICES ASSUME NEW e \in Range(hs), NEW m \in Range(e.lines)
                 PROVE  m.age = Expired \/ e.opened <= m.age + FileTicks
      BY DEF FileAges
    <2>1. FileAges(fs) BY DEF FilesInv, fs
    <2>2. CASE e \in Range(g) BY <1>6, <2>1, <2>2 DEF FileAges
    <2>3. CASE e = h
      <3>1. Range(e.lines) = Range(ls) \cup {l}
        <4>1. Range(Append(ls, l)) = Range(ls) \cup {l} BY <1>2, <1>3, RangeAppend
        <4> QED BY <1>3, <2>3, <4>1
      <3>2. CASE m = l BY <1>2, <1>3, <2>3, <3>2
      <3>3. CASE m \in Range(ls) BY <1>3, <1>6, <2>1, <2>3, <3>3 DEF FileAges
      <3> QED BY <3>1, <3>2, <3>3
    <2> QED BY <1>6, <2>2, <2>3
  <1> QED BY <1>1, <1>5, <1>6, <1>7, <1>8 DEF FilesInv, fs, l

LEMMA AgedKeeps ==
  ASSUME NEW fs, FilesInv(fs)
  PROVE  FilesInv(AgedFiles(fs)) /\ AllLines(AgedFiles(fs)) = AgedLines(AllLines(fs))
  <1>1. fs \in Seq(File) /\ Ordered(AllLines(fs)) /\ AllLines(fs) \in Seq(Line)
    BY AllLinesType DEF FilesInv
  <1>2. AllLines(AgedFiles(fs)) = AgedLines(AllLines(fs)) BY <1>1, AllLinesAged
  <1>3. Ordered(AllLines(AgedFiles(fs))) BY <1>1, <1>2, AgedOrdered
  <1>4. /\ AgedFiles(fs) \in Seq(File) /\ Len(AgedFiles(fs)) = Len(fs)
        /\ \A i \in 1..Len(fs) : AgedFiles(fs)[i] = AgedFile(fs[i])
    BY <1>1, AgedFilesAre
  <1>5. FileAges(AgedFiles(fs))
    <2> SUFFICES ASSUME NEW e \in Range(AgedFiles(fs)), NEW m \in Range(e.lines)
                 PROVE  m.age = Expired \/ e.opened <= m.age + FileTicks
      BY DEF FileAges
    <2>1. Range(AgedFiles(fs)) = {AgedFiles(fs)[i] : i \in 1..Len(fs)}
          /\ Range(fs) = {fs[i] : i \in 1..Len(fs)}
      BY <1>1, <1>4, RangeEquality
    <2>2. PICK f \in Range(fs) : e = AgedFile(f) BY <1>4, <2>1
    <2>3. f \in File BY <1>1, RangeOfSeq
    <2>4. f.lines \in Seq(Line) /\ f.opened \in Nat BY <2>3 DEF File, Ancient
    <2>5. e.lines = AgedLines(f.lines)
          /\ e.opened = IF f.opened < Ancient THEN f.opened + 1 ELSE Ancient
      BY <2>2, <2>3, AgedFileIs
    <2>6. PICK l \in Range(f.lines) : m = AgedLine(l) BY <2>4, <2>5, AgedRange
    <2>7. l \in Line BY <2>4, RangeOfSeq
    <2>8. l.age \in 0..Expired /\ m.age = IF l.age < Expired THEN l.age + 1 ELSE Expired
      <3>1. l.age \in 0..Expired BY <2>7 DEF Line
      <3> QED BY <2>6, <2>7, <3>1, AgedLineIs, OlderIs
    <2>9. l.age = Expired \/ f.opened <= l.age + FileTicks BY DEF FilesInv, FileAges
    <2>10. CASE l.age = Expired BY <2>8, <2>10
    <2>11. CASE l.age # Expired
      <3>1. l.age \in Nat /\ m.age = l.age + 1 BY <2>8, <2>11 DEF Expired
      <3>2. e.opened <= f.opened + 1
        <4>1. f.opened \in 0..Ancient BY <2>3 DEF File
        <4> QED BY <2>4, <2>5, <4>1 DEF Ancient
      <3>3. e.opened \in Nat BY <2>4, <2>5 DEF Ancient
      <3> QED BY <2>4, <2>9, <2>11, <3>1, <3>2, <3>3
    <2> QED BY <2>10, <2>11
  <1> QED BY <1>2, <1>3, <1>4, <1>5 DEF FilesInv

(***************************************************************************)
(* What every operation keeps of a ring                                    *)
(***************************************************************************)

(* r is filled with what gs say of k in the last hour.                     *)
RingFrom(r, k, gs) ==
  /\ r \in Ring /\ Decreasing(Values(r))
  /\ \A a \in Range(Values(r)) : \E l \in Range(AllLines(gs)) : l.key = k /\ l.age = a
  /\ \A l \in Range(Recent(AllLines(gs))) :
       l.key = k /\ l.age < HourTicks => l.age \in Range(Values(r))

LEMMA HistoryFills ==
  ASSUME NEW k, NEW gs, FilesInv(gs)
  PROVE  RingFrom(Filled(History(k, gs)), k, gs)
  <1> DEFINE s == Recent(AllLines(gs))
             h == Ages(LinesOf(k, s))
             r == Filled(h)
             v == Values(r)
  <1>1. AllLines(gs) \in Seq(Line) /\ Ordered(AllLines(gs)) BY AllLinesType DEF FilesInv
  <1>2. s \in Seq(Line) /\ Ordered(s) BY <1>1, RecentType, OrderedChosen DEF Recent
  <1>3. \A l \in Range(s) : l \in Range(AllLines(gs)) BY <1>1, RecentRange
  <1>4. r = Filled(History(k, gs)) BY DEF History
  <1> HIDE DEF s
  <1>5. h \in Seq(0..Expired) BY <1>2, AgesAre
  <1>6. Decreasing(h) BY <1>2, AgesAre
  <1>7. \A a : a \in Range(h) <=> \E l \in Range(s) : l.key = k /\ l.age = a BY <1>2, AgesAre
  <1> HIDE DEF h
  <1>8. r \in Ring /\ EndOf(v, h) BY <1>5, FilledEnd
  <1> HIDE DEF r
  <1>9. v \in Seq(0..Expired) BY <1>8, ValuesAre
  <1> HIDE DEF v
  <1>10. Decreasing(v) /\ Range(v) \subseteq Range(h) BY <1>5, <1>6, <1>8, <1>9, EndKeeps
  <1>11. \A a \in Range(h) : a < HourTicks => a \in Range(v)
    BY <1>5, <1>6, <1>8, <1>9, EndKeeps
  <1>12. \A a \in Range(v) : \E l \in Range(AllLines(gs)) : l.key = k /\ l.age = a
    BY <1>3, <1>7, <1>10
  <1>13. \A l \in Range(s) : l.key = k /\ l.age < HourTicks => l.age \in Range(v)
    BY <1>7, <1>11
  <1> QED BY <1>4, <1>8, <1>10, <1>12, <1>13 DEF RingFrom, s, v

(* r is t with an emission of this minute at its end.                      *)
RingTakes(r, t) ==
  /\ r \in Ring /\ Decreasing(Values(r)) /\ 0 \in Range(Values(r))
  /\ \A a \in Range(Values(t)) : a < HourTicks => a \in Range(Values(r))

LEMMA EnqueueTakes ==
  ASSUME NEW t \in Ring, Decreasing(Values(t)), 0 \notin Range(Values(t))
  PROVE  RingTakes(Enqueue(t, 0), t)
  <1> DEFINE v == Values(t)
             w == Values(Enqueue(t, 0))
  <1>1. 0 \in 0..Expired BY DEF Expired
  <1>2. Enqueue(t, 0) \in Ring /\ Pushes(v, 0, w) BY <1>1, EnqueuePushes
  <1>3. v \in Seq(0..Expired) /\ w \in Seq(0..Expired) BY <1>2, ValuesAre
  <1>4. Len(v) <= Capacity
    <2>1. Len(v) = Size(t.p) /\ t.p \in 0..2 * Capacity - 1 BY ValuesAre DEF Ring
    <2> HIDE DEF v
    <2> QED BY <2>1 DEF Size
  <1> HIDE DEF v, w
  <1>5. Decreasing(v) /\ 0 \notin Range(v) BY DEF v
  <1>6. Decreasing(w) /\ 0 \in Range(w) BY <1>2, <1>3, <1>4, <1>5, PushKeeps
  <1>7. \A a \in Range(v) : a < HourTicks => a \in Range(w)
    BY <1>2, <1>3, <1>4, <1>5, PushKeeps
  <1> QED BY <1>2, <1>6, <1>7 DEF RingTakes, v, w

(* r is t a minute later.                                                  *)
RingAges(r, t) ==
  /\ r \in Ring /\ Decreasing(Values(r)) /\ 0 \notin Range(Values(r))
  /\ \A a \in Range(Values(t)) : Older(a, Expired) \in Range(Values(r))

LEMMA AgedRingAges ==
  ASSUME NEW t \in Ring, Decreasing(Values(t))
  PROVE  RingAges(AgedRing(t), t)
  <1> DEFINE v == Values(t)
             w == Values(AgedRing(t))
             n == Size(t.p)
  <1>1. AgedRing(t) \in Ring BY AgedRingIs
  <1>2. DOMAIN w = DOMAIN v BY AgedRingIs
  <1>3. \A j \in DOMAIN v : w[j] = Older(v[j], Expired) BY AgedRingIs
  <1>4. v \in Seq(0..Expired) /\ w \in Seq(0..Expired) BY <1>1, ValuesAre
  <1> HIDE DEF v, w
  <1>5. DOMAIN v = 1..Len(v) /\ DOMAIN w = 1..Len(w) /\ \A i \in 1..Len(v) : v[i] \in 0..Expired
    BY <1>4, LenProperties, ElementOfSeq
  <1>6. Range(v) = {v[j] : j \in DOMAIN v} /\ Range(w) = {w[j] : j \in DOMAIN w} BY DEF Range
  <1>7. \A j \in DOMAIN v : w[j] \in 1..Expired BY <1>3, <1>5, OlderIs
  <1>8. Decreasing(w)
    <2> SUFFICES ASSUME NEW i \in DOMAIN v, NEW j \in DOMAIN v, i < j
                 PROVE  Younger(w[i], w[j])
      BY <1>2 DEF Decreasing
    <2>1. Younger(v[i], v[j]) BY DEF Decreasing, v
    <2>2. v[i] \in 0..Expired /\ v[j] \in 0..Expired /\ Expired \in Nat BY <1>5 DEF Expired
    <2>3. w[i] = Older(v[i], Expired) /\ w[j] = Older(v[j], Expired) BY <1>3
    <2> QED BY <2>1, <2>2, <2>3, OlderIs DEF Younger
  <1>9. 0 \notin Range(w) BY <1>2, <1>6, <1>7
  <1>10. \A a \in Range(v) : Older(a, Expired) \in Range(w) BY <1>2, <1>3, <1>6
  <1> QED BY <1>1, <1>8, <1>9, <1>10 DEF RingAges, v, w

LEMMA EmptyRingIs ==
  EmptyRing \in Ring /\ Values(EmptyRing) = <<>> /\ Range(Values(EmptyRing)) = {}
  BY RangeEmpty DEF EmptyRing, Ring, Expired, Values

(***************************************************************************)
(* The invariant                                                           *)
(***************************************************************************)

(* What a start restores is what reached a good disk.                      *)
Restores == Recent(AllLines(files)) = durable

(* A key whose emission of this minute is in a file has written it.        *)
Today == \A l \in Range(AllLines(files)) : l.age = 0 => l.key \in emitted /\ l.key \notin writing

Own(k) ==
  /\ Decreasing(Values(rings[k]))
  /\ 0 \in Range(Values(rings[k])) => k \in emitted
  /\ k \in writing => running /\ 0 \in Range(Values(rings[k]))

Owns == \A k \in Keys : Own(k)

Covers ==
  running /\ complete =>
    \A l \in Range(durable) : l.age < HourTicks => l.age \in Range(Values(rings[l.key]))

IInv == TypeOK /\ FilesInv(files) /\ Restores /\ Today /\ Owns /\ Covers

LEMMA InitInv == Init => IInv
  <1> SUFFICES ASSUME Init PROVE IInv OBVIOUS
  <1> USE DEF Init
  <1>1. TypeOK BY EmptySeq, EmptyRingIs DEF TypeOK
  <1>2. AllLines(files) = <<>> /\ Range(files) = {} /\ Range(durable) = {}
    BY AllLinesEmpty, RangeEmpty
  <1>3. Recent(<<>>) = <<>> BY ChosenEmpty DEF Recent
  <1>4. FilesInv(files) BY <1>2, EmptySeq, OrderedEmpty DEF FilesInv, FileAges
  <1>5. Restores BY <1>2, <1>3 DEF Restores
  <1>6. Today BY <1>2, RangeEmpty DEF Today
  <1>7. Owns
    <2> SUFFICES ASSUME NEW k \in Keys PROVE Own(k) BY DEF Owns
    <2>1. rings[k] = EmptyRing OBVIOUS
    <2>2. Decreasing(<<>>) BY DEF Decreasing
    <2> QED BY <2>1, <2>2, EmptyRingIs DEF Own
  <1>8. Covers BY DEF Covers
  <1> QED BY <1>1, <1>4, <1>5, <1>6, <1>7, <1>8 DEF IInv

LEMMA StartInv == IInv /\ Start => IInv'
  <1> SUFFICES ASSUME IInv, Start PROVE IInv' OBVIOUS
  <1> USE DEF IInv
  <1>1. /\ ~ running /\ running' = TRUE /\ torn' = FALSE /\ writing' = writing
        /\ emitted' = emitted /\ durable' = durable
    BY DEF Start
  <1>2. writing = {}
    <2>1. writing \subseteq Keys BY DEF TypeOK
    <2> QED BY <1>1, <2>1 DEF Owns, Own
  <1>3. files \in Seq(File) /\ AllLines(files) \in Seq(Line) BY AllLinesType DEF FilesInv
  <1>4. Keeps(files', files) /\ (open' => files' # <<>>) /\ open' \in BOOLEAN
    <2>1. PICK opens \in BOOLEAN :
            open' = opens /\ files' = Purged(IF opens THEN Append(files, NewFile) ELSE files)
      BY DEF Start
    <2>2. CASE opens
      <3>1. files' = Append(Purged(files), NewFile) /\ Purged(files) \in Seq(File)
        BY <1>3, <2>1, <2>2, RolledIs
      <3>2. files' # <<>> BY <3>1, NewFileIs, AppendProperties
      <3> QED BY <2>1, <2>2, <3>2, RolledKeeps
    <2>3. CASE ~ opens BY <2>1, <2>3, PurgedKeeps
    <2> QED BY <2>2, <2>3
  <1>5. FilesInv(files') /\ Recent(AllLines(files')) = Recent(AllLines(files))
        /\ Range(AllLines(files')) \subseteq Range(AllLines(files))
    BY <1>4 DEF Keeps
  <1>6. files' \in Seq(File) BY <1>5 DEF FilesInv
  <1>7. PICK n \in 0..Len(files') :
          /\ rings' = [k \in Keys |-> Filled(History(k, SubSeq(files', 1, n)))]
          /\ complete' = (n = Len(files'))
    BY DEF Start
  <1> DEFINE gs == SubSeq(files', 1, n)
  <1>8. gs \in Seq(File) /\ Range(AllLines(gs)) \subseteq Range(AllLines(files'))
        /\ Ordered(AllLines(gs))
    <2>1. Ordered(AllLines(files')) BY <1>5 DEF FilesInv
    <2> QED BY <1>6, <2>1, PrefixKeeps
  <1>9. FilesInv(gs)
    <2>1. Range(gs) \subseteq Range(files')
      <3>1. Len(files') \in Nat /\ \A i \in 1..Len(files') : files'[i] \in File
        BY <1>6, LenProperties, ElementOfSeq
      <3>2. Len(gs) = n /\ \A i \in 1..n : gs[i] = files'[i]
        BY <1>6, <3>1, SubSeqProperties
      <3>3. Range(gs) = {gs[i] : i \in 1..n} /\ Range(files') = {files'[i] : i \in 1..Len(files')}
        BY <1>6, <1>8, <3>2, RangeEquality
      <3>4. \A i \in 1..n : i \in 1..Len(files') BY <3>1
      <3> QED BY <3>2, <3>3, <3>4
    <2> HIDE DEF gs
    <2> QED BY <1>5, <1>8, <2>1 DEF FilesInv, FileAges
  <1>10. ASSUME NEW k \in Keys PROVE RingFrom(rings'[k], k, gs)
    <2>1. rings'[k] = Filled(History(k, gs)) BY <1>7
    <2> HIDE DEF gs
    <2> QED BY <1>9, <2>1, HistoryFills
  <1> HIDE DEF gs
  <1>11. TypeOK'
    <2>1. rings' \in [Keys -> Ring] BY <1>7, <1>10 DEF RingFrom, gs
    <2>2. complete' \in BOOLEAN BY <1>7
    <2> QED BY <1>1, <1>4, <1>6, <2>1, <2>2 DEF TypeOK
  <1>12. Restores' BY <1>1, <1>5 DEF Restores
  <1>13. Today' BY <1>1, <1>5 DEF Today
  <1>14. Owns'
    <2> SUFFICES ASSUME NEW k \in Keys PROVE Own(k)' BY DEF Owns
    <2>1. RingFrom(rings'[k], k, gs) BY <1>10
    <2>2. 0 \in Range(Values(rings'[k])) => k \in emitted
      BY <1>5, <1>8, <2>1 DEF RingFrom, Today
    <2> QED BY <1>1, <1>2, <2>1, <2>2 DEF Own, RingFrom
  <1>15. Covers'
    <2> SUFFICES ASSUME complete', NEW l \in Range(durable), l.age < HourTicks
                 PROVE  l.age \in Range(Values(rings'[l.key]))
      BY <1>1 DEF Covers
    <2>1. gs = files' BY <1>6, <1>7, SubSeqFull DEF gs
    <2>2. l \in Range(Recent(AllLines(gs))) BY <1>5, <2>1 DEF Restores
    <2>3. l.key \in Keys
      <3>1. l \in Line BY RangeOfSeq DEF TypeOK
      <3> QED BY <3>1 DEF Line
    <2> QED BY <1>10, <2>2, <2>3 DEF RingFrom
  <1> QED BY <1>5, <1>11, <1>12, <1>13, <1>14, <1>15 DEF IInv

LEMMA WriteRingInv == ASSUME NEW k \in Keys PROVE IInv /\ WriteRing(k) => IInv'
  <1> SUFFICES ASSUME IInv, WriteRing(k) PROVE IInv' OBVIOUS
  <1> USE DEF IInv
  <1>1. /\ running /\ k \notin writing /\ k \notin emitted
        /\ rings' = [rings EXCEPT ![k] = Enqueue(@, 0)]
        /\ writing' = writing \cup {k} /\ emitted' = emitted \cup {k}
        /\ running' = running /\ files' = files /\ open' = open /\ torn' = torn
        /\ durable' = durable /\ complete' = complete
    BY DEF WriteRing
  <1>2. rings \in [Keys -> Ring] BY DEF TypeOK
  <1>3. RingTakes(rings'[k], rings[k])
    <2>1. rings'[k] = Enqueue(rings[k], 0) /\ rings[k] \in Ring BY <1>1, <1>2
    <2>2. Decreasing(Values(rings[k])) /\ 0 \notin Range(Values(rings[k]))
      BY <1>1 DEF Owns, Own
    <2> QED BY <2>1, <2>2, EnqueueTakes
  <1>4. \A i \in Keys : i # k => rings'[i] = rings[i] BY <1>1, <1>2
  <1>5. TypeOK'
    <2>1. rings' \in [Keys -> Ring]
      <3>1. Enqueue(rings[k], 0) \in Ring BY <1>1, <1>2, <1>3 DEF RingTakes
      <3> QED BY <1>1, <1>2, <3>1
    <2> QED BY <1>1, <2>1 DEF TypeOK
  <1>6. FilesInv(files') /\ Restores' BY <1>1 DEF Restores
  <1>7. Today' BY <1>1 DEF Today
  <1>8. Owns'
    <2> SUFFICES ASSUME NEW i \in Keys PROVE Own(i)' BY DEF Owns
    <2>1. CASE i = k BY <1>1, <1>3, <2>1 DEF Own, RingTakes
    <2>2. CASE i # k
      <3>1. Own(i) BY DEF Owns
      <3> QED BY <1>1, <1>4, <2>2, <3>1 DEF Own
    <2> QED BY <2>1, <2>2
  <1>9. Covers'
    <2> SUFFICES ASSUME complete, NEW l \in Range(durable), l.age < HourTicks
                 PROVE  l.age \in Range(Values(rings'[l.key]))
      BY <1>1 DEF Covers
    <2>1. l.age \in Range(Values(rings[l.key])) BY <1>1 DEF Covers
    <2>2. l.key \in Keys
      <3>1. l \in Line BY RangeOfSeq DEF TypeOK
      <3> QED BY <3>1 DEF Line
    <2> QED BY <1>3, <1>4, <2>1, <2>2 DEF RingTakes
  <1> QED BY <1>5, <1>6, <1>7, <1>8, <1>9 DEF IInv

(* What the writer does to the files, and to what is on the disk.          *)
Wrote(k) ==
  \/ files' = files /\ durable' = durable
  \/ Keeps(files', files) /\ durable' = durable
  \/ /\ FilesInv(files')
     /\ Range(AllLines(files')) \subseteq Range(AllLines(files)) \cup {[key |-> k, age |-> 0]}
     /\ Recent(AllLines(files')) = Append(durable, [key |-> k, age |-> 0])
     /\ durable' = Append(durable, [key |-> k, age |-> 0])

LEMMA WroteInv ==
  ASSUME NEW k \in Keys, IInv, k \in writing, Wrote(k), writing' = writing \ {k},
         running' = running, rings' = rings, emitted' = emitted, complete' = complete
  PROVE  FilesInv(files') /\ Restores' /\ Today' /\ Owns' /\ Covers' /\ durable' \in Seq(Line)
  <1> DEFINE x == [key |-> k, age |-> 0]
  <1> USE DEF IInv
  <1>1. x \in Line /\ x.key = k /\ x.age = 0 BY DEF Line, Expired
  <1>2. durable \in Seq(Line) BY DEF TypeOK
  <1>3. FilesInv(files') /\ Restores'
    <2> HIDE DEF x
    <2>1. CASE files' = files /\ durable' = durable BY <2>1 DEF Restores
    <2>2. CASE Keeps(files', files) /\ durable' = durable BY <2>2 DEF Restores, Keeps
    <2>3. CASE FilesInv(files') /\ Recent(AllLines(files')) = durable'
      BY <2>3 DEF Restores
    <2> QED BY <2>1, <2>2, <2>3 DEF Wrote
  <1>4. Range(AllLines(files')) \subseteq Range(AllLines(files)) \cup {x}
    BY DEF Wrote, Keeps
  <1>5. durable' = durable \/ durable' = Append(durable, x) BY DEF Wrote
  <1> HIDE DEF x
  <1>6. durable' \in Seq(Line) /\ Range(durable') \subseteq Range(durable) \cup {x}
    <2>1. Append(durable, x) \in Seq(Line) BY <1>1, <1>2, AppendProperties
    <2>2. Range(Append(durable, x)) = Range(durable) \cup {x} BY <1>1, <1>2, RangeAppend
    <2>3. CASE durable' = durable BY <1>2, <2>3
    <2>4. CASE durable' = Append(durable, x) BY <2>1, <2>2, <2>4
    <2> QED BY <1>5, <2>3, <2>4
  <1>7. k \in emitted /\ running /\ 0 \in Range(Values(rings[k])) BY DEF Owns, Own
  <1>8. Today' BY <1>1, <1>4, <1>7 DEF Today
  <1>9. Owns'
    <2> SUFFICES ASSUME NEW i \in Keys PROVE Own(i)' BY DEF Owns
    <2>1. Own(i) BY DEF Owns
    <2> QED BY <2>1 DEF Own
  <1>10. Covers' BY <1>1, <1>6, <1>7 DEF Covers
  <1> QED BY <1>3, <1>6, <1>8, <1>9, <1>10

LEMMA WriteFileInv == ASSUME NEW k \in Keys PROVE IInv /\ WriteFile(k) => IInv'
  <1> DEFINE x     == [key |-> k, age |-> 0]
             fs    == IF Rolls THEN Purged(Append(files, NewFile)) ELSE files
             joins == torn /\ ~ Rolls
  <1> SUFFICES ASSUME IInv, WriteFile(k) PROVE IInv' OBVIOUS
  <1> USE DEF IInv
  <1>1. /\ k \in writing /\ writing' = writing \ {k} /\ torn' = FALSE
        /\ running' = running /\ rings' = rings /\ emitted' = emitted /\ complete' = complete
        /\ open' = (open \/ Rolls)
    BY DEF WriteFile
  <1>2. /\ files' = IF joins THEN fs ELSE Appended(fs, k)
        /\ durable' = IF joins THEN durable ELSE Append(durable, x)
    BY DEF WriteFile
  <1>3. x \in Line /\ x.key = k /\ x.age = 0 /\ x.age <= HourTicks BY DEF Line, Expired
  <1>4. files \in Seq(File) BY DEF FilesInv
  <1>5. PICK g \in Seq(File), f \in File : fs = Append(g, f) /\ f.opened <= FileTicks
    <2>1. CASE Rolls
      <3>1. fs = Append(Purged(files), NewFile) /\ Purged(files) \in Seq(File)
        BY <1>4, <2>1, RolledIs
      <3>2. NewFile.opened <= FileTicks BY NewFileIs
      <3> QED BY <3>1, <3>2, NewFileIs
    <2>2. CASE ~ Rolls
      <3>1. open /\ ~ (Last(files).opened > FileTicks) BY <2>2 DEF Rolls
      <3>2. files # <<>> BY <3>1 DEF TypeOK
      <3>3. PICK g \in Seq(File), f \in File : files = Append(g, f)
        BY <1>4, <3>2, SequenceEmptyOrAppend
      <3>4. Last(files) = f
        <4>1. Len(files) = Len(g) + 1 /\ files[Len(g) + 1] = f BY <3>3, AppendProperties
        <4> QED BY <4>1 DEF Last
      <3>5. f.opened <= FileTicks
        <4>1. f.opened \in Nat BY DEF File, Ancient
        <4> QED BY <3>1, <3>4, <4>1
      <3> QED BY <2>2, <3>3, <3>5
    <2> QED BY <2>1, <2>2
  <1>6. Keeps(fs, files) BY RolledKeeps DEF Keeps
  <1> HIDE DEF x, fs
  <1>7. FilesInv(fs) /\ Recent(AllLines(fs)) = durable
        /\ Range(AllLines(fs)) \subseteq Range(AllLines(files))
    BY <1>6 DEF Keeps, Restores
  <1>8. /\ FilesInv(Appended(fs, k)) /\ Appended(fs, k) # <<>>
        /\ AllLines(Appended(fs, k)) = Append(AllLines(fs), x)
    <2>1. \A m \in Range(AllLines(fs)) : m.key = k => m.age # 0 BY <1>1, <1>7 DEF Today
    <2> QED BY <1>5, <1>7, <2>1, AppendedKeeps DEF x
  <1>9. AllLines(fs) \in Seq(Line)
    <2>1. fs \in Seq(File) BY <1>7 DEF FilesInv
    <2> QED BY <2>1, AllLinesType
  <1>10. Wrote(k)
    <2>1. CASE joins BY <1>2, <2>1 DEF Wrote, fs
    <2>2. CASE ~ joins
      <3>1. files' = Appended(fs, k) /\ durable' = Append(durable, x) BY <1>2, <2>2
      <3>2. Recent(Append(AllLines(fs), x)) = Append(durable, x)
        <4> DEFINE H == {l \in Line : l.age <= HourTicks}
                   ls == AllLines(fs)
        <4>1. x \in H /\ x \in Line BY <1>3
        <4>2. ls \in Seq(Line) /\ Chosen(ls, H) = durable BY <1>7, <1>9 DEF Recent
        <4> HIDE DEF H, ls
        <4>3. Chosen(Append(ls, x), H) = Append(Chosen(ls, H), x) BY <4>1, <4>2, ChosenTakes
        <4> QED BY <4>2, <4>3 DEF Recent, H, ls
      <3>3. Range(Append(AllLines(fs), x)) = Range(AllLines(fs)) \cup {x}
        BY <1>3, <1>9, RangeAppend
      <3> QED BY <1>7, <1>8, <3>1, <3>2, <3>3 DEF Wrote, x
    <2> QED BY <2>1, <2>2
  <1>11. FilesInv(files') /\ Restores' /\ Today' /\ Owns' /\ Covers' /\ durable' \in Seq(Line)
    BY <1>1, <1>10, WroteInv
  <1>12. TypeOK'
    <2>1. files' # <<>>
      <3>1. CASE joins
        <4>1. files' = fs BY <1>2, <3>1
        <4> QED BY <1>5, <4>1, AppendProperties
      <3>2. CASE ~ joins BY <1>2, <1>8, <3>2
      <3> QED BY <3>1, <3>2
    <2>2. files' \in Seq(File) BY <1>11 DEF FilesInv
    <2>3. open' \in BOOLEAN BY <1>1 DEF TypeOK
    <2>4. writing' \subseteq emitted' /\ emitted' \subseteq Keys BY <1>1 DEF TypeOK
    <2> QED BY <1>1, <1>11, <2>1, <2>2, <2>3, <2>4 DEF TypeOK
  <1> QED BY <1>11, <1>12 DEF IInv

LEMMA WriteFileFailsInv == ASSUME NEW k \in Keys PROVE IInv /\ WriteFileFails(k) => IInv'
  <1> SUFFICES ASSUME IInv, WriteFileFails(k) PROVE IInv' OBVIOUS
  <1> USE DEF IInv
  <1>1. /\ k \in writing /\ writing' = writing \ {k}
        /\ running' = running /\ rings' = rings /\ emitted' = emitted /\ complete' = complete
        /\ durable' = durable
    BY DEF WriteFileFails
  <1>2. files \in Seq(File) BY DEF FilesInv
  <1>3. /\ Wrote(k) /\ (open' => files' # <<>>) /\ (torn' => open')
        /\ open' \in BOOLEAN /\ torn' \in BOOLEAN
    <2>1. CASE open' = FALSE /\ torn' = FALSE /\ UNCHANGED files BY <1>1, <2>1 DEF Wrote
    <2>2. CASE /\ open' = TRUE /\ torn' \in BOOLEAN
               /\ files' = Purged(Append(files, NewFile))
      <3>1. files' = Append(Purged(files), NewFile) /\ Purged(files) \in Seq(File)
        BY <1>2, <2>2, RolledIs
      <3>2. files' # <<>> BY <3>1, NewFileIs, AppendProperties
      <3>3. Keeps(files', files) BY <2>2, RolledKeeps
      <3> QED BY <1>1, <2>2, <3>2, <3>3 DEF Wrote
    <2>3. CASE ~ Rolls /\ torn' \in {torn, TRUE} /\ UNCHANGED <<open, files>>
      <3>1. open = TRUE BY <2>3 DEF Rolls, TypeOK
      <3> QED BY <1>1, <2>3, <3>1 DEF Wrote, TypeOK
    <2> QED BY <2>1, <2>2, <2>3 DEF WriteFileFails
  <1>4. FilesInv(files') /\ Restores' /\ Today' /\ Owns' /\ Covers' /\ durable' \in Seq(Line)
    BY <1>1, <1>3, WroteInv
  <1>5. TypeOK'
    <2>1. files' \in Seq(File) BY <1>4 DEF FilesInv
    <2>2. writing' \subseteq emitted' /\ emitted' \subseteq Keys BY <1>1 DEF TypeOK
    <2> QED BY <1>1, <1>3, <1>4, <2>1, <2>2 DEF TypeOK
  <1> QED BY <1>4, <1>5 DEF IInv

LEMMA CrashInv == IInv /\ Crash => IInv'
  <1> SUFFICES ASSUME IInv, Crash PROVE IInv' OBVIOUS
  <1> USE DEF IInv
  <1>1. /\ running' = FALSE /\ rings' = [k \in Keys |-> EmptyRing] /\ writing' = {}
        /\ open' = FALSE /\ torn' = FALSE /\ files' = files /\ emitted' = emitted
        /\ durable' = durable /\ complete' = complete
    BY DEF Crash
  <1>2. TypeOK' BY <1>1, EmptyRingIs DEF TypeOK
  <1>3. Restores' BY <1>1 DEF Restores
  <1>4. Today' BY <1>1 DEF Today
  <1>5. Owns'
    <2> SUFFICES ASSUME NEW k \in Keys PROVE Own(k)' BY DEF Owns
    <2>1. rings'[k] = EmptyRing BY <1>1
    <2>2. Decreasing(<<>>) BY DEF Decreasing
    <2> QED BY <1>1, <2>1, <2>2, EmptyRingIs DEF Own
  <1>6. Covers' BY <1>1 DEF Covers
  <1> QED BY <1>1, <1>2, <1>3, <1>4, <1>5, <1>6 DEF IInv

LEMMA TickInv == IInv /\ Tick => IInv'
  <1> SUFFICES ASSUME IInv, Tick PROVE IInv' OBVIOUS
  <1> USE DEF IInv
  <1>1. /\ writing = {} /\ rings' = [k \in Keys |-> AgedRing(rings[k])]
        /\ files' = AgedFiles(files) /\ durable' = Recent(AgedLines(durable)) /\ emitted' = {}
        /\ running' = running /\ writing' = writing /\ open' = open /\ torn' = torn
        /\ complete' = complete
    BY DEF Tick
  <1>2. files \in Seq(File) /\ AllLines(files) \in Seq(Line) BY AllLinesType DEF FilesInv
  <1>3. durable \in Seq(Line) /\ rings \in [Keys -> Ring] BY DEF TypeOK
  <1>4. FilesInv(files') /\ AllLines(files') = AgedLines(AllLines(files)) BY <1>1, AgedKeeps
  <1>5. Restores'
    <2>1. Recent(AgedLines(AllLines(files))) = Recent(AgedLines(Recent(AllLines(files))))
      BY <1>2, RecentAged
    <2> QED BY <1>1, <1>4, <2>1 DEF Restores
  <1>6. Today'
    <2> SUFFICES ASSUME NEW l \in Range(AllLines(files')), l.age = 0 PROVE FALSE
      BY DEF Today
    <2>1. PICK m \in Range(AllLines(files)) : l = AgedLine(m) BY <1>2, <1>4, AgedRange
    <2>2. m \in Line BY <1>2, RangeOfSeq
    <2>3. m.age \in 0..Expired BY <2>2 DEF Line
    <2>4. l.age \in 1..Expired BY <2>1, <2>2, <2>3, AgedLineIs, OlderIs
    <2> QED BY <2>4 DEF Expired
  <1>7. ASSUME NEW k \in Keys PROVE RingAges(rings'[k], rings[k])
    <2>1. rings'[k] = AgedRing(rings[k]) /\ rings[k] \in Ring BY <1>1, <1>3
    <2>2. Decreasing(Values(rings[k])) BY DEF Owns, Own
    <2> QED BY <2>1, <2>2, AgedRingAges
  <1>8. TypeOK'
    <2>1. rings' \in [Keys -> Ring] BY <1>1, <1>7 DEF RingAges
    <2>2. durable' \in Seq(Line) BY <1>1, <1>3, AgedLinesAre, RecentType
    <2>3. files' \in Seq(File) BY <1>4 DEF FilesInv
    <2>4. files # <<>> => files' # <<>>
      <3>1. Len(files') = Len(files) BY <1>1, <1>2, AgedFilesAre
      <3> QED BY <1>2, <2>3, <3>1, EmptySeq
    <2> QED BY <1>1, <2>1, <2>2, <2>3, <2>4 DEF TypeOK
  <1>9. Owns' BY <1>1, <1>7 DEF Owns, Own, RingAges
  <1>10. Covers'
    <2> SUFFICES ASSUME running, complete, NEW l \in Range(durable'), l.age < HourTicks
                 PROVE  l.age \in Range(Values(rings'[l.key]))
      BY <1>1 DEF Covers
    <2>1. AgedLines(durable) \in Seq(Line) BY <1>3, AgedLinesAre
    <2>2. l \in Range(AgedLines(durable)) BY <1>1, <2>1, RecentRange
    <2>3. PICK m \in Range(durable) : l = AgedLine(m) BY <1>3, <2>2, AgedRange
    <2>4. m \in Line BY <1>3, RangeOfSeq
    <2>5. m.age \in 0..Expired /\ m.key \in Keys BY <2>4 DEF Line
    <2>6. l.age = Older(m.age, Expired) /\ l.key = m.key BY <2>3, <2>4, AgedLineIs
    <2>7. m.age < HourTicks
      <3>1. l.age = IF m.age < Expired THEN m.age + 1 ELSE Expired BY <2>5, <2>6, OlderIs
      <3> QED BY <2>5, <3>1 DEF Expired
    <2>8. m.age \in Range(Values(rings[m.key])) BY <2>7 DEF Covers
    <2> QED BY <1>7, <2>5, <2>6, <2>8 DEF RingAges
  <1> QED BY <1>4, <1>5, <1>6, <1>8, <1>9, <1>10 DEF IInv

(* Every reachable state satisfies the invariant: each operation above     *)
(* keeps what a start restores, what the rings hold and the order of both. *)
THEOREM Invariance == Spec => []IInv
  <1>1. IInv /\ [Next]_vars => IInv'
    <2> SUFFICES ASSUME IInv, [Next]_vars PROVE IInv' OBVIOUS
    <2>1. CASE Start BY <2>1, StartInv
    <2>2. CASE Crash BY <2>2, CrashInv
    <2>3. CASE Tick BY <2>3, TickInv
    <2>4. ASSUME NEW k \in Keys, WriteRing(k) PROVE IInv' BY <2>4, WriteRingInv
    <2>5. ASSUME NEW k \in Keys, WriteFile(k) PROVE IInv' BY <2>5, WriteFileInv
    <2>6. ASSUME NEW k \in Keys, WriteFileFails(k) PROVE IInv' BY <2>6, WriteFileFailsInv
    <2>7. CASE UNCHANGED vars
      BY <2>7 DEF vars, IInv, TypeOK, Restores, Today, Owns, Own, Covers
    <2> QED BY <2>1, <2>2, <2>3, <2>4, <2>5, <2>6, <2>7 DEF Next
  <1> QED BY <1>1, InitInv, PTL DEF Spec

(* TypeOK: also after any sequence of starts, failed writes and crashes    *)
(* the rings keep their capacity, and an open file is one of the files.    *)
THEOREM TypeCorrect == Spec => []TypeOK
  <1>1. IInv => TypeOK BY DEF IInv
  <1> QED BY <1>1, Invariance, PTL

(* HourRestored: a start that can read the files (ReadHistory) restores    *)
(* exactly the emissions of the last hour that reached a good disk.        *)
THEOREM HourCorrect == Spec => []HourRestored
  <1>1. IInv => HourRestored BY DEF IInv, Restores, HourRestored, History
  <1> QED BY <1>1, Invariance, PTL

(* InOrder: a ring (waitring.values) is read in the order of time, with no *)
(* minute twice, also across restarts.                                     *)
THEOREM OrderCorrect == Spec => []InOrder
  <1>1. IInv => InOrder BY DEF IInv, Owns, Own, Decreasing, Younger, InOrder
  <1> QED BY <1>1, Invariance, PTL

(* RingCoversHour: once a start has read all files, a ring lacks no minute *)
(* of the last hour that is on the disk, however it fills and wraps.       *)
THEOREM CoverCorrect == Spec => []RingCoversHour
  <1>1. IInv => RingCoversHour
    <2> SUFFICES ASSUME IInv, running, complete, NEW i \in DOMAIN durable,
                        durable[i].age < HourTicks
                 PROVE  durable[i].age \in Range(Values(rings[durable[i].key]))
      BY DEF RingCoversHour
    <2>1. durable[i] \in Range(durable) BY DEF Range
    <2> QED BY <2>1 DEF IInv, Covers
  <1> QED BY <1>1, Invariance, PTL
=============================================================================
