------------------------------ MODULE Induction ------------------------------
(***************************************************************************)
(* Induction over the natural numbers, stated for sets, and what it gives  *)
(* for the library operators that are defined by recursion.  The induction *)
(* theorems of the library take the property as an operator, which the     *)
(* provers cannot instantiate; here it is the set of the numbers that have *)
(* it, so that a comprehension states it.                                  *)
(***************************************************************************)
EXTENDS Integers, SequencesExt, SequenceTheorems, WellFoundedInduction, TLAPS

LessThan == {ss \in Nat \X Nat : ss[1] < ss[2]}

(* The order of the natural numbers as a set of pairs is well-founded.     *)
LEMMA LessThanWellFounded == IsWellFoundedOn(LessThan, Nat)
  <1>1. LessThan = OpToRel(<, Nat)
    BY DEF LessThan, OpToRel
  <1> QED
    BY <1>1, NatLessThanWellFounded

(* A set of natural numbers that is not empty has a least element.         *)
LEMMA Smallest ==
  ASSUME NEW T, T \subseteq Nat, T # {}
  PROVE  \E x \in T : \A y \in T : x <= y
  <1>1. PICK x \in T : \A y \in T : ~ (<<y, x>> \in LessThan)
    BY LessThanWellFounded, WFMin
  <1>2. ASSUME NEW y \in T, y < x
        PROVE  <<y, x>> \in LessThan
    <2>1. <<y, x>> \in Nat \X Nat /\ <<y, x>>[1] = y /\ <<y, x>>[2] = x
      OBVIOUS
    <2> QED
      BY <1>2, <2>1 DEF LessThan
  <1>3. \A y \in T : x \in Nat /\ y \in Nat /\ ~(y < x)
    BY <1>1, <1>2
  <1> QED
    BY <1>3

(* Min of it is one.                                                       *)
LEMMA MinIsLeast ==
  ASSUME NEW T, T \subseteq Nat, T # {}
  PROVE  Min(T) \in T /\ \A y \in T : Min(T) <= y
  BY Smallest DEF Min

(* Max of two numbers.                                                     *)
LEMMA MaxOfTwo ==
  ASSUME NEW m \in Int, NEW n \in Int
  PROVE  Max({m, n}) = IF m >= n THEN m ELSE n
  <1>1. \E x \in {m, n} : \A y \in {m, n} : x >= y
    OBVIOUS
  <1>2. Max({m, n}) \in {m, n} /\ \A y \in {m, n} : Max({m, n}) >= y
    BY <1>1 DEF Max
  <1> QED
    BY <1>2

(* Min of two numbers.                                                     *)
LEMMA MinOfTwo ==
  ASSUME NEW m \in Int, NEW n \in Int
  PROVE  Min({m, n}) = IF m <= n THEN m ELSE n
  <1>1. \E x \in {m, n} : \A y \in {m, n} : x <= y
    OBVIOUS
  <1>2. Min({m, n}) \in {m, n} /\ \A y \in {m, n} : Min({m, n}) <= y
    BY <1>1 DEF Min
  <1> QED
    BY <1>2

(* Induction: a set with 0, and with every successor of its elements, has  *)
(* all natural numbers.                                                    *)
LEMMA SetInduction ==
  ASSUME NEW T, 0 \in T, \A n \in Nat : n \in T => n + 1 \in T
  PROVE  \A n \in Nat : n \in T
  <1> DEFINE F == {n \in Nat : n \notin T}
  <1> SUFFICES ASSUME F # {} PROVE FALSE
    OBVIOUS
  <1>1. PICK x \in F : \A y \in F : x <= y
    BY Smallest
  <1>2. x \in Nat /\ x # 0 /\ x - 1 \in Nat /\ x - 1 \notin F
    BY <1>1
  <1> QED
    BY <1>2

-----------------------------------------------------------------------------
(* FlattenSeq.                                                             *)

(* The function that FlattenSeq computes with, on the first n sequences.   *)
Flattened(ss, n, f) ==
    f = [i \in 1..n |-> IF i = 1 THEN ss[i] ELSE f[i - 1] \o ss[i]]

(* It exists.                                                              *)
LEMMA FlattenedExists ==
  ASSUME NEW S, NEW ss \in Seq(Seq(S)), NEW n \in 0..Len(ss)
  PROVE  \E f \in [1..n -> Seq(S)] : Flattened(ss, n, f)
  <1> DEFINE T == {m \in Nat : m <= Len(ss) =>
                      \E f \in [1..m -> Seq(S)] : Flattened(ss, m, f)}
  <1>1. 0 \in T
    <2>1. <<>> \in [1..0 -> Seq(S)]
      OBVIOUS
    <2>2. <<>> = [i \in 1..0 |-> IF i = 1 THEN ss[i] ELSE <<>>[i - 1] \o ss[i]]
      OBVIOUS
    <2> QED
      BY <2>1, <2>2 DEF Flattened
  <1>2. ASSUME NEW m \in Nat, m \in T
        PROVE  m + 1 \in T
    <2> SUFFICES ASSUME m + 1 <= Len(ss)
                 PROVE  \E g \in [1..(m + 1) -> Seq(S)] : Flattened(ss, m + 1, g)
      OBVIOUS
    <2>0. Len(ss) \in Nat /\ m <= Len(ss)
      OBVIOUS
    <2>1. PICK f \in [1..m -> Seq(S)] : Flattened(ss, m, f)
      BY <1>2, <2>0
    <2>2. \A i \in 1..(m + 1) : ss[i] \in Seq(S)
      BY <2>0
    <2> DEFINE g == [i \in 1..(m + 1) |-> IF i = 1 THEN ss[i] ELSE f[i - 1] \o ss[i]]
    <2>3. \A i \in 1..(m + 1) : i # 1 => i - 1 \in 1..m /\ f[i - 1] \in Seq(S)
      BY <2>1
    <2>4. \A i \in 1..m : g[i] = f[i]
      <3> SUFFICES ASSUME NEW i \in 1..m
                   PROVE  g[i] = f[i]
        OBVIOUS
      <3>1. f[i] = IF i = 1 THEN ss[i] ELSE f[i - 1] \o ss[i]
        BY <2>1, Zenon DEF Flattened
      <3>2. i \in 1..(m + 1)
        OBVIOUS
      <3> QED
        BY <3>1, <3>2
    <2>5. \A i \in 1..(m + 1) : g[i] = IF i = 1 THEN ss[i] ELSE g[i - 1] \o ss[i]
      <3> SUFFICES ASSUME NEW i \in 1..(m + 1)
                   PROVE  g[i] = IF i = 1 THEN ss[i] ELSE g[i - 1] \o ss[i]
        OBVIOUS
      <3>1. g[i] = IF i = 1 THEN ss[i] ELSE f[i - 1] \o ss[i]
        OBVIOUS
      <3>2. i # 1 => f[i - 1] = g[i - 1]
        BY <2>3, <2>4
      <3> QED
        BY <3>1, <3>2
    <2>6. g \in [1..(m + 1) -> Seq(S)]
      <3>1. \A i \in 1..(m + 1) : (IF i = 1 THEN ss[i] ELSE f[i - 1] \o ss[i]) \in Seq(S)
        BY <2>2, <2>3, ConcatProperties
      <3> QED
        BY <3>1
    <2>7. Flattened(ss, m + 1, g)
      <3> DEFINE h == [i \in 1..(m + 1) |-> IF i = 1 THEN ss[i] ELSE g[i - 1] \o ss[i]]
      <3>1. DOMAIN h = 1..(m + 1) /\ DOMAIN g = 1..(m + 1)
        OBVIOUS
      <3>2. \A i \in 1..(m + 1) : g[i] = h[i]
        BY <2>5
      <3>3. g = h
        BY <3>1, <3>2
      <3> QED
        BY <3>3 DEF Flattened
    <2> QED
      BY <2>6, <2>7
  <1>3. \A m \in Nat : m \in T
    <2> HIDE DEF T
    <2> QED
      BY <1>1, <1>2, SetInduction
  <1> QED
    BY <1>3

Agree(s, t, m) == \A i \in 1..m : t[i] = s[i]

(* It is unique, on the sequences that two sequences of them share.        *)
LEMMA FlattenedUnique ==
  ASSUME NEW ss, NEW tt, NEW m \in Nat, NEW n \in Nat, m <= n,
         Agree(ss, tt, m),
         NEW f, Flattened(ss, n, f), NEW g, Flattened(tt, m, g)
  PROVE  Agree(f, g, m)
  <1> DEFINE T == {i \in Nat : i \in 1..m => g[i] = f[i]}
  <1>1. 0 \in T
    OBVIOUS
  <1>2. ASSUME NEW i \in Nat, i \in T
        PROVE  i + 1 \in T
    <2> SUFFICES ASSUME i + 1 \in 1..m
                 PROVE  g[i + 1] = f[i + 1]
      OBVIOUS
    <2>1. i + 1 \in 1..n /\ (i + 1) - 1 = i /\ (i + 1 # 1 => i \in 1..m)
      OBVIOUS
    <2>2. g[i + 1] = IF i + 1 = 1 THEN tt[i + 1] ELSE g[(i + 1) - 1] \o tt[i + 1]
      BY Zenon DEF Flattened
    <2>3. f[i + 1] = IF i + 1 = 1 THEN ss[i + 1] ELSE f[(i + 1) - 1] \o ss[i + 1]
      BY <2>1, Zenon DEF Flattened
    <2>4. i + 1 # 1 => g[i] = f[i]
      BY <1>2, <2>1
    <2>5. tt[i + 1] = ss[i + 1]
      BY DEF Agree
    <2> QED
      BY <2>1, <2>2, <2>3, <2>4, <2>5
  <1>3. \A i \in Nat : i \in T
    <2> HIDE DEF T
    <2> QED
      BY <1>1, <1>2, SetInduction
  <1> QED
    BY <1>3 DEF Agree

(* FlattenSeq is its last value.                                           *)
LEMMA FlattenIs ==
  ASSUME NEW S, NEW ss \in Seq(Seq(S)), Len(ss) # 0,
         NEW f, Flattened(ss, Len(ss), f)
  PROVE  FlattenSeq(ss) = f[Len(ss)]
  <1> DEFINE g == CHOOSE g : g = [i \in 1..Len(ss) |-> IF i = 1 THEN ss[i] ELSE g[i - 1] \o ss[i]]
  <1>1. g = [i \in 1..Len(ss) |-> IF i = 1 THEN ss[i] ELSE g[i - 1] \o ss[i]]
    BY DEF Flattened
  <1>2. FlattenSeq(ss) = g[Len(ss)]
    BY DEF FlattenSeq
  <1>3. Flattened(ss, Len(ss), g)
    BY <1>1 DEF Flattened
  <1>4. Len(ss) \in Nat /\ Len(ss) \in 1..Len(ss)
    OBVIOUS
  <1>5. Agree(f, g, Len(ss))
    <2> HIDE DEF g
    <2>1. Agree(ss, ss, Len(ss))
      BY DEF Agree
    <2> QED
      BY <1>3, <1>4, <2>1, FlattenedUnique
  <1> QED
    BY <1>2, <1>4, <1>5 DEF Agree

(* So it gives FlattenSeq of the sequences that ss begins with.            *)
LEMMA FlattenedPart ==
  ASSUME NEW S, NEW tt \in Seq(Seq(S)), Len(tt) # 0, NEW ss, NEW n \in Nat, Len(tt) <= n,
         Agree(ss, tt, Len(tt)),
         NEW f, Flattened(ss, n, f)
  PROVE  FlattenSeq(tt) = f[Len(tt)]
  <1>1. Len(tt) \in Nat /\ Len(tt) \in 0..Len(tt) /\ Len(tt) \in 1..Len(tt)
    OBVIOUS
  <1>2. PICK g : Flattened(tt, Len(tt), g)
    BY <1>1, FlattenedExists
  <1>3. FlattenSeq(tt) = g[Len(tt)]
    BY <1>2, FlattenIs
  <1>4. Agree(f, g, Len(tt))
    BY <1>1, <1>2, FlattenedUnique
  <1> QED
    BY <1>1, <1>3, <1>4 DEF Agree

(* FlattenSeq of the first i of them.                                      *)
Joined(ss, i) == FlattenSeq(SubSeq(ss, 1, i))

(* FlattenSeq puts sequences one behind the other: what it gives for the   *)
(* first i of them is what it gives for the first i - 1, and the i-th.     *)
LEMMA FlattenStep ==
  ASSUME NEW S, NEW ss \in Seq(Seq(S))
  PROVE  /\ Joined(ss, 0) = <<>>
         /\ \A i \in 1..Len(ss) :
               Joined(ss, i) = Joined(ss, i - 1) \o ss[i]
         /\ \A i \in 0..Len(ss) : Joined(ss, i) \in Seq(S)
  <1>0. Len(ss) \in Nat /\ Len(ss) \in 0..Len(ss)
    OBVIOUS
  <1>1. PICK f \in [1..Len(ss) -> Seq(S)] : Flattened(ss, Len(ss), f)
    BY <1>0, FlattenedExists
  <1>2. Joined(ss, 0) = <<>>
    <2>1. SubSeq(ss, 1, 0) = <<>>
      BY SubSeqEmpty
    <2> QED
      BY <2>1 DEF FlattenSeq, Joined
  <1>3. ASSUME NEW i \in 1..Len(ss)
        PROVE  Joined(ss, i) = f[i]
    <2> DEFINE tt == SubSeq(ss, 1, i)
    <2>1. /\ tt \in Seq(Seq(S)) /\ Len(tt) = i /\ i \in Nat /\ i <= Len(ss)
          /\ i \in 0..Len(tt) /\ i # 0 /\ i \in 1..i
      <3>1. \A k \in 1..i : ss[k] \in Seq(S)
        BY <1>0
      <3> QED
        BY <3>1, SubSeqProperties
    <2>2. Agree(ss, tt, i)
      <3>1. \A k \in 1..i : ss[k] \in Seq(S)
        BY <1>0
      <3> QED
        BY <3>1, SubSeqProperties DEF Agree
    <2>3. FlattenSeq(tt) = f[i]
      <3> HIDE DEF tt
      <3> QED
        BY <1>0, <1>1, <2>1, <2>2, FlattenedPart
    <2> QED
      BY <2>3 DEF tt, Joined
  <1>4. \A i \in 0..Len(ss) : Joined(ss, i) \in Seq(S)
    <2>1. \A i \in 0..Len(ss) : i = 0 \/ i \in 1..Len(ss)
      BY <1>0
    <2>2. <<>> \in Seq(S)
      OBVIOUS
    <2> QED
      BY <1>1, <1>2, <1>3, <2>1, <2>2
  <1>5. ASSUME NEW i \in 1..Len(ss)
        PROVE  Joined(ss, i) = Joined(ss, i - 1) \o ss[i]
    <2>1. f[i] = IF i = 1 THEN ss[i] ELSE f[i - 1] \o ss[i]
      BY <1>1, Zenon DEF Flattened
    <2>2. ss[i] \in Seq(S)
      BY <1>0
    <2>3. CASE i = 1
      <3>1. <<>> \o ss[i] = ss[i]
        BY <2>2, ConcatEmptySeq
      <3>2. i - 1 = 0
        BY <2>3
      <3> QED
        BY <1>2, <1>3, <2>1, <2>3, <3>1, <3>2
    <2>4. CASE i # 1
      <3>1. i - 1 \in 1..Len(ss)
        BY <2>4, <1>0
      <3> QED
        BY <1>3, <2>1, <2>4, <3>1
    <2> QED
      BY <2>3, <2>4
  <1> QED
    BY <1>2, <1>4, <1>5

(* What it gives for the first of them is the beginning of what it gives   *)
(* for more, and for all.                                                  *)
LEMMA JoinedSplit ==
  ASSUME NEW S, NEW ss \in Seq(Seq(S)), NEW i \in 0..Len(ss)
  PROVE  \A j \in i..Len(ss) : \E t \in Seq(S) : Joined(ss, j) = Joined(ss, i) \o t
  <1> DEFINE Split(j) == \E t \in Seq(S) : Joined(ss, j) = Joined(ss, i) \o t
             T == {j \in Nat : i <= j /\ j <= Len(ss) => Split(j)}
  <1>0. Len(ss) \in Nat /\ i \in Nat /\ i <= Len(ss)
    OBVIOUS
  <1>1. \A j \in 0..Len(ss) : Joined(ss, j) \in Seq(S)
    BY FlattenStep
  <1>2. Split(i)
    <2>1. Joined(ss, i) \in Seq(S) /\ <<>> \in Seq(S)
      BY <1>1
    <2>2. Joined(ss, i) \o <<>> = Joined(ss, i)
      BY <2>1, ConcatEmptySeq
    <2> QED
      BY <2>1, <2>2
  <1>3. ASSUME NEW j \in Nat, i <= j, j + 1 <= Len(ss), Split(j)
        PROVE  Split(j + 1)
    <2>1. PICK t \in Seq(S) : Joined(ss, j) = Joined(ss, i) \o t
      BY <1>3
    <2>2. j + 1 \in 1..Len(ss) /\ (j + 1) - 1 = j
      BY <1>0, <1>3
    <2>3. Joined(ss, j + 1) = Joined(ss, j) \o ss[j + 1]
      <3>1. \A k \in 1..Len(ss) : Joined(ss, k) = Joined(ss, k - 1) \o ss[k]
        BY FlattenStep
      <3>2. Joined(ss, j + 1) = Joined(ss, (j + 1) - 1) \o ss[j + 1]
        BY <3>1, <2>2, Zenon
      <3> QED
        BY <2>2, <3>2
    <2>4. ss[j + 1] \in Seq(S) /\ Joined(ss, i) \in Seq(S)
      BY <1>0, <1>1, <2>2
    <2> DEFINE x == ss[j + 1]
    <2>5. x \in Seq(S)
      BY <2>4
    <2> HIDE DEF x
    <2>6. t \o x \in Seq(S)
      BY <2>5, ConcatProperties
    <2>7. (Joined(ss, i) \o t) \o x = Joined(ss, i) \o (t \o x)
      BY <2>4, <2>5, ConcatAssociative
    <2> QED
      BY <2>1, <2>3, <2>6, <2>7, Zenon DEF x
  <1> HIDE DEF Split
  <1>4. 0 \in T
    BY <1>0, <1>2
  <1>5. ASSUME NEW j \in Nat, j \in T
        PROVE  j + 1 \in T
    <2>1. ASSUME i <= j + 1, j + 1 <= Len(ss)
          PROVE  Split(j + 1)
      <3>1. CASE i = j + 1
        BY <1>2, <3>1
      <3>2. CASE i <= j
        BY <1>3, <1>5, <2>1, <3>2
      <3> QED
        BY <1>0, <2>1, <3>1, <3>2
    <2> QED
      BY <2>1
  <1>6. \A j \in Nat : j \in T
    <2> HIDE DEF T
    <2> QED
      BY <1>4, <1>5, SetInduction
  <1>7. \A j \in i..Len(ss) : Split(j)
    BY <1>0, <1>6
  <1> QED
    BY <1>7 DEF Split

LEMMA JoinedAll ==
  ASSUME NEW S, NEW ss \in Seq(Seq(S))
  PROVE  FlattenSeq(ss) = Joined(ss, Len(ss))
  BY SubSeqFull DEF Joined

(* All of it is a sequence of what they are sequences of.                  *)
LEMMA FlattenIsSeq ==
  ASSUME NEW S, NEW ss \in Seq(Seq(S))
  PROVE  FlattenSeq(ss) \in Seq(S)
  <1>1. FlattenSeq(ss) = Joined(ss, Len(ss)) /\ Len(ss) \in 0..Len(ss)
    BY JoinedAll
  <1> QED
    BY <1>1, FlattenStep

LEMMA FlattenSplit ==
  ASSUME NEW S, NEW ss \in Seq(Seq(S)), NEW i \in 0..Len(ss)
  PROVE  \E t \in Seq(S) : FlattenSeq(ss) = Joined(ss, i) \o t
  <1>1. Len(ss) \in i..Len(ss)
    OBVIOUS
  <1>2. \E t \in Seq(S) : Joined(ss, Len(ss)) = Joined(ss, i) \o t
    BY <1>1, JoinedSplit
  <1>3. FlattenSeq(ss) = Joined(ss, Len(ss))
    BY JoinedAll
  <1> QED
    BY <1>2, <1>3

(* Sequences that hold the values of v one each, and then empty ones.      *)
Singles(S, ss, v) ==
    /\ ss \in Seq(Seq(S)) /\ v \in Seq(S)
    /\ Len(v) <= Len(ss)
    /\ \A i \in 1..Len(ss) : ss[i] = IF i <= Len(v) THEN <<v[i]>> ELSE <<>>

(* FlattenSeq of them is v.                                                *)
LEMMA FlattenSingles ==
  ASSUME NEW S, NEW ss, NEW v, Singles(S, ss, v)
  PROVE  FlattenSeq(ss) = v
  <1> DEFINE J(i) == Joined(ss, i)
             P(i) == SubSeq(v, 1, i)
             n == Len(v)
             m == Len(ss)
             T == {i \in Nat : i <= m => /\ i <= n => J(i) = P(i)
                                         /\ n <= i => J(i) = v}
  <1>0. n \in Nat /\ m \in Nat /\ n <= m /\ ss \in Seq(Seq(S)) /\ v \in Seq(S)
    BY DEF Singles
  <1>1. J(0) = <<>> /\ P(0) = <<>> /\ P(n) = v /\ v \o <<>> = v
    <2>1. J(0) = <<>>
      BY <1>0, FlattenStep
    <2>2. P(0) = <<>> /\ P(n) = v /\ v \o <<>> = v
      BY <1>0, SubSeqEmpty, SubSeqFull, ConcatEmptySeq
    <2> QED
      BY <2>1, <2>2
  <1>2. \A i \in 1..m : J(i) = J(i - 1) \o ss[i]
    BY <1>0, FlattenStep
  <1>3. ASSUME NEW i \in 1..n
        PROVE  P(i) = P(i - 1) \o <<v[i]>>
    <2>1. 1 \in 1..Len(v) /\ i \in 1..Len(v)
      BY <1>0
    <2> QED
      BY <1>0, <2>1, SubSeqRecursiveSecond
  <1>4. /\ \A i \in 1..m : i <= n => ss[i] = <<v[i]>>
        /\ \A i \in 1..m : n < i => ss[i] = <<>>
    <2> SUFFICES ASSUME NEW i \in 1..m
                 PROVE  /\ i <= n => ss[i] = <<v[i]>>
                        /\ n < i => ss[i] = <<>>
      OBVIOUS
    <2>1. ss[i] = IF i <= n THEN <<v[i]>> ELSE <<>>
      BY DEF Singles
    <2> HIDE DEF n, m
    <2>2. n < i => ~(i <= n)
      BY <1>0
    <2> QED
      BY <2>1, <2>2
  <1> HIDE DEF J, P, n, m
  <1>5. 0 \in T
    BY <1>0, <1>1
  <1>6. ASSUME NEW i \in Nat, i \in T
        PROVE  i + 1 \in T
    <2> SUFFICES ASSUME i + 1 <= m
                 PROVE  /\ i + 1 <= n => J(i + 1) = P(i + 1)
                        /\ n <= i + 1 => J(i + 1) = v
      OBVIOUS
    <2>1. i + 1 \in 1..m /\ (i + 1) - 1 = i /\ i <= m
      BY <1>0
    <2>2. J(i + 1) = J(i) \o ss[i + 1]
      <3>1. J(i + 1) = J((i + 1) - 1) \o ss[i + 1]
        BY <1>2, <2>1, Zenon
      <3> QED
        BY <2>1, <3>1
    <2>3. /\ i <= n => J(i) = P(i)
          /\ n <= i => J(i) = v
      BY <1>6, <2>1
    <2>4. CASE i + 1 <= n
      <3>1. i + 1 \in 1..n /\ i <= n
        BY <1>0, <2>4
      <3>2. P(i + 1) = P((i + 1) - 1) \o <<v[i + 1]>>
        BY <1>3, <3>1, Zenon
      <3>3. J(i + 1) = P(i + 1)
        BY <1>4, <2>1, <2>2, <2>3, <2>4, <3>1, <3>2
      <3>4. n <= i + 1 => P(i + 1) = v
        BY <1>0, <1>1, <2>4
      <3> QED
        BY <3>3, <3>4
    <2>5. CASE ~(i + 1 <= n)
      <3>1. n <= i /\ n < i + 1
        BY <1>0, <2>5
      <3>2. J(i + 1) = v \o <<>>
        BY <1>4, <2>1, <2>2, <2>3, <3>1
      <3> QED
        BY <1>1, <2>5, <3>2
    <2> QED
      BY <2>4, <2>5
  <1>7. \A i \in Nat : i \in T
    <2> HIDE DEF T
    <2> QED
      BY <1>5, <1>6, SetInduction
  <1>8. J(m) = v
    BY <1>0, <1>7
  <1> QED
    BY <1>0, <1>8, JoinedAll DEF J, m

-----------------------------------------------------------------------------
(* Sums over the domain of a sequence, by FoldLeftDomain.                  *)

(* Max of a set of such numbers.                                           *)
LEMMA MaxIsGreatest ==
  ASSUME NEW n \in Nat, NEW s, s \subseteq 1..n, s # {}
  PROVE  Max(s) \in s /\ \A y \in s : Max(s) >= y
  <1> DEFINE T == {n - y : y \in s}
  <1>1. T \subseteq Nat /\ T # {}
    <2>1. \A y \in s : n - y \in Nat
      OBVIOUS
    <2>2. PICK y \in s : TRUE
      OBVIOUS
    <2>3. n - y \in T
      BY <2>2
    <2> QED
      BY <2>1, <2>3
  <1>2. PICK x \in T : \A y \in T : x <= y
    <2> HIDE DEF T
    <2> QED
      BY <1>1, Smallest
  <1>3. PICK m \in s : x = n - m
    BY <1>2
  <1>4. \A y \in s : m >= y
    <2>1. \A y \in s : n - y \in T /\ y \in 1..n
      OBVIOUS
    <2> HIDE DEF T
    <2> QED
      BY <1>2, <1>3, <2>1
  <1> QED
    BY <1>4 DEF Max

(* The function that it computes with, for the numbers w[i].               *)
Summing(w, n, f) ==
    f = [s \in SUBSET (1..n) |-> IF s = {} THEN 0 ELSE f[s \ {Max(s)}] + w[Max(s)]]

LEMMA SumExists ==
  ASSUME NEW w
  PROVE  \A n \in Nat : \E f : Summing(w, n, f)
  <1> DEFINE T == {n \in Nat : \E f : Summing(w, n, f)}
  <1>1. 0 \in T
    <2> DEFINE f == [s \in SUBSET (1..0) |-> 0]
    <2>1. \A s \in SUBSET (1..0) : s = {}
      OBVIOUS
    <2>2. Summing(w, 0, f)
      BY <2>1 DEF Summing
    <2> QED
      BY <2>2
  <1>2. ASSUME NEW n \in Nat, n \in T
        PROVE  n + 1 \in T
    <2>1. PICK f : Summing(w, n, f)
      BY <1>2
    <2> DEFINE Add(s, x) == IF s = {} THEN 0 ELSE x + w[Max(s)]
               g == [s \in SUBSET (1..(n + 1)) |-> Add(s,
                        IF n + 1 \in s THEN f[s \ {n + 1}] ELSE f[s \ {Max(s)}])]
    <2>2. ASSUME NEW s \in SUBSET (1..n)
          PROVE  g[s] = f[s]
      <3>1. n + 1 \notin s /\ s \in SUBSET (1..(n + 1))
        OBVIOUS
      <3>2. f[s] = Add(s, f[s \ {Max(s)}])
        BY <2>1, Zenon DEF Summing
      <3> HIDE DEF Add
      <3> QED
        BY <3>1, <3>2
    <2>3. ASSUME NEW s \in SUBSET (1..(n + 1))
          PROVE  g[s] = Add(s, g[s \ {Max(s)}])
      <3>1. CASE s = {}
        BY <3>1
      <3>2. CASE s # {}
        <4> DEFINE k == n + 1
        <4>1. k \in Nat /\ s \subseteq 1..k
          OBVIOUS
        <4> HIDE DEF Add, g, k
        <4>2. Max(s) \in s /\ \A y \in s : Max(s) >= y
          BY <3>2, <4>1, MaxIsGreatest
        <4> DEFINE m == Max(s)
        <4>a. m \in 1..k /\ \A y \in s : y \in 1..k /\ m >= y
          BY <4>1, <4>2
        <4> HIDE DEF m
        <4>b. k = n + 1
          BY DEF k
        <4>3. n + 1 \in s => Max(s) = n + 1
          <5>1. n + 1 \in s => m = n + 1
            BY <4>a, <4>b
          <5> QED
            BY <5>1 DEF m
        <4>4. \A y \in s : y # Max(s) => y \in 1..n
          <5>1. \A y \in s : y # m => y \in 1..n
            <6> SUFFICES ASSUME NEW y \in s, y # m
                         PROVE  y \in 1..n
              OBVIOUS
            <6>1. y \in 1..k /\ m >= y /\ m \in 1..k
              BY <4>a
            <6> QED
              BY <4>b, <6>1
          <5> QED
            BY <5>1 DEF m
        <4>5. s \ {Max(s)} \in SUBSET (1..n)
          BY <4>4
        <4>6. g[s \ {Max(s)}] = f[s \ {Max(s)}]
          BY <2>2, <4>5
        <4>7. g[s] = Add(s, IF n + 1 \in s THEN f[s \ {n + 1}] ELSE f[s \ {Max(s)}])
          BY Zenon DEF g
        <4>8. (IF n + 1 \in s THEN f[s \ {n + 1}] ELSE f[s \ {Max(s)}]) = f[s \ {Max(s)}]
          BY <4>3
        <4> QED
          BY <4>6, <4>7, <4>8, Zenon
      <3> QED
        BY <3>1, <3>2
    <2>4. Summing(w, n + 1, g)
      <3>1. g = [s \in SUBSET (1..(n + 1)) |-> g[s]]
        OBVIOUS
      <3> HIDE DEF g
      <3>2. g = [s \in SUBSET (1..(n + 1)) |-> Add(s, g[s \ {Max(s)}])]
        BY <2>3, <3>1
      <3> QED
        BY <3>2 DEF Summing
    <2> QED
      BY <2>4
  <1>3. \A n \in Nat : n \in T
    <2> HIDE DEF T
    <2> QED
      BY <1>1, <1>2, SetInduction
  <1> QED
    BY <1>3

(* It gives the last of the running totals.                                *)
LEMMA SumIs ==
  ASSUME NEW n \in Nat, NEW w, NEW f, Summing(w, n, f),
         NEW c, c[0] = 0, \A i \in 1..n : c[i] = c[i - 1] + w[i]
  PROVE  f[1..n] = c[n]
  <1> DEFINE T == {i \in Nat : i <= n => f[1..i] = c[i]}
  <1>1. 0 \in T
    <2>1. 1..0 = {} /\ {} \in SUBSET (1..n)
      OBVIOUS
    <2>2. f[{}] = 0
      BY <2>1 DEF Summing
    <2> QED
      BY <2>1, <2>2
  <1>2. ASSUME NEW i \in Nat, i \in T
        PROVE  i + 1 \in T
    <2> SUFFICES ASSUME i + 1 <= n
                 PROVE  f[1..(i + 1)] = c[i + 1]
      OBVIOUS
    <2> DEFINE s == 1..(i + 1)
    <2>0. \A y \in s : y \in 1..n
      OBVIOUS
    <2>1. s \in SUBSET (1..n) /\ s # {} /\ i + 1 \in s
      BY <2>0
    <2>2. Max(s) \in s /\ \A y \in s : Max(s) >= y
      BY <2>1, MaxIsGreatest
    <2>3. Max(s) = i + 1
      BY <2>2
    <2>4. s \ {i + 1} = 1..i
      OBVIOUS
    <2>5. f[s] = f[s \ {Max(s)}] + w[Max(s)]
      <3> HIDE DEF s
      <3> QED
        BY <2>1 DEF Summing
    <2>6. f[1..i] = c[i] /\ i + 1 \in 1..n /\ (i + 1) - 1 = i
      BY <1>2
    <2>7. c[i + 1] = c[i] + w[i + 1]
      BY <2>6
    <2> QED
      BY <2>3, <2>4, <2>5, <2>6, <2>7
  <1>3. \A i \in Nat : i \in T
    <2> HIDE DEF T
    <2> QED
      BY <1>1, <1>2, SetInduction
  <1> QED
    BY <1>3

=============================================================================
