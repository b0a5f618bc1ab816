---------------------------- MODULE FramingProofs ----------------------------
(***************************************************************************)
(* Proofs about FrameStream: whatever clients write and however the bytes  *)
(* are cut, the buffer and the network hold the end of it, the header that *)
(* is remembered is in the buffer, and only a header whose lengths do not  *)
(* fit in a usize makes the codec panic; the intact frames that a stream   *)
(* begins with are delivered at once, in order and unchanged, and nothing  *)
(* of a frame that is rejected, nor behind it.                             *)
(***************************************************************************)
EXTENDS FrameStream, Induction

Pending == [header_end : Nat, data_size : Nat, compressed : BOOLEAN, use_hash : BOOLEAN]

-----------------------------------------------------------------------------
(* What is left of a sequence.                                             *)

LEMMA FromIs ==
  ASSUME NEW S, NEW b \in Seq(S), NEW i \in 1..(Len(b) + 1)
  PROVE  /\ From(b, i) \in Seq(S)
         /\ Len(From(b, i)) = Len(b) - i + 1
         /\ \A j \in 1..(Len(b) - i + 1) : From(b, i)[j] = b[i + j - 1]
  <1>1. \A j \in i..Len(b) : b[j] \in S
    OBVIOUS
  <1>2. i \in Int /\ Len(b) \in Int
    OBVIOUS
  <1> QED
    BY <1>1, <1>2, SubSeqProperties DEF From

LEMMA Associative ==
  ASSUME NEW S
  PROVE  \A s, t, u \in Seq(S) : (s \o t) \o u = s \o (t \o u)
  BY ConcatAssociative

(* One sequence is the end of another.                                     *)
Ends(S, s, t) == \E p \in Seq(S) : t = p \o s

LEMMA FromEnds ==
  ASSUME NEW S, NEW b \in Seq(S), NEW i \in 1..(Len(b) + 1)
  PROVE  Ends(S, From(b, i), b)
  <1>1. i - 1 \in 0..Len(b) /\ i \in Int /\ (i - 1) + 1 = i /\ Len(b) \in Nat
    OBVIOUS
  <1>2. SubSeq(b, 1, i - 1) \in Seq(S)
    <2>1. \A j \in 1..(i - 1) : b[j] \in S
      BY <1>1
    <2> QED
      BY <1>1, <2>1, SubSeqProperties
  <1>3. SubSeq(b, 1, i - 1) \o SubSeq(b, (i - 1) + 1, Len(b)) = SubSeq(b, 1, Len(b))
    <2>1. 1 \in 1..(Len(b) + 1) /\ i - 1 \in (1 - 1)..Len(b) /\ Len(b) \in (i - 1)..Len(b)
      BY <1>1
    <2> DEFINE k == i - 1
    <2> HIDE DEF k
    <2>2. SubSeq(b, 1, k) \o SubSeq(b, k + 1, Len(b)) = SubSeq(b, 1, Len(b))
      BY <2>1, ConcatAdjacentSubSeq DEF k
    <2> QED
      BY <2>2 DEF k
  <1>4. SubSeq(b, 1, Len(b)) = b
    BY SubSeqFull
  <1> QED
    BY <1>1, <1>2, <1>3, <1>4 DEF From, Ends

LEMMA TailEnds ==
  ASSUME NEW S, NEW b \in Seq(S), b # <<>>
  PROVE  Tail(b) \in Seq(S) /\ Ends(S, Tail(b), b)
  <1>1. Tail(b) = From(b, 2) /\ Tail(b) \in Seq(S)
    BY TailIsSubSeq, HeadTailProperties DEF From
  <1>2. 2 \in 1..(Len(b) + 1)
    <2>1. Len(b) \in Nat \ {0}
      BY EmptySeq
    <2> QED
      BY <2>1
  <1>3. Ends(S, From(b, 2), b)
    BY <1>2, FromEnds
  <1> QED
    BY <1>1, <1>3

LEMMA EndsItself ==
  ASSUME NEW S, NEW b \in Seq(S)
  PROVE  Ends(S, b, b)
  <1>1. <<>> \in Seq(S) /\ <<>> \o b = b
    BY ConcatEmptySeq
  <1> QED
    BY <1>1 DEF Ends

LEMMA EndsTransitive ==
  ASSUME NEW S, NEW b \in Seq(S), NEW c \in Seq(S), NEW d \in Seq(S),
         Ends(S, c, b), Ends(S, d, c)
  PROVE  Ends(S, d, b)
  <1>1. PICK p \in Seq(S) : b = p \o c
    BY DEF Ends
  <1>2. PICK q \in Seq(S) : c = q \o d
    BY DEF Ends
  <1>3. p \o q \in Seq(S)
    BY ConcatProperties
  <1>4. (p \o q) \o d = p \o (q \o d)
    BY Associative
  <1> QED
    BY <1>1, <1>2, <1>3, <1>4, Zenon DEF Ends

LEMMA EndsIsSuffix ==
  ASSUME NEW S, NEW t \in Seq(S), NEW s \in Seq(S), Ends(S, s, t)
  PROVE  IsSuffix(s, t)
  <1>1. PICK p \in Seq(S) : t = p \o s
    BY DEF Ends
  <1>2. /\ Len(s) \in Nat /\ Len(t) \in Nat /\ Len(p) \in Nat /\ Len(t) = Len(p) + Len(s)
        /\ \A j \in 1..(Len(p) + Len(s)) : t[j] = IF j <= Len(p) THEN p[j] ELSE s[j - Len(p)]
    BY <1>1, ConcatProperties
  <1> DEFINE r == Reverse(s)
             q == Reverse(t)
  <1>3. /\ r \in Seq(S) /\ Len(r) = Len(s)
        /\ \A i \in 1..Len(s) : r[i] = s[Len(s) - i + 1]
    BY <1>2 DEF Reverse
  <1>4. /\ q \in Seq(S) /\ Len(q) = Len(t)
        /\ \A i \in 1..Len(t) : q[i] = t[Len(t) - i + 1]
    BY DEF Reverse
  <1>5. \A i \in 1..Len(s) : r[i] = q[i]
    <2> SUFFICES ASSUME NEW i \in 1..Len(s)
                 PROVE  r[i] = q[i]
      OBVIOUS
    <2> DEFINE j == Len(t) - i + 1
    <2>1. /\ i \in 1..Len(t) /\ j \in 1..(Len(p) + Len(s)) /\ ~(j <= Len(p))
          /\ j - Len(p) = Len(s) - i + 1
      BY <1>2
    <2>2. r[i] = s[Len(s) - i + 1] /\ q[i] = t[j]
      BY <1>3, <1>4, <2>1
    <2> HIDE DEF j
    <2>3. t[j] = s[j - Len(p)]
      BY <1>2, <2>1
    <2> QED
      BY <2>1, <2>2, <2>3
  <1> HIDE DEF r, q
  <1>6. SubSeq(r, 1, Len(r)) = SubSeq(q, 1, Len(r))
    <2>1. \A i \in 1..Len(r) : r[i] \in S /\ q[i] \in S
      BY <1>2, <1>3, <1>4
    <2>2. /\ SubSeq(r, 1, Len(r)) \in Seq(S) /\ SubSeq(q, 1, Len(r)) \in Seq(S)
          /\ Len(SubSeq(r, 1, Len(r))) = Len(r) /\ Len(SubSeq(q, 1, Len(r))) = Len(r)
          /\ \A i \in 1..Len(r) : /\ SubSeq(r, 1, Len(r))[i] = r[i]
                                  /\ SubSeq(q, 1, Len(r))[i] = q[i]
      BY <1>2, <1>3, <2>1, SubSeqProperties
    <2> QED
      BY <1>3, <1>5, <2>2, SeqEqual
  <1>7. IsPrefix(r, q)
    BY <1>2, <1>3, <1>4, <1>6 DEF IsPrefix
  <1> QED
    BY <1>7 DEF IsSuffix, r, q

(* Dropping bytes of the buffer leaves an end of what was there.           *)
LEMMA EndsDropped ==
  ASSUME NEW S, NEW t, NEW b \in Seq(S), NEW w \in Seq(S), Ends(S, b \o w, t),
         NEW c \in Seq(S), Ends(S, c, b)
  PROVE  Ends(S, c \o w, t)
  <1>1. PICK p \in Seq(S) : t = p \o (b \o w)
    BY DEF Ends
  <1>2. PICK q \in Seq(S) : b = q \o c
    BY DEF Ends
  <1>3. b \o w = q \o (c \o w)
    <2>1. (q \o c) \o w = q \o (c \o w)
      BY Associative
    <2> QED
      BY <1>2, <2>1, Zenon
  <1>4. p \o q \in Seq(S) /\ c \o w \in Seq(S)
    BY ConcatProperties
  <1>5. p \o (q \o (c \o w)) = (p \o q) \o (c \o w)
    BY <1>4, Associative
  <1>6. t = (p \o q) \o (c \o w)
    BY <1>1, <1>3, <1>5, Zenon
  <1> QED
    BY <1>4, <1>6, Zenon DEF Ends

(* Bytes that arrive stay where they are in what is left.                  *)
LEMMA Arrival ==
  ASSUME NEW S, NEW b \in Seq(S), NEW w \in Seq(S), NEW n \in 1..Len(w)
  PROVE  (b \o SubSeq(w, 1, n)) \o From(w, n + 1) = b \o w
  <1>1. SubSeq(w, 1, n) \in Seq(S) /\ From(w, n + 1) \in Seq(S)
    BY FromIs, SubSeqProperties
  <1>2. SubSeq(w, 1, n) \o From(w, n + 1) = w
    <2>1. 1 \in 1..(Len(w) + 1) /\ n \in (1 - 1)..Len(w) /\ Len(w) \in n..Len(w)
      OBVIOUS
    <2>2. SubSeq(w, 1, n) \o SubSeq(w, n + 1, Len(w)) = SubSeq(w, 1, Len(w))
      BY <2>1, ConcatAdjacentSubSeq
    <2>3. SubSeq(w, 1, Len(w)) = w
      BY SubSeqFull
    <2> QED
      BY <2>2, <2>3 DEF From
  <1> DEFINE x == SubSeq(w, 1, n)
             y == From(w, n + 1)
  <1> HIDE DEF x, y
  <1>3. (b \o x) \o y = b \o (x \o y)
    BY <1>1, ConcatAssociative DEF x, y
  <1> QED
    BY <1>2, <1>3, Zenon DEF x, y

-----------------------------------------------------------------------------
(* Slices of sequences that are put together.                              *)

LEMMA ElementOfLeft ==
  ASSUME NEW S, NEW s \in Seq(S), NEW u \in Seq(S), NEW i \in 1..Len(s)
  PROVE  (s \o u)[i] = s[i]
  <1>1. Len(s) \in Nat /\ Len(u) \in Nat /\ i \in 1..Len(s) + Len(u) /\ i <= Len(s)
    OBVIOUS
  <1> QED
    BY <1>1, ConcatProperties

LEMMA ElementOfRight ==
  ASSUME NEW S, NEW s \in Seq(S), NEW u \in Seq(S), NEW i \in 1..Len(u)
  PROVE  (s \o u)[Len(s) + i] = u[i]
  <1> DEFINE j == Len(s) + i
  <1>1. Len(s) \in Nat /\ Len(u) \in Nat /\ j \in 1..Len(s) + Len(u) /\ ~(j <= Len(s)) /\ j - Len(s) = i
    OBVIOUS
  <1> HIDE DEF j
  <1>2. (s \o u)[j] = u[j - Len(s)]
    BY <1>1, ConcatProperties
  <1> QED
    BY <1>1, <1>2 DEF j

LEMMA SliceOfLeft ==
  ASSUME NEW S, NEW s \in Seq(S), NEW u \in Seq(S),
         NEW m \in Nat \ {0}, NEW n \in Nat, n <= Len(s)
  PROVE  SubSeq(s \o u, m, n) = SubSeq(s, m, n)
  <1>1. Len(s) \in Nat
    OBVIOUS
  <1>2. CASE m <= n
    <2>1. m \in 1..Len(s) /\ n \in 1..Len(s)
      BY <1>1, <1>2
    <2> QED
      BY <2>1, SubSeqOfConcat1
  <1>3. CASE n < m
    BY <1>3, SubSeqEmpty
  <1> QED
    BY <1>2, <1>3

LEMMA SliceOfRight ==
  ASSUME NEW S, NEW s \in Seq(S), NEW u \in Seq(S),
         NEW m \in Nat \ {0}, NEW n \in Nat, n <= Len(u)
  PROVE  SubSeq(s \o u, Len(s) + m, Len(s) + n) = SubSeq(u, m, n)
  <1>1. Len(s) \in Nat /\ Len(u) \in Nat
    OBVIOUS
  <1> DEFINE i == Len(s) + m
             j == Len(s) + n
  <1>2. i \in Int /\ j \in Int /\ i - Len(s) = m /\ j - Len(s) = n
    BY <1>1
  <1>3. CASE m <= n
    <2>1. i \in Len(s) + 1..Len(s) + Len(u) /\ j \in Len(s) + 1..Len(s) + Len(u)
      BY <1>1, <1>3
    <2> HIDE DEF i, j
    <2>2. SubSeq(s \o u, i, j) = SubSeq(u, i - Len(s), j - Len(s))
      BY <2>1, SubSeqOfConcat2
    <2> QED
      BY <1>2, <2>2 DEF i, j
  <1>4. CASE n < m
    <2>1. j < i
      BY <1>1, <1>4
    <2> HIDE DEF i, j
    <2>2. SubSeq(s \o u, i, j) = <<>> /\ SubSeq(u, m, n) = <<>>
      BY <1>2, <1>4, <2>1, SubSeqEmpty
    <2> QED
      BY <2>2 DEF i, j
  <1> QED
    BY <1>3, <1>4

(* Two sequences that begin the same have the same slices there.           *)
LEMMA SameSlice ==
  ASSUME NEW S, NEW b \in Seq(S), NEW w \in Seq(S), NEW c \in Seq(S), NEW r \in Seq(S),
         b \o w = c \o r,
         NEW m \in Nat \ {0}, NEW n \in Nat, n <= Len(b), n <= Len(c)
  PROVE  SubSeq(b, m, n) = SubSeq(c, m, n)
  <1>1. SubSeq(b \o w, m, n) = SubSeq(b, m, n)
    BY SliceOfLeft
  <1>2. SubSeq(c \o r, m, n) = SubSeq(c, m, n)
    BY SliceOfLeft
  <1> QED
    BY <1>1, <1>2

LEMMA SameElement ==
  ASSUME NEW S, NEW b \in Seq(S), NEW w \in Seq(S), NEW c \in Seq(S), NEW r \in Seq(S),
         b \o w = c \o r, NEW i \in Nat \ {0}, i <= Len(b), i <= Len(c)
  PROVE  b[i] = c[i]
  <1>1. Len(b) \in Nat /\ Len(w) \in Nat /\ Len(c) \in Nat /\ Len(r) \in Nat
    OBVIOUS
  <1>2. i \in 1..Len(b) + Len(w) /\ i \in 1..Len(c) + Len(r)
    BY <1>1
  <1>3. (b \o w)[i] = b[i]
    BY <1>2, ConcatProperties
  <1>4. (c \o r)[i] = c[i]
    BY <1>2, ConcatProperties
  <1> QED
    BY <1>3, <1>4

(* When the first of two parts is there whole, dropping it leaves the      *)
(* second.                                                                 *)
LEMMA CutAway ==
  ASSUME NEW S, NEW b \in Seq(S), NEW w \in Seq(S), NEW c \in Seq(S), NEW r \in Seq(S),
         b \o w = c \o r, Len(c) <= Len(b)
  PROVE  From(b, Len(c) + 1) \in Seq(S) /\ From(b, Len(c) + 1) \o w = r
  <1> DEFINE x == From(b, Len(c) + 1)
  <1>1. Len(b) \in Nat /\ Len(c) \in Nat /\ Len(c) + 1 \in 1..Len(b) + 1
    OBVIOUS
  <1>2. x \in Seq(S)
    BY <1>1, FromIs
  <1>3. b = c \o x
    <2>1. SubSeq(b, 1, Len(c)) = SubSeq(c, 1, Len(c))
      BY <1>1, SameSlice
    <2>2. SubSeq(c, 1, Len(c)) = c /\ SubSeq(b, 1, Len(b)) = b
      BY SubSeqFull
    <2>3. SubSeq(b, 1, Len(c)) \o SubSeq(b, Len(c) + 1, Len(b)) = SubSeq(b, 1, Len(b))
      <3>1. 1 \in 1..Len(b) + 1 /\ Len(c) \in (1 - 1)..Len(b) /\ Len(b) \in Len(c)..Len(b)
        BY <1>1
      <3> QED
        BY <3>1, ConcatAdjacentSubSeq
    <2> QED
      BY <2>1, <2>2, <2>3 DEF From
  <1> HIDE DEF x
  <1>4. c \o (x \o w) = c \o r /\ x \o w \in Seq(S)
    <2>1. (c \o x) \o w = c \o (x \o w)
      BY <1>2, Associative
    <2>2. x \o w \in Seq(S)
      BY <1>2, ConcatProperties
    <2> QED
      BY <1>3, <2>1, <2>2, Zenon
  <1>5. x \o w = r
    BY <1>2, <1>4, ConcatSimplifications
  <1> QED
    BY <1>2, <1>5 DEF x

-----------------------------------------------------------------------------
(* An intact frame.                                                        *)

HeadLen == Len(PREFIX) + 2
DigestIn(item) == SubSeq(item.bytes, HeadLen + Len(item.payload) + 1, Len(item.bytes))
Verified(item, t) == Sound(Fields[t], item.payload, DigestIn(item))

(* Where its parts are.                                                    *)
LaidOut(item, t) ==
    LET n == Len(item.payload)
        len == Len(item.bytes)
    IN  /\ t \in DOMAIN Fields
        /\ Fields[t].data_size = n
        /\ len = HeadLen + n + DigestSize(Fields[t]) /\ len <= MaxUsize
        /\ SubSeq(item.bytes, 1, Len(PREFIX)) = PREFIX
        /\ item.bytes[HeadLen - 1] = t /\ item.bytes[HeadLen] = ">"
        /\ SubSeq(item.bytes, HeadLen + 1, HeadLen + n) = item.payload

LEMMA FramedIsLaidOut ==
  ASSUME NEW item \in Item, NEW t \in DOMAIN Fields, NEW g,
         Framed(item.bytes, t, item.payload, g)
  PROVE  LaidOut(item, t) /\ DigestIn(item) = g
  <1> DEFINE S == Seq(Symbols)
             x == item.payload
             P == PREFIX
  <1>1. /\ <<t, ">">> \in S /\ g \in S
        /\ Fields[t].data_size = Len(x)
        /\ Len(g) = DigestSize(Fields[t])
        /\ item.bytes = P \o (<<t, ">">> \o (x \o g))
    BY DEF Framed
  <1>2. x \in S /\ Len(item.bytes) <= MaxUsize
    BY DEF Framed, Item
  <1>3. P \in S
    BY FramingAssumption
  <1> DEFINE y == <<t, ">">>
             z == x \o g
             c == y \o z
             n == Len(x)
             l == Len(P)
             k == Len(g)
  <1>4. y \in S /\ g \in S /\ Len(y) = 2 /\ y[1] = t /\ y[2] = ">" /\ k = DigestSize(Fields[t])
    BY <1>1
  <1>5. n \in Nat /\ l \in Nat /\ k \in Nat
    BY <1>2, <1>3, <1>4
  <1> HIDE DEF y, x, P
  <1>6. /\ z \in S /\ Len(z) = n + k
        /\ SubSeq(z, 1, n) = x /\ SubSeq(z, n + 1, n + k) = g
    <2>1. z \in S /\ Len(z) = n + k
      BY <1>2, <1>4, ConcatProperties
    <2>2. SubSeq(z, 1, n) = SubSeq(x, 1, n)
      BY <1>2, <1>4, <1>5, SliceOfLeft
    <2>3. SubSeq(z, n + 1, n + k) = SubSeq(g, 1, k)
      BY <1>2, <1>4, <1>5, SliceOfRight
    <2>4. SubSeq(x, 1, n) = x /\ SubSeq(g, 1, k) = g
      BY <1>2, <1>4, SubSeqFull
    <2> QED
      BY <2>1, <2>2, <2>3, <2>4
  <1> HIDE DEF z
  <1>7. /\ c \in S /\ Len(c) = 2 + n + k
        /\ c[1] = t /\ c[2] = ">"
        /\ SubSeq(c, 2 + 1, 2 + n) = x
        /\ SubSeq(c, 2 + (n + 1), 2 + (n + k)) = g
    <2>1. c \in S /\ Len(c) = 2 + (n + k) /\ c[1] = t /\ c[2] = ">"
      <3>1. c \in S /\ Len(c) = Len(y) + Len(z)
        BY <1>4, <1>6, ConcatProperties
      <3>2. 1 \in 1..Len(y) /\ 2 \in 1..Len(y)
        BY <1>4
      <3>3. \A i \in 1..Len(y) : (y \o z)[i] = y[i]
        BY <1>4, <1>6, ElementOfLeft
      <3> QED
        BY <1>4, <1>6, <3>1, <3>2, <3>3
    <2>2. SubSeq(c, 2 + 1, 2 + n) = SubSeq(z, 1, n)
      <3>1. n <= Len(z) /\ 1 \in Nat \ {0} /\ n \in Nat
        BY <1>5, <1>6
      <3>2. SubSeq(y \o z, Len(y) + 1, Len(y) + n) = SubSeq(z, 1, n)
        BY <1>4, <1>6, <3>1, SliceOfRight
      <3> QED
        BY <1>4, <3>2
    <2>3. SubSeq(c, 2 + (n + 1), 2 + (n + k)) = SubSeq(z, n + 1, n + k)
      <3> DEFINE m == n + 1
                 j == n + k
      <3>1. m \in Nat \ {0} /\ j \in Nat /\ j <= Len(z)
        BY <1>5, <1>6
      <3> HIDE DEF m, j
      <3>2. SubSeq(y \o z, Len(y) + m, Len(y) + j) = SubSeq(z, m, j)
        BY <1>4, <1>6, <3>1, SliceOfRight
      <3> QED
        BY <1>4, <3>2 DEF m, j
    <2> HIDE DEF c
    <2>4. 2 + (n + k) = 2 + n + k
      BY <1>5
    <2> QED
      BY <1>6, <2>1, <2>2, <2>3, <2>4
  <1>8. item.bytes = P \o c
    BY <1>1 DEF y, z, x, P
  <1> HIDE DEF c
  <1> DEFINE b == P \o c
  <1>9. b \in S /\ Len(b) = Len(P) + Len(c)
    BY <1>3, <1>7, ConcatProperties
  <1>10. b[l + 1] = t /\ b[l + 2] = ">" /\ Len(b) = (l + 2) + n + k
    <2>1. 1 \in 1..Len(c) /\ 2 \in 1..Len(c)
      BY <1>5, <1>7
    <2>2. b[Len(P) + 1] = c[1] /\ b[Len(P) + 2] = c[2]
      BY <1>3, <1>7, <2>1, ElementOfRight
    <2>3. l + (2 + n + k) = (l + 2) + n + k
      BY <1>5
    <2> QED
      BY <1>7, <1>9, <2>2, <2>3
  <1>11. SubSeq(b, 1, l) = P
    <2>1. SubSeq(b, 1, l) = SubSeq(P, 1, l)
      BY <1>3, <1>5, <1>7, SliceOfLeft
    <2> QED
      BY <1>3, <2>1, SubSeqFull
  <1>12. SubSeq(b, l + (2 + 1), l + (2 + n)) = x
    <2>1. SubSeq(b, l + (2 + 1), l + (2 + n)) = SubSeq(c, 2 + 1, 2 + n)
      <3> DEFINE m == 2 + 1
                 j == 2 + n
      <3>1. m \in Nat \ {0} /\ j \in Nat /\ j <= Len(c)
        BY <1>5, <1>7
      <3> HIDE DEF m, j
      <3>2. SubSeq(P \o c, Len(P) + m, Len(P) + j) = SubSeq(c, m, j)
        BY <1>3, <1>7, <3>1, SliceOfRight
      <3> QED
        BY <3>2 DEF m, j
    <2> QED
      BY <1>7, <2>1
  <1>13. SubSeq(b, l + (2 + (n + 1)), l + (2 + (n + k))) = g
    <2>1. SubSeq(b, l + (2 + (n + 1)), l + (2 + (n + k)))
             = SubSeq(c, 2 + (n + 1), 2 + (n + k))
      <3> DEFINE m == 2 + (n + 1)
                 j == 2 + (n + k)
      <3>1. m \in Nat \ {0} /\ j \in Nat /\ j <= Len(c)
        BY <1>5, <1>7
      <3> HIDE DEF m, j
      <3>2. SubSeq(P \o c, Len(P) + m, Len(P) + j) = SubSeq(c, m, j)
        BY <1>3, <1>7, <3>1, SliceOfRight
      <3> QED
        BY <3>2 DEF m, j
    <2> QED
      BY <1>7, <2>1
  <1> HIDE DEF b
  <1>14. /\ HeadLen = l + 2 /\ HeadLen - 1 = l + 1
         /\ HeadLen + 1 = l + (2 + 1) /\ HeadLen + n = l + (2 + n)
         /\ HeadLen + n + 1 = l + (2 + (n + 1)) /\ Len(b) = l + (2 + (n + k))
    BY <1>5, <1>10 DEF HeadLen, P
  <1>15. item.bytes = b
    BY <1>8 DEF b
  <1> HIDE DEF l, n, k
  <1>16. LaidOut(item, t) /\ DigestIn(item) = g
    <2>1. item.payload = x /\ PREFIX = P /\ Len(x) = n /\ Len(P) = l
      BY DEF x, P, n, l
    <2>2. /\ SubSeq(item.bytes, 1, Len(PREFIX)) = PREFIX
          /\ item.bytes[HeadLen - 1] = t /\ item.bytes[HeadLen] = ">"
          /\ SubSeq(item.bytes, HeadLen + 1, HeadLen + n) = item.payload
          /\ SubSeq(item.bytes, HeadLen + n + 1, Len(item.bytes)) = g
          /\ Len(item.bytes) = HeadLen + n + DigestSize(Fields[t])
      BY <1>4, <1>10, <1>11, <1>12, <1>13, <1>14, <1>15, <2>1
    <2> QED
      BY <1>1, <1>2, <2>1, <2>2 DEF LaidOut, DigestIn
  <1> QED
    BY <1>16

LEMMA IntactIsLaidOut ==
  ASSUME NEW item \in Item, IsIntact(item)
  PROVE  \E t : LaidOut(item, t) /\ Verified(item, t)
  <1>1. PICK t \in DOMAIN Fields :
          /\ Framed(item.bytes, t, item.payload,
                    IF Fields[t].use_hash THEN Digest(item.payload) ELSE <<>>)
          /\ Decodes(item.payload, Fields[t].compressed)
    BY DEF IsIntact
  <1>2. LaidOut(item, t) /\ DigestIn(item) = IF Fields[t].use_hash THEN Digest(item.payload) ELSE <<>>
    BY <1>1, FramedIsLaidOut
  <1>3. Verified(item, t)
    BY <1>1, <1>2 DEF Verified, Sound
  <1> QED
    BY <1>2, <1>3

(* A frame whose lengths are right, but whose digest is wrong or whose     *)
(* payload does not decode.                                                *)
IsRejected(item) ==
    /\ item.kind = "damaged"
    /\ \E t \in DOMAIN Fields : \E data, digest \in Seq(Symbols) :
          Framed(item.bytes, t, data, digest) /\ ~Sound(Fields[t], data, digest)

LEMMA RejectedIsLaidOut ==
  ASSUME NEW item \in Item, IsRejected(item)
  PROVE  \E x \in Item : \E t : x.bytes = item.bytes /\ LaidOut(x, t) /\ ~Verified(x, t)
  <1>1. PICK t \in DOMAIN Fields, data \in Seq(Symbols), digest \in Seq(Symbols) :
          Framed(item.bytes, t, data, digest) /\ ~Sound(Fields[t], data, digest)
    BY DEF IsRejected
  <1> DEFINE x == [item EXCEPT !.payload = data]
  <1>2. x \in Item /\ x.bytes = item.bytes /\ x.payload = data
    BY DEF Item
  <1> HIDE DEF x
  <1>3. LaidOut(x, t) /\ DigestIn(x) = digest
    <2>1. Framed(x.bytes, t, x.payload, digest)
      BY <1>1, <1>2
    <2> QED
      BY <1>2, <2>1, FramedIsLaidOut
  <1>4. ~Verified(x, t)
    BY <1>1, <1>2, <1>3 DEF Verified
  <1> QED
    BY <1>2, <1>3, <1>4

-----------------------------------------------------------------------------
(* The decoder.                                                            *)

(* find_subsequence gives the first place, or none.                        *)
LEMMA FirstPlace ==
  ASSUME NEW S, NEW b \in Seq(S), NEW s \in Seq(S), s # <<>>,
         NEW f, f = find_subsequence(b, s)
  PROVE  /\ f \in 0..Len(b)
         /\ f # 0 => /\ f + Len(s) - 1 <= Len(b)
                     /\ SubSeq(b, f, f + Len(s) - 1) = s
         /\ \A i \in 1..(Len(b) - Len(s) + 1) :
               SubSeq(b, i, i + Len(s) - 1) = s => f # 0 /\ f <= i
  <1> DEFINE at == {i \in 1..(Len(b) - Len(s) + 1) : SubSeq(b, i, i + Len(s) - 1) = s}
  <1>1. Len(b) \in Nat /\ Len(s) \in Nat \ {0}
    BY EmptySeq
  <1>2. find_subsequence(b, s) = IF at = {} THEN 0 ELSE Min(at)
    BY DEF find_subsequence
  <1>3. at # {} => Min(at) \in at /\ \A i \in at : Min(at) <= i
    <2>1. at \subseteq Nat
      BY <1>1
    <2> HIDE DEF at
    <2> QED
      BY <2>1, MinIsLeast
  <1>4. \A i \in at : i \in 1..Len(b) /\ i + Len(s) - 1 <= Len(b) /\ SubSeq(b, i, i + Len(s) - 1) = s
    BY <1>1
  <1>5. \A i \in 1..(Len(b) - Len(s) + 1) : SubSeq(b, i, i + Len(s) - 1) = s => i \in at
    OBVIOUS
  <1> HIDE DEF at
  <1>6. CASE at = {}
    <2>1. f = 0
      BY <1>2, <1>6
    <2>2. f \in 0..Len(b)
      BY <1>1, <2>1
    <2>3. \A i \in 1..(Len(b) - Len(s) + 1) : ~(SubSeq(b, i, i + Len(s) - 1) = s)
      BY <1>5, <1>6
    <2> QED
      BY <2>1, <2>2, <2>3
  <1>7. CASE at # {}
    <2>1. f \in at /\ \A i \in at : f <= i
      BY <1>2, <1>3, <1>7
    <2>2. f \in 1..Len(b) /\ f + Len(s) - 1 <= Len(b) /\ SubSeq(b, f, f + Len(s) - 1) = s
      BY <1>4, <2>1
    <2>3. f \in 0..Len(b) /\ f # 0
      BY <1>1, <2>2
    <2> QED
      BY <1>5, <2>1, <2>2, <2>3
  <1> QED
    BY <1>6, <1>7

LEMMA NoFrameIs ==
  NoFrame \in Pending /\ Total(NoFrame) = 0
  BY DEF NoFrame, Pending, Total, DigestSize

(* What parse_header makes of a header.                                    *)
LEMMA ParsedHeader ==
  ASSUME NEW b, NEW n
  PROVE  /\ parse_header(b, n) \in Pending
         /\ parse_header(b, n) # NoFrame =>
               /\ n = Len(PREFIX) + 2
               /\ parse_header(b, n).header_end = n
               /\ parse_header(b, n).data_size \in 0..MaxUsize
  <1>1. Len(PREFIX) \in Nat
    BY FramingAssumption
  <1>2. CASE n = Len(PREFIX) + 2 /\ b[n - 1] \in DOMAIN Fields
    <2> DEFINE f == Fields[b[n - 1]]
    <2>1. /\ f.data_size \in 0..MaxUsize /\ f.data_size \in Nat
          /\ f.compressed \in BOOLEAN /\ f.use_hash \in BOOLEAN
      BY <1>2, FramingAssumption
    <2>2. parse_header(b, n) = [header_end |-> n, data_size |-> f.data_size,
              compressed |-> f.compressed, use_hash |-> f.use_hash]
      BY <1>2 DEF parse_header
    <2>3. n \in Nat
      BY <1>1, <1>2
    <2> HIDE DEF f
    <2> QED
      BY <1>2, <2>1, <2>2, <2>3 DEF Pending
  <1>3. CASE ~(n = Len(PREFIX) + 2 /\ b[n - 1] \in DOMAIN Fields)
    BY <1>3, NoFrameIs DEF parse_header
  <1> QED
    BY <1>2, <1>3

(* b begins with the header pf.                                            *)
BeginsWith(b, pf) ==
    /\ pf.header_end <= Len(b)
    /\ IsPrefix(PREFIX, b)
    /\ parse_header(b, pf.header_end) = pf

LEMMA FoundHeader ==
  ASSUME NEW b \in Seq(Symbols), NEW h, h = FindHeader(b)
  PROVE  /\ h.buf \in Seq(Symbols) /\ Ends(Symbols, h.buf, b)
         /\ h.pending \in Pending
         /\ h.pending # NoFrame => BeginsWith(h.buf, h.pending)
  <1> DEFINE start == find_subsequence(b, PREFIX)
             c == Skipped(b, start)
             gt == find_subsequence(c, <<">">>)
             pf == parse_header(c, gt)
  <1>1. h = IF start = 0 THEN [buf |-> Kept(b), pending |-> NoFrame]
            ELSE IF gt = 0 THEN [buf |-> c, pending |-> NoFrame]
            ELSE [buf |-> IF pf = NoFrame THEN Tail(c) ELSE c, pending |-> pf]
    BY Zenon DEF FindHeader
  <1>2. /\ PREFIX \in Seq(Symbols) /\ PREFIX # <<>> /\ Len(PREFIX) \in Nat \ {0}
        /\ Len(b) \in Nat
    BY FramingAssumption, EmptySeq
  <1>3. /\ start \in 0..Len(b)
        /\ start # 0 => /\ start + Len(PREFIX) - 1 <= Len(b)
                        /\ SubSeq(b, start, start + Len(PREFIX) - 1) = PREFIX
    BY <1>2, FirstPlace
  <1> HIDE DEF start
  <1>4. CASE start = 0
    <2> DEFINE i == Max({1, Len(b) - Len(PREFIX) + 2})
    <2>1. i = IF 1 >= Len(b) - Len(PREFIX) + 2 THEN 1 ELSE Len(b) - Len(PREFIX) + 2
      BY <1>2, MaxOfTwo
    <2>2. i \in 1..(Len(b) + 1)
      BY <1>2, <2>1
    <2>3. Kept(b) = From(b, i)
      BY DEF Kept
    <2>4. h.buf = Kept(b) /\ h.pending = NoFrame
      BY <1>1, <1>4
    <2> HIDE DEF i
    <2> QED
      BY <2>2, <2>3, <2>4, FromIs, FromEnds, NoFrameIs
  <1>5. CASE start # 0
    <2>1. start \in 1..Len(b) /\ start \in 1..(Len(b) + 1)
      BY <1>2, <1>3, <1>5
    <2>2. c \in Seq(Symbols) /\ Ends(Symbols, c, b) /\ Len(c) = Len(b) - start + 1
      BY <2>1, FromIs, FromEnds DEF Skipped
    <2>3. Len(PREFIX) <= Len(c) /\ c # <<>>
      BY <1>2, <1>3, <1>5, <2>1, <2>2
    <2>4. SubSeq(c, 1, Len(PREFIX)) = PREFIX
      <3>1. /\ Len(b) \in 1..Len(b) /\ 1 \in 1..(Len(b) - start + 1)
            /\ Len(PREFIX) \in 1..(Len(b) - start + 1)
        BY <1>2, <1>3, <1>5, <2>1
      <3>2. SubSeq(SubSeq(b, start, Len(b)), 1, Len(PREFIX))
               = SubSeq(b, start + 1 - 1, start + Len(PREFIX) - 1)
        BY <2>1, <3>1, SubSeqOfSubSeq
      <3>3. start + 1 - 1 = start
        BY <2>1
      <3> QED
        BY <1>3, <1>5, <3>2, <3>3 DEF Skipped, From
    <2>5. IsPrefix(PREFIX, c)
      <3>1. SubSeq(PREFIX, 1, Len(PREFIX)) = PREFIX
        BY <1>2, SubSeqFull
      <3> QED
        BY <2>3, <2>4, <3>1 DEF IsPrefix
    <2>6. gt \in 0..Len(c)
      <3> DEFINE S == Symbols \cup {">"}
      <3>1. c \in Seq(S) /\ <<">">> \in Seq(S) /\ <<">">> # <<>>
        BY <2>2, SeqMonotonic
      <3> HIDE DEF c
      <3> QED
        BY <3>1, FirstPlace
    <2>7. /\ pf \in Pending
          /\ pf # NoFrame => pf.header_end = gt
      BY ParsedHeader
    <2>8. Tail(c) \in Seq(Symbols) /\ Ends(Symbols, Tail(c), b)
      <3> HIDE DEF c
      <3>1. Tail(c) \in Seq(Symbols) /\ Ends(Symbols, Tail(c), c)
        BY <2>2, <2>3, TailEnds
      <3> QED
        BY <2>2, <3>1, EndsTransitive
    <2>9. pf # NoFrame => BeginsWith(c, pf)
      <3> SUFFICES ASSUME pf # NoFrame
                   PROVE  BeginsWith(c, pf)
        OBVIOUS
      <3>1. pf.header_end = gt /\ gt <= Len(c)
        BY <2>2, <2>6, <2>7
      <3>2. parse_header(c, pf.header_end) = pf
        BY <3>1
      <3> QED
        BY <2>5, <3>1, <3>2 DEF BeginsWith
    <2> HIDE DEF c, gt, pf
    <2>10. CASE gt = 0
      BY <1>1, <1>5, <2>2, <2>10, NoFrameIs
    <2>11. CASE gt # 0
      <3>1. h.buf = (IF pf = NoFrame THEN Tail(c) ELSE c) /\ h.pending = pf
        BY <1>1, <1>5, <2>11
      <3> QED
        BY <3>1, <2>2, <2>7, <2>8, <2>9
    <2> QED
      BY <2>10, <2>11
  <1> QED
    BY <1>4, <1>5

LEMMA Wraps ==
  ASSUME NEW n \in Nat
  PROVE  Wrapped(n) \in 0..MaxUsize /\ (n <= MaxUsize => Wrapped(n) = n)
  BY FramingAssumption DEF Wrapped

(* What extracting a frame leaves, and when it panics.                     *)
LEMMA Extracted ==
  ASSUME NEW b \in Seq(Symbols), NEW pf \in Pending, NEW d, d = Extract(b, pf)
  PROVE  /\ d.got \in {"nothing", "panic", "frame", "error"}
         /\ d.got = "nothing" => d.buf = b /\ d.pending = pf
         /\ d.got # "nothing" => d.pending = NoFrame
         /\ d.buf \in Seq(Symbols) /\ Ends(Symbols, d.buf, b)
         /\ d.frame \in Seq(Symbols)
         /\ d.got = "panic" => Total(pf) > MaxUsize
  <1> DEFINE data_end == Wrapped(pf.header_end + pf.data_size)
             digest_end == Wrapped(data_end + DigestSize(pf))
             data == SubSeq(b, pf.header_end + 1, data_end)
             sound == Sound(pf, data, SubSeq(b, data_end + 1, digest_end))
             torn == ~Sliceable(b, pf.header_end, data_end) \/ ~Sliceable(b, data_end, digest_end)
  <1>1. d = IF Len(b) < Needed(pf) THEN Waits(b, pf)
            ELSE IF torn
            THEN [buf |-> b, pending |-> NoFrame, got |-> "panic", frame |-> <<>>]
            ELSE [buf |-> From(b, Needed(pf) + 1), pending |-> NoFrame,
                  got |-> IF sound THEN "frame" ELSE "error",
                  frame |-> IF sound THEN data ELSE <<>>]
    BY Zenon DEF Extract, ExtractThen
  <1>2. /\ pf.header_end \in Nat /\ pf.data_size \in Nat /\ DigestSize(pf) \in Nat
        /\ Len(b) \in Nat /\ Total(pf) \in Nat /\ MaxUsize \in Nat
        /\ Total(pf) = pf.header_end + pf.data_size + DigestSize(pf)
    BY FramingAssumption DEF Pending, DigestSize, Total
  <1>3. Needed(pf) \in Nat /\ data_end \in Nat
    BY <1>2, Wraps DEF Needed
  <1>4. CASE Len(b) < Needed(pf)
    BY <1>1, <1>4, EndsItself DEF Waits
  <1>5. CASE ~(Len(b) < Needed(pf)) /\ torn
    <2>1. d.got = "panic" /\ d.buf = b /\ d.pending = NoFrame /\ d.frame \in Seq(Symbols)
      <3> HIDE DEF torn
      <3> QED
        BY <1>1, <1>5
    <2>2. ASSUME Total(pf) <= MaxUsize
          PROVE  FALSE
      <3>1. /\ pf.header_end + pf.data_size \in Nat
            /\ pf.header_end + pf.data_size <= MaxUsize
        BY <1>2, <2>2
      <3>2. data_end = pf.header_end + pf.data_size
        BY <3>1, Wraps
      <3>3. digest_end = Total(pf)
        <4>1. data_end + DigestSize(pf) = Total(pf)
          BY <1>2, <3>2
        <4> HIDE DEF data_end
        <4> QED
          BY <1>2, <2>2, <4>1, Wraps
      <3>4. Needed(pf) = Total(pf)
        BY <1>2, <2>2, Wraps DEF Needed
      <3> HIDE DEF data_end, digest_end
      <3>5. Total(pf) <= Len(b)
        BY <1>2, <1>5, <3>4
      <3> QED
        BY <1>2, <1>5, <3>2, <3>3, <3>5 DEF Sliceable
    <2> QED
      BY <1>2, <2>1, <2>2, EndsItself
  <1>6. CASE ~(Len(b) < Needed(pf)) /\ ~torn
    <2>1. data \in Seq(Symbols)
      <3>1. data_end <= Len(b)
        BY <1>6 DEF Sliceable
      <3> HIDE DEF data_end
      <3>2. \A i \in (pf.header_end + 1)..data_end : b[i] \in Symbols
        BY <1>2, <1>3, <3>1
      <3> QED
        BY <1>2, <1>3, <3>2, SubSeqProperties
    <2> HIDE DEF torn, sound, data
    <2>2. /\ d.buf = From(b, Needed(pf) + 1) /\ d.pending = NoFrame
          /\ d.got \in {"frame", "error"} /\ d.frame \in Seq(Symbols)
      BY <1>1, <1>6, <2>1
    <2>3. Needed(pf) + 1 \in 1..(Len(b) + 1)
      BY <1>2, <1>3, <1>6
    <2> QED
      BY <2>2, <2>3, FromIs, FromEnds
  <1> QED
    BY <1>4, <1>5, <1>6

(* The two together: what decode leaves, and when it panics.               *)
LEMMA Decoded ==
  ASSUME NEW b \in Seq(Symbols), NEW pf \in Pending, pf # NoFrame => BeginsWith(b, pf),
         NEW d, d = decode(b, pf)
  PROVE  /\ d.got \in {"nothing", "panic", "frame", "error"}
         /\ d.buf \in Seq(Symbols) /\ Ends(Symbols, d.buf, b)
         /\ d.pending \in Pending
         /\ d.pending # NoFrame => BeginsWith(d.buf, d.pending)
         /\ d.frame \in Seq(Symbols)
         /\ d.got = "panic" \/ (d.got = "nothing" /\ Total(d.pending) > MaxUsize) =>
               Total(IF pf = NoFrame THEN FindHeader(b).pending ELSE pf) > MaxUsize
  <1> DEFINE h == IF pf = NoFrame THEN FindHeader(b) ELSE [buf |-> b, pending |-> pf]
             x == IF pf = NoFrame THEN FindHeader(b).pending ELSE pf
  <1>1. d = IF h.pending = NoFrame THEN Waits(h.buf, NoFrame) ELSE Extract(h.buf, h.pending)
    BY Zenon DEF decode
  <1>2. /\ h.buf \in Seq(Symbols) /\ Ends(Symbols, h.buf, b)
        /\ h.pending \in Pending
        /\ h.pending # NoFrame => BeginsWith(h.buf, h.pending)
    <2>1. CASE pf = NoFrame
      <3>1. h = FindHeader(b)
        BY <2>1
      <3> HIDE DEF h
      <3> QED
        BY <3>1, FoundHeader
    <2>2. CASE pf # NoFrame
      BY <2>2, EndsItself
    <2> QED
      BY <2>1, <2>2
  <1>3. h.pending = x
    OBVIOUS
  <1>4. MaxUsize \in Nat
    BY FramingAssumption
  <1> SUFFICES /\ d.got \in {"nothing", "panic", "frame", "error"}
               /\ d.buf \in Seq(Symbols) /\ Ends(Symbols, d.buf, b)
               /\ d.pending \in Pending
               /\ d.pending # NoFrame => BeginsWith(d.buf, d.pending)
               /\ d.frame \in Seq(Symbols)
               /\ d.got = "panic" \/ (d.got = "nothing" /\ Total(d.pending) > MaxUsize) =>
                     Total(x) > MaxUsize
    OBVIOUS
  <1> HIDE DEF h, x
  <1>5. CASE h.pending = NoFrame
    <2>1. /\ d.got = "nothing" /\ d.buf = h.buf /\ d.pending = NoFrame
          /\ d.frame \in Seq(Symbols)
      BY <1>1, <1>5 DEF Waits
    <2>2. ~(Total(d.pending) > MaxUsize)
      BY <1>4, <2>1, NoFrameIs
    <2> QED
      BY <1>2, <2>1, <2>2, NoFrameIs
  <1>6. CASE h.pending # NoFrame
    <2>1. d = Extract(h.buf, h.pending)
      BY <1>1, <1>6
    <2>2. /\ d.got \in {"nothing", "panic", "frame", "error"}
          /\ d.got = "nothing" => d.buf = h.buf /\ d.pending = h.pending
          /\ d.got # "nothing" => d.pending = NoFrame
          /\ d.buf \in Seq(Symbols) /\ Ends(Symbols, d.buf, h.buf)
          /\ d.frame \in Seq(Symbols)
          /\ d.got = "panic" => Total(h.pending) > MaxUsize
      <3> DEFINE c == h.buf
                 p == h.pending
      <3>1. c \in Seq(Symbols) /\ p \in Pending /\ d = Extract(c, p)
        BY <1>2, <2>1
      <3> HIDE DEF c, p
      <3>2. /\ d.got \in {"nothing", "panic", "frame", "error"}
            /\ d.got = "nothing" => d.buf = c /\ d.pending = p
            /\ d.got # "nothing" => d.pending = NoFrame
            /\ d.buf \in Seq(Symbols) /\ Ends(Symbols, d.buf, c)
            /\ d.frame \in Seq(Symbols)
            /\ d.got = "panic" => Total(p) > MaxUsize
        BY <3>1, Extracted
      <3> QED
        BY <3>2 DEF c, p
    <2>3. Ends(Symbols, d.buf, b)
      BY <1>2, <2>2, EndsTransitive
    <2> QED
      BY <1>2, <1>3, <1>6, <2>2, <2>3, NoFrameIs
  <1> QED
    BY <1>5, <1>6

(* A header stays in the buffer while bytes arrive behind it.              *)
LEMMA HeaderStays ==
  ASSUME NEW b \in Seq(Symbols), NEW w \in Seq(Symbols), NEW pf, pf # NoFrame, BeginsWith(b, pf)
  PROVE  BeginsWith(b \o w, pf)
  <1> DEFINE n == pf.header_end
             c == b \o w
  <1>1. /\ PREFIX \in Seq(Symbols) /\ Len(PREFIX) \in Nat \ {0}
        /\ Len(b) \in Nat /\ Len(w) \in Nat
    BY FramingAssumption, EmptySeq
  <1>2. /\ c \in Seq(Symbols) /\ Len(c) = Len(b) + Len(w)
        /\ \A i \in 1..Len(b) : i \in 1..(Len(b) + Len(w)) /\ c[i] = b[i]
    BY <1>1, ConcatProperties
  <1>3. n <= Len(b) /\ IsPrefix(PREFIX, b) /\ parse_header(b, n) = pf
    BY DEF BeginsWith
  <1>4. n = Len(PREFIX) + 2
    BY <1>3, ParsedHeader
  <1>5. n <= Len(c) /\ n - 1 \in 1..Len(b)
    BY <1>1, <1>2, <1>3, <1>4
  <1>6. IsPrefix(PREFIX, c)
    <2>1. Len(PREFIX) <= Len(b) /\ SubSeq(PREFIX, 1, Len(PREFIX)) = SubSeq(b, 1, Len(PREFIX))
      BY <1>3 DEF IsPrefix
    <2>2. 1 \in 1..Len(b) /\ Len(PREFIX) \in 1..Len(b)
      BY <1>1, <2>1
    <2>3. SubSeq(c, 1, Len(PREFIX)) = SubSeq(b, 1, Len(PREFIX))
      BY <2>2, SubSeqOfConcat1
    <2> QED
      BY <1>1, <1>2, <2>1, <2>3 DEF IsPrefix
  <1>7. parse_header(c, n) = parse_header(b, n)
    <2>1. c[n - 1] = b[n - 1]
      BY <1>2, <1>5
    <2> HIDE DEF c, n
    <2> QED
      BY <2>1, Zenon DEF parse_header
  <1> QED
    BY <1>3, <1>5, <1>6, <1>7 DEF BeginsWith

-----------------------------------------------------------------------------
(* The codec at an intact frame: b is what has arrived of it (and more).   *)

HeaderFor(t) == [header_end |-> HeadLen, data_size |-> Fields[t].data_size,
                 compressed |-> Fields[t].compressed, use_hash |-> Fields[t].use_hash]

LEMMA HeaderForIs ==
  ASSUME NEW t \in DOMAIN Fields
  PROVE  /\ HeaderFor(t) \in Pending /\ HeaderFor(t) # NoFrame
         /\ DigestSize(HeaderFor(t)) = DigestSize(Fields[t])
         /\ DigestSize(Fields[t]) \in Nat
         /\ HeadLen \in Nat /\ HeadLen > 1 /\ Len(PREFIX) \in Nat \ {0} /\ HeadLen = Len(PREFIX) + 2
         /\ \A b : b[HeadLen - 1] = t => parse_header(b, HeadLen) = HeaderFor(t)
  <1>1. Len(PREFIX) \in Nat \ {0}
    BY FramingAssumption, EmptySeq
  <1>2. HeadLen \in Nat /\ HeadLen > 1 /\ HeadLen # 0
    BY <1>1 DEF HeadLen
  <1>3. /\ Fields[t].data_size \in Nat /\ Fields[t].compressed \in BOOLEAN
        /\ Fields[t].use_hash \in BOOLEAN /\ HASH_SIZE \in Nat
    BY FramingAssumption
  <1>4. HeaderFor(t).header_end # NoFrame.header_end
    BY <1>2 DEF HeaderFor, NoFrame
  <1>5. \A b : b[HeadLen - 1] = t => parse_header(b, HeadLen) = HeaderFor(t)
    BY DEF parse_header, HeaderFor, HeadLen
  <1>6. HeaderFor(t) \in Pending
    BY <1>2, <1>3 DEF HeaderFor, Pending
  <1>7. DigestSize(HeaderFor(t)) = DigestSize(Fields[t]) /\ DigestSize(Fields[t]) \in Nat
    BY <1>3 DEF DigestSize, HeaderFor
  <1> QED
    BY <1>1, <1>2, <1>4, <1>5, <1>6, <1>7 DEF HeadLen

(* It is no shorter than its header.                                       *)
LEMMA FrameIsLong ==
  ASSUME NEW item \in Item, IsIntact(item) \/ IsRejected(item)
  PROVE  0 < Len(item.bytes)
  <1>1. PICK x, t : x \in Item /\ x.bytes = item.bytes /\ LaidOut(x, t)
    BY IntactIsLaidOut, RejectedIsLaidOut
  <1>2. /\ t \in DOMAIN Fields
        /\ Len(item.bytes) = HeadLen + Len(x.payload) + DigestSize(Fields[t])
    BY <1>1 DEF LaidOut
  <1>3. Len(x.payload) \in Nat
    BY DEF Item
  <1> QED
    BY <1>2, <1>3, HeaderForIs

LEMMA SliceOfOne ==
  ASSUME NEW S, NEW b \in Seq(S), NEW i \in 1..Len(b)
  PROVE  SubSeq(b, i, i) = <<b[i]>>
  <1>1. \A j \in i..i : b[j] \in S
    OBVIOUS
  <1>2. i \in Int /\ i - i + 1 = 1
    OBVIOUS
  <1>3. /\ SubSeq(b, i, i) \in Seq(S) /\ Len(SubSeq(b, i, i)) = 1
        /\ SubSeq(b, i, i)[1] = b[i]
    <2>1. /\ SubSeq(b, i, i) \in Seq(S) /\ Len(SubSeq(b, i, i)) = IF i <= i THEN i - i + 1 ELSE 0
          /\ \A j \in 1..(i - i + 1) : SubSeq(b, i, i)[j] = b[i + j - 1]
      BY <1>1, <1>2, SubSeqProperties
    <2>2. 1 \in 1..(i - i + 1) /\ i + 1 - 1 = i
      BY <1>2
    <2> QED
      BY <1>2, <2>1, <2>2
  <1>4. <<b[i]>> \in Seq(S) /\ Len(<<b[i]>>) = 1 /\ <<b[i]>>[1] = b[i]
    OBVIOUS
  <1> DEFINE x == SubSeq(b, i, i)
             y == <<b[i]>>
  <1>5. /\ x \in Seq(S) /\ y \in Seq(S) /\ Len(x) = Len(y)
        /\ \A j \in 1..Len(x) : j = 1
        /\ x[1] = y[1]
    BY <1>3, <1>4
  <1> HIDE DEF x, y
  <1>6. x = y
    BY <1>5, SeqEqual
  <1> QED
    BY <1>6 DEF x, y

(* b begins with the frame, or is a part of it.                            *)
Starts(b, item, t) ==
    /\ item \in Item /\ LaidOut(item, t) /\ b \in Seq(Symbols)
    /\ \E w, r \in Seq(Symbols) : b \o w = item.bytes \o r

LEMMA StartsElement ==
  ASSUME NEW b, NEW item, NEW t, Starts(b, item, t),
         NEW i \in Nat \ {0}, i <= Len(b), i <= Len(item.bytes)
  PROVE  b[i] = item.bytes[i]
  <1>1. item.bytes \in Seq(Symbols) /\ b \in Seq(Symbols)
    BY DEF Starts, Item
  <1>2. PICK w \in Seq(Symbols), r \in Seq(Symbols) : b \o w = item.bytes \o r
    BY DEF Starts
  <1> QED
    BY <1>1, <1>2, SameElement

LEMMA StartsSlice ==
  ASSUME NEW b, NEW item, NEW t, Starts(b, item, t),
         NEW m \in Nat \ {0}, NEW n \in Nat, n <= Len(b), n <= Len(item.bytes)
  PROVE  SubSeq(b, m, n) = SubSeq(item.bytes, m, n)
  <1>1. item.bytes \in Seq(Symbols) /\ b \in Seq(Symbols)
    BY DEF Starts, Item
  <1>2. PICK w \in Seq(Symbols), r \in Seq(Symbols) : b \o w = item.bytes \o r
    BY DEF Starts
  <1> QED
    BY <1>1, <1>2, SameSlice

(* The header is found as soon as it is there.                             *)
LEMMA InStepHeader ==
  ASSUME NEW b, NEW item, NEW t, Starts(b, item, t),
         NEW h, h = FindHeader(b)
  PROVE  h.buf = b /\ h.pending = IF Len(b) < HeadLen THEN NoFrame ELSE HeaderFor(t)
  <1> DEFINE B == item.bytes
             P == PREFIX
             start == find_subsequence(b, P)
             c == Skipped(b, start)
             gt == find_subsequence(c, <<">">>)
             pf == parse_header(c, gt)
  <1>1. h = IF start = 0 THEN [buf |-> Kept(b), pending |-> NoFrame]
            ELSE IF gt = 0 THEN [buf |-> c, pending |-> NoFrame]
            ELSE [buf |-> IF pf = NoFrame THEN Tail(c) ELSE c, pending |-> pf]
    BY Zenon DEF FindHeader
  <1>2. /\ t \in DOMAIN Fields
        /\ B \in Seq(Symbols) /\ Len(B) \in Nat /\ Len(b) \in Nat
        /\ P \in Seq(Symbols) /\ P # <<>> /\ b \in Seq(Symbols)
    BY FramingAssumption DEF Starts, LaidOut, Item
  <1>3. /\ HeaderFor(t) # NoFrame
        /\ HeadLen \in Nat /\ HeadLen > 1 /\ Len(P) \in Nat \ {0} /\ HeadLen = Len(P) + 2
        /\ HeadLen <= Len(B)
    <2>1. Len(B) = HeadLen + Len(item.payload) + DigestSize(Fields[t])
      BY DEF Starts, LaidOut
    <2>2. Len(item.payload) \in Nat
      BY DEF Starts, Item
    <2> QED
      BY <1>2, <2>1, <2>2, HeaderForIs
  <1>4. SubSeq(B, 1, Len(P)) = P /\ B[HeadLen - 1] = t /\ B[HeadLen] = ">"
    BY DEF Starts, LaidOut
  <1>5. \A i \in Nat \ {0} : i <= Len(b) /\ i <= Len(B) => b[i] = B[i]
    BY StartsElement
  <1>6. SubSeq(b, 1, Len(b)) = b /\ From(b, 1) = b
    BY <1>2, SubSeqFull DEF From
  <1>7. /\ start \in 0..Len(b)
        /\ start # 0 => start + Len(P) - 1 <= Len(b)
        /\ \A i \in 1..(Len(b) - Len(P) + 1) :
              SubSeq(b, i, i + Len(P) - 1) = P => start # 0 /\ start <= i
    BY <1>2, FirstPlace
  <1>8. CASE Len(b) < Len(P)
    <2> HIDE DEF start, c, gt, pf
    <2>1. start = 0
      BY <1>2, <1>3, <1>7, <1>8
    <2>2. Max({1, Len(b) - Len(P) + 2}) = 1
      <3>1. Len(b) - Len(P) + 2 \in Int /\ 1 >= Len(b) - Len(P) + 2
        BY <1>2, <1>3, <1>8
      <3> QED
        BY <3>1, MaxOfTwo
    <2>3. Kept(b) = b
      BY <1>6, <2>2 DEF Kept
    <2>4. Len(b) < HeadLen
      BY <1>2, <1>3, <1>8
    <2> QED
      BY <1>1, <2>1, <2>3, <2>4
  <1>9. CASE Len(P) <= Len(b)
    <2>1. start = 1
      <3>1. 1 \in 1..(Len(b) - Len(P) + 1) /\ 1 + Len(P) - 1 = Len(P) /\ Len(P) <= Len(B)
        BY <1>2, <1>3, <1>9
      <3>2. SubSeq(b, 1, Len(P)) = SubSeq(B, 1, Len(P))
        <4> DEFINE l == Len(P)
                   m == 1
        <4>1. m \in Nat \ {0} /\ l \in Nat /\ l <= Len(b) /\ l <= Len(B)
          BY <1>2, <1>3, <1>9, <3>1
        <4> HIDE DEF l, m
        <4>2. SubSeq(b, m, l) = SubSeq(B, m, l)
          BY <4>1, StartsSlice
        <4> QED
          BY <4>2 DEF l, m
      <3>3. SubSeq(b, 1, 1 + Len(P) - 1) = P
        BY <1>4, <3>1, <3>2
      <3> HIDE DEF start
      <3>4. start # 0 /\ start <= 1
        BY <1>7, <3>1, <3>3, Zenon
      <3> QED
        BY <1>2, <1>7, <3>4
    <2>2. c = b
      BY <1>6, <2>1 DEF Skipped
    <2> HIDE DEF start, c
    <2>3. /\ gt \in 0..Len(b)
          /\ gt # 0 => b[gt] = ">"
          /\ \A i \in 1..Len(b) : b[i] = ">" => gt # 0 /\ gt <= i
      <3> DEFINE S == Symbols \cup {">"}
                 g == <<">">>
      <3>1. b \in Seq(S) /\ g \in Seq(S) /\ g # <<>> /\ Len(g) = 1
        BY <1>2, SeqMonotonic
      <3>2. \A i \in 1..Len(b) : i + Len(g) - 1 = i /\ SubSeq(b, i, i) = <<b[i]>>
        BY <1>2, <3>1, SliceOfOne
      <3>3. gt = find_subsequence(b, g)
        BY <2>2
      <3> HIDE DEF S, gt, g
      <3>4. /\ gt \in 0..Len(b)
            /\ gt # 0 => SubSeq(b, gt, gt + Len(g) - 1) = g
            /\ \A i \in 1..(Len(b) - Len(g) + 1) :
                  SubSeq(b, i, i + Len(g) - 1) = g => gt # 0 /\ gt <= i
        <4>1. \A f : f = find_subsequence(b, g) =>
                 /\ f \in 0..Len(b)
                 /\ f # 0 => /\ f + Len(g) - 1 <= Len(b)
                             /\ SubSeq(b, f, f + Len(g) - 1) = g
                 /\ \A i \in 1..(Len(b) - Len(g) + 1) :
                       SubSeq(b, i, i + Len(g) - 1) = g => f # 0 /\ f <= i
          BY <3>1, FirstPlace
        <4> QED
          BY <3>3, <4>1, Zenon
      <3>5. Len(b) - Len(g) + 1 = Len(b) /\ (gt # 0 => gt \in 1..Len(b))
        BY <1>2, <3>1, <3>4
      <3>6. gt # 0 => b[gt] = ">"
        BY <3>2, <3>4, <3>5 DEF g
      <3>7. \A i \in 1..Len(b) : b[i] = ">" => gt # 0 /\ gt <= i
        BY <3>2, <3>4, <3>5 DEF g
      <3> QED
        BY <3>4, <3>6, <3>7
    <2> HIDE DEF gt
    <2>4. \A i \in 1..Len(b) : i < HeadLen => b[i] # ">"
      <3> SUFFICES ASSUME NEW i \in 1..Len(b), i < HeadLen
                   PROVE  b[i] # ">"
        OBVIOUS
      <3>1. b[i] = B[i] /\ i \in Nat \ {0}
        BY <1>2, <1>3, <1>5
      <3>2. CASE i = HeadLen - 1
        BY <1>2, <1>4, <3>1, <3>2, FramingAssumption
      <3>3. CASE i # HeadLen - 1
        <4>1. i \in 1..Len(P)
          BY <1>3, <3>1, <3>3
        <4>2. SubSeq(B, 1, Len(P))[i] = B[i]
          <5>1. \A j \in 1..Len(P) : B[j] \in Symbols
            BY <1>2, <1>3
          <5>2. 1 \in Int /\ Len(P) \in Int /\ i \in 1..(Len(P) - 1 + 1) /\ 1 + i - 1 = i
            BY <1>3, <4>1
          <5>3. \A j \in 1..(Len(P) - 1 + 1) : SubSeq(B, 1, Len(P))[j] = B[1 + j - 1]
            BY <5>1, <5>2, SubSeqProperties
          <5> QED
            BY <5>2, <5>3
        <4>3. P[i] \in Range(P)
          BY <1>2, <4>1, RangeEquality
        <4> QED
          BY <1>4, <3>1, <4>2, <4>3, FramingAssumption
      <3> QED
        BY <3>2, <3>3
    <2>5. CASE Len(b) < HeadLen
      <3>1. gt = 0
        <4>1. gt # 0 => gt \in 1..Len(b) /\ gt < HeadLen
          BY <1>2, <1>3, <2>3, <2>5
        <4> QED
          BY <2>3, <2>4, <4>1
      <3> HIDE DEF pf
      <3> QED
        BY <1>1, <2>1, <2>2, <2>5, <3>1
    <2>6. CASE HeadLen <= Len(b)
      <3>1. HeadLen \in 1..Len(b) /\ HeadLen - 1 \in Nat \ {0} /\ HeadLen - 1 <= Len(b) /\ HeadLen - 1 <= Len(B)
        BY <1>2, <1>3, <2>6
      <3>2. b[HeadLen] = ">" /\ b[HeadLen - 1] = t
        BY <1>3, <1>4, <1>5, <3>1
      <3>3. gt # 0 /\ gt <= HeadLen
        BY <2>3, <3>1, <3>2
      <3>4. gt = HeadLen
        <4>1. gt \in 1..Len(b) /\ b[gt] = ">"
          BY <1>2, <2>3, <3>3
        <4> QED
          BY <1>3, <2>4, <3>3, <4>1
      <3>5. pf = HeaderFor(t)
        BY <1>2, <2>2, <3>2, <3>4, HeaderForIs
      <3>6. ~(Len(b) < HeadLen)
        BY <1>2, <1>3, <2>6
      <3> HIDE DEF pf
      <3> QED
        BY <1>1, <1>3, <2>1, <2>2, <3>3, <3>5, <3>6
    <2> QED
      BY <1>2, <1>3, <2>5, <2>6
  <1> QED
    BY <1>2, <1>3, <1>8, <1>9

(* The frame is taken as soon as it is whole, and is what was sent.        *)
LEMMA InStepExtract ==
  ASSUME NEW b, NEW item, NEW t, Starts(b, item, t),
         NEW d, d = Extract(b, HeaderFor(t))
  PROVE  IF Len(b) < Len(item.bytes) THEN d = Waits(b, HeaderFor(t))
         ELSE /\ d.got = IF Verified(item, t) THEN "frame" ELSE "error"
              /\ Verified(item, t) => d.frame = item.payload
              /\ d.buf = From(b, Len(item.bytes) + 1)
  <1> DEFINE B == item.bytes
             pf == HeaderFor(t)
             n == Len(item.payload)
             k == DigestSize(Fields[t])
             data_end == Wrapped(pf.header_end + pf.data_size)
             digest_end == Wrapped(data_end + DigestSize(pf))
             data == SubSeq(b, pf.header_end + 1, data_end)
             digest == SubSeq(b, data_end + 1, digest_end)
             sound == Sound(pf, data, digest)
             torn == ~Sliceable(b, pf.header_end, data_end) \/ ~Sliceable(b, data_end, digest_end)
  <1>1. d = IF Len(b) < Needed(pf) THEN Waits(b, pf)
            ELSE IF torn
            THEN [buf |-> b, pending |-> NoFrame, got |-> "panic", frame |-> <<>>]
            ELSE [buf |-> From(b, Needed(pf) + 1), pending |-> NoFrame,
                  got |-> IF sound THEN "frame" ELSE "error",
                  frame |-> IF sound THEN data ELSE <<>>]
    BY Zenon DEF Extract, ExtractThen
  <1>2. /\ t \in DOMAIN Fields
        /\ B \in Seq(Symbols) /\ Len(B) \in Nat /\ Len(b) \in Nat /\ n \in Nat
    BY DEF Starts, LaidOut, Item
  <1>3. /\ HeadLen \in Nat /\ k \in Nat /\ DigestSize(pf) = k
        /\ pf.header_end = HeadLen /\ pf.data_size = n
        /\ pf.use_hash = Fields[t].use_hash /\ pf.compressed = Fields[t].compressed
    BY <1>2, HeaderForIs DEF HeaderFor, Starts, LaidOut
  <1>4. /\ Len(B) = HeadLen + n + k /\ Len(B) <= MaxUsize
        /\ SubSeq(B, HeadLen + 1, HeadLen + n) = item.payload
    BY DEF Starts, LaidOut
  <1>5. MaxUsize \in Nat
    BY FramingAssumption
  <1>6. data_end = HeadLen + n
    <2>1. HeadLen + n \in Nat /\ HeadLen + n <= MaxUsize
      BY <1>2, <1>3, <1>4, <1>5
    <2> QED
      BY <1>3, <2>1, Wraps
  <1>7. digest_end = Len(B)
    <2>1. data_end + DigestSize(pf) = Len(B)
      BY <1>3, <1>4, <1>6
    <2> HIDE DEF data_end
    <2> QED
      BY <1>2, <1>4, <2>1, Wraps
  <1>8. Needed(pf) = Len(B)
    <2>1. Total(pf) = Len(B)
      BY <1>3, <1>4 DEF Total
    <2> QED
      BY <1>2, <1>4, <2>1, Wraps DEF Needed
  <1> HIDE DEF data_end, digest_end, pf
  <1>9. CASE Len(b) < Len(B)
    BY <1>1, <1>8, <1>9 DEF pf
  <1>10. CASE ~(Len(b) < Len(B))
    <2>1. Len(B) <= Len(b)
      BY <1>2, <1>10
    <2>2. /\ HeadLen <= HeadLen + n /\ HeadLen + n <= Len(B)
          /\ HeadLen + n <= Len(b) /\ HeadLen + 1 \in Nat \ {0} /\ HeadLen + n \in Nat
          /\ HeadLen + n + 1 \in Nat \ {0}
      <3> DEFINE l == Len(B)
                 x == Len(b)
      <3>1. l \in Nat /\ x \in Nat /\ n \in Nat /\ k \in Nat /\ HeadLen \in Nat /\ l <= x /\ l = HeadLen + n + k
        BY <1>2, <1>3, <1>4, <2>1
      <3> HIDE DEF l, n, k, x
      <3>2. /\ HeadLen <= HeadLen + n /\ HeadLen + n <= l
            /\ HeadLen + n <= x /\ HeadLen + 1 \in Nat \ {0} /\ HeadLen + n \in Nat
            /\ HeadLen + n + 1 \in Nat \ {0}
        BY <3>1
      <3> QED
        BY <3>2 DEF l, x
    <2>7. ~torn
      BY <1>3, <1>6, <1>7, <2>1, <2>2 DEF Sliceable
    <2>3. data = item.payload
      <3> DEFINE m == HeadLen + 1
                 j == HeadLen + n
      <3>1. m \in Nat \ {0} /\ j \in Nat /\ j <= Len(b) /\ j <= Len(B)
        BY <1>2, <2>1, <2>2
      <3> HIDE DEF m, j
      <3>2. SubSeq(b, m, j) = SubSeq(B, m, j)
        BY <3>1, StartsSlice
      <3> QED
        BY <1>3, <1>4, <1>6, <3>2 DEF m, j
    <2>4. digest = DigestIn(item)
      <3> DEFINE m == HeadLen + n + 1
                 j == Len(B)
      <3>1. m \in Nat \ {0} /\ j \in Nat /\ j <= Len(b) /\ j <= Len(B)
        BY <1>2, <2>1, <2>2
      <3> HIDE DEF m, j
      <3>2. SubSeq(b, m, j) = SubSeq(B, m, j)
        BY <3>1, StartsSlice
      <3> QED
        BY <1>4, <1>6, <1>7, <3>2 DEF m, j, DigestIn
    <2>5. sound <=> Verified(item, t)
      BY <1>3, <2>3, <2>4 DEF Sound, Verified
    <2> HIDE DEF torn, sound, data
    <2>6. d = [buf |-> From(b, Needed(pf) + 1), pending |-> NoFrame,
               got |-> IF Verified(item, t) THEN "frame" ELSE "error",
               frame |-> IF Verified(item, t) THEN data ELSE <<>>]
      BY <1>1, <1>8, <1>10, <2>5, <2>7
    <2> QED
      BY <1>8, <1>10, <2>3, <2>6
  <1> QED
    BY <1>9, <1>10

(* The codec at an intact frame.                                           *)
LEMMA InStep ==
  ASSUME NEW item \in Item, NEW t, LaidOut(item, t),
         NEW b \in Seq(Symbols), Starts(b, item, t),
         NEW pf \in Pending, pf # NoFrame => BeginsWith(b, pf),
         NEW d, d = decode(b, pf)
  PROVE  IF Len(b) < Len(item.bytes)
         THEN d.got = "nothing" /\ d.buf = b /\ ~(Total(d.pending) > MaxUsize)
         ELSE /\ d.got = IF Verified(item, t) THEN "frame" ELSE "error"
              /\ Verified(item, t) => d.frame = item.payload
              /\ d.buf = From(b, Len(item.bytes) + 1)
  <1> DEFINE h == IF pf = NoFrame THEN FindHeader(b) ELSE [buf |-> b, pending |-> pf]
  <1>1. d = IF h.pending = NoFrame THEN Waits(h.buf, NoFrame) ELSE Extract(h.buf, h.pending)
    BY Zenon DEF decode
  <1>2. /\ t \in DOMAIN Fields /\ item.bytes \in Seq(Symbols)
        /\ Len(item.bytes) \in Nat /\ Len(b) \in Nat
        /\ item.bytes[HeadLen - 1] = t
        /\ MaxUsize \in Nat /\ Len(item.bytes) <= MaxUsize
    BY FramingAssumption DEF LaidOut, Item
  <1>3. /\ HeadLen \in Nat /\ HeadLen > 1 /\ HeadLen <= Len(item.bytes)
        /\ Total(HeaderFor(t)) = Len(item.bytes)
    <2>1. /\ Len(item.bytes) = HeadLen + Len(item.payload) + DigestSize(Fields[t])
          /\ Fields[t].data_size = Len(item.payload)
      BY DEF LaidOut
    <2>2. Len(item.payload) \in Nat
      BY DEF Item
    <2>3. /\ HeadLen \in Nat /\ HeadLen > 1 /\ DigestSize(Fields[t]) \in Nat
          /\ DigestSize(HeaderFor(t)) = DigestSize(Fields[t])
          /\ HeaderFor(t).header_end = HeadLen
          /\ HeaderFor(t).data_size = Len(item.payload)
      BY <1>2, <2>1, HeaderForIs DEF HeaderFor
    <2> QED
      BY <2>1, <2>2, <2>3 DEF Total
  <1>4. h.buf = b /\ h.pending = IF Len(b) < HeadLen THEN NoFrame ELSE HeaderFor(t)
    <2>1. CASE pf = NoFrame
      <3>1. h = FindHeader(b)
        BY <2>1
      <3> HIDE DEF h
      <3> QED
        BY <3>1, InStepHeader
    <2>2. CASE pf # NoFrame
      <3>1. pf.header_end <= Len(b) /\ parse_header(b, pf.header_end) = pf
        BY <2>2 DEF BeginsWith
      <3>2. pf.header_end = HeadLen
        BY <2>2, <3>1, ParsedHeader DEF HeadLen
      <3>3. HeadLen <= Len(b) /\ parse_header(b, HeadLen) = pf
        BY <3>1, <3>2
      <3>4. b[HeadLen - 1] = t
        <4> DEFINE i == HeadLen - 1
        <4>1. i \in Nat \ {0} /\ i <= Len(b) /\ i <= Len(item.bytes)
          BY <1>2, <1>3, <3>3
        <4> HIDE DEF i
        <4>2. b[i] = item.bytes[i]
          BY <4>1, StartsElement
        <4> QED
          BY <1>2, <4>2 DEF i
      <3>5. pf = HeaderFor(t)
        BY <1>2, <3>3, <3>4, HeaderForIs
      <3>6. ~(Len(b) < HeadLen)
        BY <1>2, <1>3, <3>3
      <3> QED
        BY <2>2, <3>5, <3>6
    <2> QED
      BY <2>1, <2>2
  <1> HIDE DEF h
  <1>5. CASE Len(b) < HeadLen
    <2>1. d = Waits(b, NoFrame) /\ Len(b) < Len(item.bytes)
      BY <1>1, <1>2, <1>3, <1>4, <1>5
    <2>2. d.got = "nothing" /\ d.buf = b /\ d.pending = NoFrame
      BY <2>1 DEF Waits
    <2>3. ~(Total(d.pending) > MaxUsize)
      BY <1>2, <2>2, NoFrameIs
    <2> QED
      BY <2>1, <2>2, <2>3
  <1>6. CASE ~(Len(b) < HeadLen)
    <2>1. d = Extract(b, HeaderFor(t))
      BY <1>1, <1>2, <1>4, <1>6, HeaderForIs
    <2>2. IF Len(b) < Len(item.bytes) THEN d = Waits(b, HeaderFor(t))
          ELSE /\ d.got = IF Verified(item, t) THEN "frame" ELSE "error"
               /\ Verified(item, t) => d.frame = item.payload
               /\ d.buf = From(b, Len(item.bytes) + 1)
      BY <2>1, InStepExtract
    <2>3. ~(Total(HeaderFor(t)) > MaxUsize)
      BY <1>2, <1>3
    <2> QED
      BY <2>2, <2>3 DEF Waits
  <1> QED
    BY <1>5, <1>6

(* The codec when nothing has arrived.                                     *)
LEMMA Idle ==
  ASSUME NEW pf \in Pending, pf # NoFrame => BeginsWith(<<>>, pf), NEW d, d = decode(<<>>, pf)
  PROVE  d.got = "nothing" /\ d.buf = <<>> /\ ~(Total(d.pending) > MaxUsize)
  <1>1. Len(PREFIX) \in Nat \ {0} /\ PREFIX \in Seq(Symbols) /\ MaxUsize \in Nat /\ PREFIX # <<>>
    BY FramingAssumption, EmptySeq
  <1>2. pf = NoFrame
    <2> SUFFICES ASSUME pf # NoFrame
                 PROVE  FALSE
      OBVIOUS
    <2>1. pf.header_end <= 0 /\ parse_header(<<>>, pf.header_end) = pf
      BY DEF BeginsWith
    <2>2. pf.header_end = Len(PREFIX) + 2
      BY <2>1, ParsedHeader
    <2> QED
      BY <1>1, <2>1, <2>2
  <1> DEFINE e == <<>>
             start == find_subsequence(e, PREFIX)
  <1>3. e \in Seq(Symbols) /\ Len(e) = 0
    OBVIOUS
  <1>4. start = 0
    <2>1. start \in 0..Len(e)
      BY <1>1, <1>3, FirstPlace
    <2> QED
      BY <1>3, <2>1
  <1>5. FindHeader(e) = [buf |-> Kept(e), pending |-> NoFrame]
    BY <1>4 DEF FindHeader
  <1>6. Kept(e) = e
    <2>1. Kept(e) = SubSeq(e, Max({1, Len(e) - Len(PREFIX) + 2}), Len(e))
      BY DEF Kept, From
    <2>2. Len(e) - Len(PREFIX) + 2 \in Int /\ 1 >= Len(e) - Len(PREFIX) + 2
      BY <1>1, <1>3
    <2>3. Max({1, Len(e) - Len(PREFIX) + 2}) = 1
      BY <2>2, MaxOfTwo
    <2>4. SubSeq(e, 1, 0) = e
      BY SubSeqEmpty
    <2> QED
      BY <1>3, <2>1, <2>3, <2>4
  <1>7. d = Waits(e, NoFrame)
    BY <1>2, <1>5, <1>6 DEF decode
  <1> QED
    BY <1>1, <1>7, NoFrameIs DEF Waits

-----------------------------------------------------------------------------
(* The state machine.                                                      *)

(* TypeOK, with the sequences' elements; the header that is remembered is  *)
(* in the buffer; and a panic has its cause in it.                         *)
FrameInvariant ==
    /\ script \in Scripts
    /\ buf \in Seq(Symbols) /\ wire \in Seq(Symbols)
    /\ pending \in Pending
    /\ readable \in BOOLEAN /\ eof \in BOOLEAN
    /\ ended \in {"no", "closed", "error", "panicked"}
    /\ Ends(Symbols, buf \o wire, BytesOf(script))
    /\ pending # NoFrame => BeginsWith(buf, pending)
    /\ PanicsOnlyOnOverflow

(* What clients write is a sequence of symbols.                            *)
LEMMA BytesAreSymbols ==
  ASSUME NEW s \in Scripts
  PROVE  /\ Len(s) \in Nat /\ s \in Seq(Item)
         /\ [i \in 1..Len(s) |-> s[i].bytes] \in Seq(Seq(Symbols))
         /\ BytesOf(s) \in Seq(Symbols)
  <1>1. s \in Seq(Item) /\ Len(s) \in Nat
    BY FramingAssumption
  <1>2. \A i \in 1..Len(s) : s[i].bytes \in Seq(Symbols)
    <2>1. \A i \in 1..Len(s) : s[i] \in Item
      BY <1>1
    <2>2. \A x \in Item : x.bytes \in Seq(Symbols)
      BY DEF Item
    <2> QED
      BY <2>1, <2>2
  <1>3. [i \in 1..Len(s) |-> s[i].bytes] \in Seq(Seq(Symbols))
    BY <1>1, <1>2
  <1> QED
    BY <1>1, <1>3, FlattenIsSeq DEF BytesOf

LEMMA FrameInit == Init => FrameInvariant
  <1> SUFFICES ASSUME Init
               PROVE  FrameInvariant
    OBVIOUS
  <1>1. BytesOf(script) \in Seq(Symbols)
    BY BytesAreSymbols DEF Init
  <1>2. buf \o wire = BytesOf(script)
    BY <1>1, ConcatEmptySeq DEF Init
  <1>3. Ends(Symbols, buf \o wire, BytesOf(script))
    BY <1>1, <1>2, EndsItself
  <1>4. buf \in Seq(Symbols) /\ wire \in Seq(Symbols)
    BY <1>1 DEF Init
  <1>5. script \in Scripts /\ pending = NoFrame /\ ended = "no" /\ readable = FALSE /\ eof = FALSE
    BY DEF Init
  <1> QED
    BY <1>3, <1>4, <1>5, NoFrameIs DEF FrameInvariant, PanicsOnlyOnOverflow

(* A call of the codec that does not panic.                                *)
LEMMA DecodeStep ==
  ASSUME FrameInvariant, NEW d, d = decode(buf, pending),
         buf' = d.buf, pending' = d.pending, UNCHANGED <<script, wire, eof>>,
         readable' \in BOOLEAN, ended' \in {"no", "closed", "error"}
  PROVE  FrameInvariant'
  <1>1. /\ d.buf \in Seq(Symbols) /\ Ends(Symbols, d.buf, buf)
        /\ d.pending \in Pending
        /\ d.pending # NoFrame => BeginsWith(d.buf, d.pending)
    BY Decoded DEF FrameInvariant
  <1>2. Ends(Symbols, d.buf \o wire, BytesOf(script))
    BY <1>1, EndsDropped DEF FrameInvariant
  <1>3. Ends(Symbols, buf' \o wire', BytesOf(script'))
    BY <1>2
  <1>4. (pending # NoFrame => BeginsWith(buf, pending))'
    BY <1>1 DEF BeginsWith
  <1>5. PanicsOnlyOnOverflow'
    BY DEF PanicsOnlyOnOverflow
  <1> QED
    BY <1>1, <1>3, <1>4, <1>5 DEF FrameInvariant

LEMMA FrameStep == FrameInvariant /\ [Next]_streamVars => FrameInvariant'
  <1> SUFFICES ASSUME FrameInvariant, [Next]_streamVars
               PROVE  FrameInvariant'
    OBVIOUS
  <1>1. CASE Read
    <2>1. PICK n \in 1..Len(wire) :
             buf' = buf \o SubSeq(wire, 1, n) /\ wire' = From(wire, n + 1)
      BY <1>1 DEF Read
    <2>2. n + 1 \in 1..(Len(wire) + 1) /\ buf \in Seq(Symbols) /\ wire \in Seq(Symbols)
      BY DEF FrameInvariant
    <2>3. SubSeq(wire, 1, n) \in Seq(Symbols) /\ wire' \in Seq(Symbols)
      <3>1. \A i \in 1..n : wire[i] \in Symbols
        BY <2>2
      <3>2. SubSeq(wire, 1, n) \in Seq(Symbols)
        BY <3>1, SubSeqProperties
      <3> QED
        BY <2>1, <2>2, <3>2, FromIs
    <2>4. buf' \in Seq(Symbols)
      BY <2>1, <2>2, <2>3, ConcatProperties
    <2>5. buf' \o wire' = buf \o wire
      BY <2>1, <2>2, Arrival
    <2>6. (pending # NoFrame => BeginsWith(buf, pending))'
      <3>1. pending # NoFrame => BeginsWith(buf \o SubSeq(wire, 1, n), pending)
        BY <2>2, <2>3, HeaderStays DEF FrameInvariant
      <3> QED
        BY <1>1, <2>1, <3>1 DEF Read, BeginsWith
    <2> QED
      BY <1>1, <2>3, <2>4, <2>5, <2>6 DEF Read, FrameInvariant, PanicsOnlyOnOverflow
  <1>2. CASE ReadEnd
    BY <1>2 DEF ReadEnd, FrameInvariant, PanicsOnlyOnOverflow, BeginsWith
  <1>3. CASE DecodeFrame
    BY <1>3, DecodeStep DEF DecodeFrame, FrameInvariant
  <1>4. CASE DecodeNothing
    BY <1>4, DecodeStep DEF DecodeNothing
  <1>5. CASE DecodeError
    BY <1>5, DecodeStep DEF DecodeError, FrameInvariant
  <1>6. CASE DecodePanics
    <2>1. Total(IF pending = NoFrame THEN FindHeader(buf).pending ELSE pending) > MaxUsize
      <3> DEFINE d == decode(buf, pending)
      <3>1. d.got = "panic" \/ (d.got = "nothing" /\ Total(d.pending) > MaxUsize)
        BY <1>6 DEF DecodePanics
      <3> HIDE DEF d
      <3> QED
        BY <3>1, Decoded DEF FrameInvariant, d
    <2> QED
      BY <1>6, <2>1 DEF DecodePanics, FrameInvariant, PanicsOnlyOnOverflow, BeginsWith
  <1>7. CASE Ended
    BY <1>7 DEF Ended, streamVars, FrameInvariant, PanicsOnlyOnOverflow, BeginsWith
  <1>8. CASE UNCHANGED streamVars
    BY <1>8 DEF streamVars, FrameInvariant, PanicsOnlyOnOverflow, BeginsWith
  <1> QED
    BY <1>1, <1>2, <1>3, <1>4, <1>5, <1>6, <1>7, <1>8 DEF Next

LEMMA FrameInvariantHolds == Spec => []FrameInvariant
  BY FrameInit, FrameStep, PTL DEF Spec

(* Whatever is written and however it is cut, the buffer and the network   *)
(* hold the end of it: decoding never takes bytes from the middle, makes   *)
(* any up or goes back.                                                    *)
THEOREM FramingTypeCorrect == Spec => []TypeOK
  <1>1. FrameInvariant => TypeOK
    <2> SUFFICES ASSUME FrameInvariant
                 PROVE  TypeOK
      OBVIOUS
    <2>1. BytesOf(script) \in Seq(Symbols) /\ buf \o wire \in Seq(Symbols)
      BY BytesAreSymbols, ConcatProperties DEF FrameInvariant
    <2>2. IsSuffix(buf \o wire, BytesOf(script))
      BY <2>1, EndsIsSuffix DEF FrameInvariant
    <2> QED
      BY <2>2 DEF FrameInvariant, TypeOK, Pending
  <1> QED
    BY <1>1, FrameInvariantHolds, PTL

(* The header that decode remembers between two calls is the one that the  *)
(* buffer begins with, whatever has arrived since.                         *)
THEOREM PendingIsRight == Spec => []PendingIsInBuffer
  <1>1. FrameInvariant => PendingIsInBuffer
    BY DEF FrameInvariant, PendingIsInBuffer, BeginsWith
  <1> QED
    BY <1>1, FrameInvariantHolds, PTL

(* No header whose lengths fit in a usize makes decode slice beyond what   *)
(* has arrived, for any prefix, size of the digest and width of usize.     *)
THEOREM OnlyOverflowPanics == Spec => []PanicsOnlyOnOverflow
  <1>1. FrameInvariant => PanicsOnlyOnOverflow
    BY DEF FrameInvariant
  <1> QED
    BY <1>1, FrameInvariantHolds, PTL

-----------------------------------------------------------------------------
(* The frames that a stream begins with.                                   *)

Bytes(s) == [i \in 1..Len(s) |-> s[i].bytes]

(* The bytes of the first n items.                                         *)
Sent(n) == Joined(Bytes(script), n)

Delivered(n) == n <= Len(out) /\ \A i \in 1..n : out[i] = script[i].payload

(* The bytes of the first n items have left the buffer, and no others.     *)
Aligned(n) == BytesOf(script) = Sent(n) \o (buf \o wire)

(* n frames, and only they, have been delivered; the next is taken as soon *)
(* as it is whole.                                                         *)
Synced(n) ==
    /\ Len(out) = n /\ Delivered(n) /\ Aligned(n)
    /\ ended # "panicked" /\ (ended # "no" => ~readable)
    /\ ~readable => n = Len(script) \/ Len(buf) < Len(script[n + 1].bytes)

(* What follows n items is the end, or a frame, taken or rejected.         *)
Clear(n) == n = Len(script) \/ IsIntact(script[n + 1]) \/ IsRejected(script[n + 1])

(* All of the next item has arrived.                                       *)
Whole(n) == n < Len(script) /\ Len(script[n + 1].bytes) <= Len(buf)

(* The next was rejected, and nothing behind it will be delivered.         *)
Failed(n) ==
    /\ n < Len(script) /\ IsRejected(script[n + 1])
    /\ Len(out) = n /\ Delivered(n)
    /\ ended = "error"
    /\ Len(Sent(n)) <= Received

(* Until something else follows, the codec is where the next item begins.  *)
LeadInvariant ==
    /\ out \in Seq(Seq(Symbols))
    /\ \E n \in 0..Len(script) :
          /\ Leads(n)
          /\ IF Clear(n) THEN Synced(n) \/ Failed(n) ELSE Delivered(n)

LEMMA ScriptIs ==
  ASSUME FrameInvariant
  PROVE  /\ Len(script) \in Nat /\ Len(Bytes(script)) = Len(script)
         /\ Bytes(script) \in Seq(Seq(Symbols))
         /\ BytesOf(script) = Sent(Len(script)) /\ Sent(0) = <<>>
         /\ \A i \in 0..Len(script) : Sent(i) \in Seq(Symbols)
         /\ \A i \in 1..Len(script) : /\ script[i] \in Item
                                      /\ Bytes(script)[i] = script[i].bytes
                                      /\ script[i].bytes \in Seq(Symbols)
                                      /\ Sent(i) = Sent(i - 1) \o script[i].bytes
  <1>1. script \in Seq(Item) /\ Len(script) \in Nat /\ Bytes(script) \in Seq(Seq(Symbols))
    BY BytesAreSymbols DEF FrameInvariant, Bytes
  <1>2. Len(Bytes(script)) = Len(script)
    BY <1>1 DEF Bytes
  <1>3. \A i \in 1..Len(script) : /\ script[i] \in Item
                                  /\ Bytes(script)[i] = script[i].bytes
                                  /\ script[i].bytes \in Seq(Symbols)
    <2>1. \A i \in 1..Len(script) : script[i] \in Item /\ Bytes(script)[i] = script[i].bytes
      BY <1>1 DEF Bytes
    <2>2. \A x \in Item : x.bytes \in Seq(Symbols)
      BY DEF Item
    <2> QED
      BY <2>1, <2>2
  <1>4. BytesOf(script) = FlattenSeq(Bytes(script))
    BY DEF BytesOf, Bytes
  <1>5. BytesOf(script) = Sent(Len(script))
    BY <1>1, <1>2, <1>4, JoinedAll DEF Sent
  <1> DEFINE ss == Bytes(script)
  <1> HIDE DEF ss
  <1>6. /\ Joined(ss, 0) = <<>>
        /\ \A i \in 1..Len(ss) : Joined(ss, i) = Joined(ss, i - 1) \o ss[i]
        /\ \A i \in 0..Len(ss) : Joined(ss, i) \in Seq(Symbols)
    BY <1>1, FlattenStep DEF ss
  <1>7. \A i \in 1..Len(script) : Sent(i) = Sent(i - 1) \o script[i].bytes
    BY <1>2, <1>3, <1>6, Zenon DEF ss, Sent
  <1>8. Sent(0) = <<>> /\ \A i \in 0..Len(script) : Sent(i) \in Seq(Symbols)
    BY <1>2, <1>6, Zenon DEF ss, Sent
  <1> QED
    BY <1>1, <1>2, <1>3, <1>5, <1>7, <1>8

(* What follows n items begins with the next.                              *)
LEMMA NextItem ==
  ASSUME FrameInvariant, NEW n \in Nat, n < Len(script), Aligned(n)
  PROVE  \E r \in Seq(Symbols) : /\ buf \o wire = script[n + 1].bytes \o r
                                 /\ BytesOf(script) = Sent(n + 1) \o r
  <1> DEFINE m == n + 1
             B == script[m].bytes
  <1>1. /\ m \in 1..Len(script) /\ m \in 0..Len(Bytes(script)) /\ m - 1 = n /\ n \in 0..Len(script)
        /\ Len(Bytes(script)) \in m..Len(Bytes(script))
    BY ScriptIs
  <1> HIDE DEF m
  <1>2. PICK r \in Seq(Symbols) : BytesOf(script) = Sent(m) \o r
    <2>1. Bytes(script) \in Seq(Seq(Symbols)) /\ Len(Bytes(script)) = Len(script)
      BY ScriptIs
    <2>2. \E r \in Seq(Symbols) :
             Joined(Bytes(script), Len(Bytes(script))) = Joined(Bytes(script), m) \o r
      BY <1>1, <2>1, JoinedSplit
    <2>3. BytesOf(script) = Sent(Len(script))
      BY ScriptIs
    <2> QED
      BY <2>1, <2>2, <2>3 DEF Sent
  <1>3. /\ Sent(m) = Sent(n) \o B /\ Sent(n) \in Seq(Symbols)
        /\ B \in Seq(Symbols)
    <2>1. /\ Sent(m) = Sent(m - 1) \o B /\ Sent(n) \in Seq(Symbols)
          /\ B \in Seq(Symbols)
      BY <1>1, ScriptIs
    <2> QED
      BY <1>1, <2>1
  <1> HIDE DEF B
  <1>4. Sent(n) \o (buf \o wire) = (Sent(n) \o B) \o r
    BY <1>2, <1>3, Zenon DEF Aligned
  <1>5. (Sent(n) \o B) \o r = Sent(n) \o (B \o r)
    BY <1>3, Associative
  <1>6. B \o r \in Seq(Symbols) /\ buf \o wire \in Seq(Symbols)
    BY <1>3, ConcatProperties DEF FrameInvariant
  <1>7. buf \o wire = B \o r
    <2> DEFINE x == buf \o wire
               y == B \o r
    <2>1. Sent(n) \o x = Sent(n) \o y
      BY <1>4, <1>5
    <2> HIDE DEF x, y
    <2> QED
      BY <1>3, <1>6, <2>1, ConcatSimplifications DEF x, y
  <1> QED
    BY <1>2, <1>7 DEF B, m

(* The bytes of a part of the script.                                      *)
LEMMA SentIs ==
  ASSUME FrameInvariant, NEW n \in 0..Len(script)
  PROVE  BytesOf(SubSeq(script, 1, n)) = Sent(n)
  <1> DEFINE s == SubSeq(script, 1, n)
             ss == SubSeq(Bytes(script), 1, n)
  <1>1. /\ script \in Seq(Item) /\ Len(script) \in Nat
        /\ Bytes(script) \in Seq(Seq(Symbols)) /\ Len(Bytes(script)) = Len(script)
        /\ \A i \in 1..Len(script) : Bytes(script)[i] = script[i].bytes
    BY BytesAreSymbols, ScriptIs DEF FrameInvariant
  <1>2. 1 \in Int /\ n \in Int /\ \A i \in 1..n : i \in 1..Len(script) /\ 1 + i - 1 = i
    BY <1>1
  <1>3. /\ s \in Seq(Item) /\ Len(s) = n /\ \A i \in 1..n : s[i] = script[i]
    <2>1. \A i \in 1..n : script[i] \in Item
      BY <1>1, <1>2
    <2> QED
      BY <1>1, <1>2, <2>1, SubSeqProperties
  <1>4. /\ ss \in Seq(Seq(Symbols)) /\ Len(ss) = n /\ \A i \in 1..n : ss[i] = Bytes(script)[i]
    <2>1. \A i \in 1..n : Bytes(script)[i] \in Seq(Symbols)
      BY <1>1, <1>2
    <2> QED
      BY <1>1, <1>2, <2>1, SubSeqProperties
  <1> HIDE DEF s, ss
  <1>5. ss = [i \in 1..n |-> ss[i]]
    BY <1>4
  <1>6. \A i \in 1..n : s[i].bytes = ss[i]
    BY <1>1, <1>2, <1>3, <1>4
  <1>7. [i \in 1..Len(s) |-> s[i].bytes] = ss
    BY <1>3, <1>5, <1>6
  <1> QED
    BY <1>7 DEF BytesOf, Sent, Joined, s, ss

(* How much has arrived, of which the codec has taken n items.             *)
LEMMA ReceivedIs ==
  ASSUME FrameInvariant, NEW n \in 0..Len(script), Aligned(n)
  PROVE  /\ Received = Len(Sent(n)) + Len(buf)
         /\ Received \in Nat /\ Len(Sent(n)) \in Nat /\ Len(buf) \in Nat
  <1>1. Sent(n) \in Seq(Symbols) /\ buf \in Seq(Symbols) /\ wire \in Seq(Symbols)
    BY ScriptIs DEF FrameInvariant
  <1> DEFINE s == Sent(n)
  <1> HIDE DEF s
  <1>2. buf \o wire \in Seq(Symbols) /\ Len(buf \o wire) = Len(buf) + Len(wire)
    BY <1>1, ConcatProperties
  <1>3. Len(s \o (buf \o wire)) = Len(s) + Len(buf \o wire)
    BY <1>1, <1>2, ConcatProperties DEF s
  <1>4. Len(BytesOf(script)) = Len(s) + (Len(buf) + Len(wire))
    BY <1>2, <1>3 DEF Aligned, s
  <1>5. Len(s) \in Nat /\ Len(buf) \in Nat /\ Len(wire) \in Nat
    BY <1>1 DEF s
  <1> QED
    BY <1>4, <1>5 DEF Received, s

(* What is sent only grows.                                                *)
LEMMA SentGrows ==
  ASSUME FrameInvariant, NEW i \in 0..Len(script), NEW j \in i..Len(script)
  PROVE  Len(Sent(i)) <= Len(Sent(j)) /\ Len(Sent(i)) \in Nat /\ Len(Sent(j)) \in Nat
  <1>1. /\ Bytes(script) \in Seq(Seq(Symbols)) /\ Len(Bytes(script)) = Len(script)
        /\ Sent(i) \in Seq(Symbols) /\ Sent(j) \in Seq(Symbols)
    BY ScriptIs
  <1>2. PICK t \in Seq(Symbols) : Sent(j) = Sent(i) \o t
    <2>1. i \in 0..Len(Bytes(script)) /\ j \in i..Len(Bytes(script))
      BY <1>1
    <2>2. \E t \in Seq(Symbols) : Joined(Bytes(script), j) = Joined(Bytes(script), i) \o t
      BY <1>1, <2>1, JoinedSplit
    <2> QED
      BY <2>2 DEF Sent
  <1> DEFINE s == Sent(i)
             u == Sent(j)
  <1> HIDE DEF s, u
  <1>3. Len(u) = Len(s) + Len(t) /\ Len(t) \in Nat /\ Len(s) \in Nat /\ Len(u) \in Nat
    BY <1>1, <1>2, ConcatProperties DEF s, u
  <1> QED
    BY <1>3 DEF s, u

(* One item more.                                                          *)
LEMMA SentNext ==
  ASSUME FrameInvariant, NEW n \in Nat, n < Len(script)
  PROVE  /\ Len(Sent(n + 1)) = Len(Sent(n)) + Len(script[n + 1].bytes)
         /\ Len(script[n + 1].bytes) \in Nat
  <1> DEFINE m == n + 1
             B == script[m].bytes
  <1>1. m \in 1..Len(script) /\ m - 1 = n /\ n \in 0..Len(script)
    BY ScriptIs
  <1> HIDE DEF m
  <1>2. Sent(m) = Sent(m - 1) \o B /\ Sent(n) \in Seq(Symbols) /\ B \in Seq(Symbols)
    BY <1>1, ScriptIs
  <1> HIDE DEF B
  <1>3. Sent(m) = Sent(n) \o B
    BY <1>1, <1>2
  <1>4. Len(Sent(m)) = Len(Sent(n)) + Len(B) /\ Len(B) \in Nat
    <2> DEFINE x == Sent(n)
               y == Sent(m)
    <2>1. x \in Seq(Symbols) /\ B \in Seq(Symbols) /\ y = x \o B
      BY <1>2, <1>3
    <2> HIDE DEF x, y
    <2>2. Len(y) = Len(x) + Len(B) /\ Len(B) \in Nat
      BY <2>1, ConcatProperties
    <2> QED
      BY <2>2 DEF x, y
  <1> QED
    BY <1>4 DEF m, B

(* Nothing follows the last.                                               *)
LEMMA NoItem ==
  ASSUME FrameInvariant, Aligned(Len(script))
  PROVE  buf = <<>> /\ wire = <<>>
  <1> DEFINE b == BytesOf(script)
             x == buf \o wire
  <1>1. b \in Seq(Symbols) /\ b = Sent(Len(script))
    BY BytesAreSymbols, ScriptIs DEF FrameInvariant
  <1>2. b = b \o x
    BY <1>1, Zenon DEF Aligned
  <1>3. Len(b) = Len(b) + Len(x) /\ Len(b) \in Nat /\ Len(x) \in Nat
        /\ Len(x) = Len(buf) + Len(wire) /\ Len(buf) \in Nat /\ Len(wire) \in Nat
    <2>1. x \in Seq(Symbols) /\ Len(x) = Len(buf) + Len(wire)
      BY ConcatProperties DEF FrameInvariant
    <2> HIDE DEF b, x
    <2>2. Len(b \o x) = Len(b) + Len(x)
      BY <1>1, <2>1, ConcatProperties
    <2>3. Len(b) = Len(b) + Len(x)
      BY <1>2, <2>2
    <2> QED
      BY <1>1, <2>1, <2>3 DEF FrameInvariant
  <1> HIDE DEF b, x
  <1>4. Len(buf) = 0 /\ Len(wire) = 0
    BY <1>3
  <1> QED
    BY <1>4, EmptySeq DEF FrameInvariant

(* What the codec does there.                                              *)
LEMMA SyncedDecode ==
  ASSUME FrameInvariant, NEW n \in 0..Len(script), Aligned(n), Clear(n),
         NEW d, d = decode(buf, pending)
  PROVE  IF Whole(n)
         THEN IF IsIntact(script[n + 1])
              THEN /\ d.got = "frame" /\ d.frame = script[n + 1].payload
                   /\ BytesOf(script) = Sent(n + 1) \o (d.buf \o wire)
              ELSE d.got = "error" /\ IsRejected(script[n + 1])
         ELSE d.got = "nothing" /\ d.buf = buf /\ ~(Total(d.pending) > MaxUsize)
  <1>1. /\ Len(script) \in Nat /\ buf \in Seq(Symbols) /\ wire \in Seq(Symbols)
        /\ pending \in Pending /\ (pending # NoFrame => BeginsWith(buf, pending))
    BY ScriptIs DEF FrameInvariant
  <1>2. CASE n = Len(script)
    <2>1. buf = <<>>
      BY <1>2, NoItem
    <2>2. d.got = "nothing" /\ d.buf = <<>> /\ ~(Total(d.pending) > MaxUsize)
      BY <1>1, <2>1, Idle
    <2>3. ~(n < Len(script))
      BY <1>1, <1>2
    <2> QED
      BY <2>1, <2>2, <2>3 DEF Whole
  <1>3. CASE n # Len(script)
    <2> DEFINE item == script[n + 1]
    <2>1. /\ n \in Nat /\ n < Len(script) /\ n + 1 \in 1..Len(script)
          /\ IsIntact(item) \/ (~IsIntact(item) /\ IsRejected(item))
      BY <1>1, <1>3 DEF Clear
    <2>2. item \in Item /\ item.bytes \in Seq(Symbols)
      BY <2>1, ScriptIs
    <2>3. PICK r \in Seq(Symbols) : /\ buf \o wire = item.bytes \o r
                                    /\ BytesOf(script) = Sent(n + 1) \o r
      BY <2>1, NextItem
    <2> HIDE DEF item
    <2>4. PICK x, t : /\ x \in Item /\ x.bytes = item.bytes /\ LaidOut(x, t)
                      /\ IsIntact(item) => x = item /\ Verified(x, t)
                      /\ ~IsIntact(item) => ~Verified(x, t)
      <3>1. CASE IsIntact(item)
        BY <2>2, <3>1, IntactIsLaidOut
      <3>2. CASE ~IsIntact(item)
        BY <2>1, <2>2, <3>2, RejectedIsLaidOut
      <3> QED
        BY <3>1, <3>2
    <2>5. Starts(buf, x, t)
      BY <1>1, <2>2, <2>3, <2>4, Zenon DEF Starts
    <2>6. IF Len(buf) < Len(x.bytes)
          THEN d.got = "nothing" /\ d.buf = buf /\ ~(Total(d.pending) > MaxUsize)
          ELSE /\ d.got = IF Verified(x, t) THEN "frame" ELSE "error"
               /\ Verified(x, t) => d.frame = x.payload
               /\ d.buf = From(buf, Len(x.bytes) + 1)
      <3>1. /\ x \in Item /\ LaidOut(x, t)
            /\ buf \in Seq(Symbols) /\ Starts(buf, x, t)
            /\ pending \in Pending /\ (pending # NoFrame => BeginsWith(buf, pending))
        BY <1>1, <2>4, <2>5
      <3> QED
        BY <3>1, InStep
    <2>7. Len(buf) \in Nat /\ Len(item.bytes) \in Nat
      BY <1>1, <2>2
    <2>8. CASE Len(buf) < Len(item.bytes)
      <3>1. ~(Len(item.bytes) <= Len(buf))
        BY <2>7, <2>8
      <3>2. ~Whole(n)
        BY <3>1 DEF Whole, item
      <3> QED
        BY <2>4, <2>6, <2>8, <3>2
    <2>9. CASE ~(Len(buf) < Len(item.bytes))
      <3>1. Len(item.bytes) <= Len(buf)
        BY <2>7, <2>9
      <3>2. From(buf, Len(item.bytes) + 1) \o wire = r
        <4> DEFINE c == item.bytes
        <4>1. c \in Seq(Symbols) /\ buf \o wire = c \o r /\ Len(c) <= Len(buf)
          BY <2>2, <2>3, <3>1
        <4> HIDE DEF c
        <4>2. From(buf, Len(c) + 1) \o wire = r
          BY <1>1, <4>1, CutAway
        <4> QED
          BY <4>2 DEF c
      <3>3. d.buf = From(buf, Len(item.bytes) + 1)
        BY <2>4, <2>6, <2>9
      <3>4. BytesOf(script) = Sent(n + 1) \o (d.buf \o wire)
        BY <2>3, <3>2, <3>3, Zenon
      <3>5. Whole(n)
        BY <2>1, <3>1 DEF Whole, item
      <3>6. IsIntact(item) => d.got = "frame" /\ d.frame = item.payload
        BY <2>4, <2>6, <2>9
      <3>7. ~IsIntact(item) => d.got = "error" /\ IsRejected(item)
        BY <2>1, <2>4, <2>6, <2>9
      <3> QED
        BY <3>4, <3>5, <3>6, <3>7 DEF item
    <2> QED
      BY <2>8, <2>9
  <1> QED
    BY <1>2, <1>3

(* How the frames become one more.                                         *)
LEMMA OneMore ==
  ASSUME FrameInvariant, out \in Seq(Seq(Symbols)),
         NEW n \in 0..Len(script), Leads(n), Len(out) = n, Delivered(n), Aligned(n),
         Whole(n), IsIntact(script[n + 1]), DecodeFrame
  PROVE  Leads(n + 1) /\ Synced(n + 1)'
  <1> DEFINE d == decode(buf, pending)
             m == n + 1
  <1>1. /\ d.got = "frame" /\ d.frame = script[n + 1].payload
        /\ BytesOf(script) = Sent(n + 1) \o (d.buf \o wire)
    BY SyncedDecode DEF Clear
  <1>2. /\ buf' = d.buf /\ out' = Append(out, d.frame)
        /\ UNCHANGED <<script, wire, readable, eof, ended>> /\ ended = "no" /\ readable
    BY DEF DecodeFrame
  <1> HIDE DEF d
  <1>3. script[n + 1].payload \in Seq(Symbols) /\ n \in Nat /\ m \in Nat
    <2>1. n + 1 \in 1..Len(script) /\ n \in Nat /\ m \in Nat
      BY ScriptIs DEF Whole
    <2>3. script[n + 1] \in Item
      BY <2>1, ScriptIs
    <2>2. \A x \in Item : x.payload \in Seq(Symbols)
      BY DEF Item
    <2> QED
      BY <2>1, <2>2, <2>3
  <1>4. /\ Len(out') = m /\ out'[m] = script[m].payload
        /\ \A i \in 1..n : out'[i] = out[i]
    BY <1>1, <1>2, <1>3, AppendProperties
  <1>5. Leads(m)
    BY <1>3 DEF Leads
  <1>6. \A i \in 1..m : out'[i] = script[i].payload
    <2>1. \A i \in 1..m : i = m \/ i \in 1..n
      BY <1>3
    <2> HIDE DEF m
    <2> QED
      BY <1>4, <2>1, Zenon DEF Delivered
  <1>7. Delivered(m)'
    BY <1>2, <1>3, <1>4, <1>6 DEF Delivered
  <1>8. Aligned(m)'
    BY <1>1, <1>2 DEF Aligned, Sent, BytesOf, Bytes
  <1> QED
    BY <1>2, <1>4, <1>5, <1>7, <1>8 DEF Synced

LEMMA LeadInit == Init => LeadInvariant
  <1> SUFFICES ASSUME Init
               PROVE  LeadInvariant
    OBVIOUS
  <1>1. FrameInvariant
    BY FrameInit
  <1>2. /\ out = <<>> /\ buf = <<>> /\ ended = "no" /\ wire = BytesOf(script)
        /\ Len(script) \in Nat /\ Len(out) = 0 /\ Len(buf) = 0
    BY <1>1, ScriptIs DEF Init
  <1>3. Leads(0) /\ Delivered(0)
    BY <1>2 DEF Leads, Delivered
  <1>4. Aligned(0)
    <2>1. wire \in Seq(Symbols) /\ Sent(0) = <<>>
      BY <1>1, ScriptIs DEF FrameInvariant
    <2>2. <<>> \o (<<>> \o wire) = wire
      BY <2>1, ConcatEmptySeq
    <2> QED
      BY <1>2, <2>1, <2>2 DEF Aligned
  <1>5. 0 \in 0..Len(script) /\ out \in Seq(Seq(Symbols))
    BY <1>2
  <1>6. ASSUME Clear(0)
        PROVE  Synced(0)
    <2>1. CASE 0 = Len(script)
      BY <1>2, <1>3, <1>4, <2>1 DEF Synced
    <2>2. CASE 0 # Len(script)
      <3> DEFINE item == script[0 + 1]
      <3>1. 0 + 1 \in 1..Len(script) /\ (IsIntact(item) \/ IsRejected(item))
        BY <1>2, <1>6, <2>2 DEF Clear
      <3>2. item \in Item
        BY <1>1, <3>1, ScriptIs
      <3> HIDE DEF item
      <3>3. 0 < Len(item.bytes)
        BY <3>1, <3>2, FrameIsLong
      <3> QED
        BY <1>2, <1>3, <1>4, <3>3 DEF Synced, item
    <2> QED
      BY <2>1, <2>2
  <1> QED
    BY <1>3, <1>5, <1>6 DEF LeadInvariant

(* Delivered frames stay delivered.                                        *)
LEMMA OutGrows ==
  ASSUME FrameInvariant, [Next]_streamVars, out \in Seq(Seq(Symbols))
  PROVE  /\ script' = script /\ out' \in Seq(Seq(Symbols))
         /\ \A n \in 0..Len(script) : Delivered(n) => Delivered(n)'
  <1>1. CASE DecodeFrame
    <2> DEFINE d == decode(buf, pending)
    <2>1. out' = Append(out, d.frame) /\ script' = script
      BY <1>1 DEF DecodeFrame
    <2>2. d.frame \in Seq(Symbols)
      BY Decoded DEF FrameInvariant
    <2> HIDE DEF d
    <2>3. /\ out' \in Seq(Seq(Symbols)) /\ Len(out') = Len(out) + 1 /\ Len(out) \in Nat
          /\ \A i \in 1..Len(out) : out'[i] = out[i]
      BY <2>1, <2>2, AppendProperties
    <2>4. ASSUME NEW n \in 0..Len(script), Delivered(n)
          PROVE  Delivered(n)'
      <3>1. n \in Nat /\ n <= Len(out)
        BY <2>4 DEF Delivered
      <3>2. n <= Len(out') /\ \A i \in 1..n : i \in 1..Len(out)
        BY <2>3, <3>1
      <3>3. \A i \in 1..n : out'[i] = script[i].payload
        BY <2>3, <2>4, <3>2, Zenon DEF Delivered
      <3> QED
        BY <2>1, <3>2, <3>3 DEF Delivered
    <2> QED
      BY <2>1, <2>3, <2>4
  <1>2. CASE UNCHANGED <<script, out>>
    BY <1>2 DEF Delivered
  <1>3. DecodeFrame \/ UNCHANGED <<script, out>>
    BY DEF Next, Read, ReadEnd, DecodeNothing, DecodeError, DecodePanics, Ended, streamVars
  <1> QED
    BY <1>1, <1>2, <1>3

(* At an intact frame the codec neither fails nor panics nor waits longer  *)
(* than for its last byte.                                                 *)
LEMMA SyncedStep ==
  ASSUME FrameInvariant, out \in Seq(Seq(Symbols)), [Next]_streamVars,
         NEW n \in 0..Len(script), Leads(n), Synced(n), Clear(n)
  PROVE  \/ Synced(n)' \/ Failed(n)'
         \/ n < Len(script) /\ Leads(n + 1) /\ Synced(n + 1)'
  <1> DEFINE d == decode(buf, pending)
  <1>1. /\ Whole(n) /\ IsIntact(script[n + 1]) => d.got = "frame"
        /\ Whole(n) /\ ~IsIntact(script[n + 1]) => d.got = "error" /\ IsRejected(script[n + 1])
        /\ ~Whole(n) => d.got = "nothing" /\ d.buf = buf /\ ~(Total(d.pending) > MaxUsize)
    <2>1. Aligned(n)
      BY DEF Synced
    <2> HIDE DEF d
    <2>2. IF Whole(n)
          THEN IF IsIntact(script[n + 1])
               THEN /\ d.got = "frame" /\ d.frame = script[n + 1].payload
                    /\ BytesOf(script) = Sent(n + 1) \o (d.buf \o wire)
               ELSE d.got = "error" /\ IsRejected(script[n + 1])
          ELSE d.got = "nothing" /\ d.buf = buf /\ ~(Total(d.pending) > MaxUsize)
      BY <2>1, SyncedDecode DEF d
    <2> QED
      BY <2>2
  <1>2. /\ Len(out) = n /\ Delivered(n) /\ Aligned(n)
        /\ ended # "panicked" /\ (ended # "no" => ~readable)
        /\ ~readable => n = Len(script) \/ Len(buf) < Len(script[n + 1].bytes)
    BY DEF Synced
  <1> HIDE DEF d
  <1>3. CASE Read
    <2>1. PICK k \in 1..Len(wire) :
             buf' = buf \o SubSeq(wire, 1, k) /\ wire' = From(wire, k + 1)
      BY <1>3 DEF Read
    <2>2. (buf \o SubSeq(wire, 1, k)) \o From(wire, k + 1) = buf \o wire
      BY Arrival DEF FrameInvariant
    <2>3. buf' \o wire' = buf \o wire
      BY <2>1, <2>2
    <2>4. UNCHANGED <<script, out, ended>> /\ readable'
      BY <1>3 DEF Read
    <2>5. Aligned(n)' /\ Delivered(n)'
      BY <1>2, <2>3, <2>4 DEF Aligned, Delivered, Sent
    <2>6. ended' # "panicked" /\ ended' = "no"
      BY <1>3 DEF Read
    <2> QED
      BY <1>2, <2>4, <2>5, <2>6 DEF Synced
  <1>4. CASE ReadEnd
    BY <1>2, <1>4 DEF ReadEnd, Synced, Aligned, Delivered, Sent
  <1>5. CASE DecodeFrame
    <2>1. d.got = "frame"
      BY <1>5 DEF DecodeFrame, d
    <2>2. Whole(n) /\ IsIntact(script[n + 1])
      BY <1>1, <2>1
    <2>3. Leads(n + 1) /\ Synced(n + 1)'
      BY <1>2, <1>5, <2>2, OneMore
    <2> QED
      BY <2>2, <2>3 DEF Whole
  <1>6. CASE DecodeNothing
    <2>1. /\ d.got = "nothing" /\ buf' = d.buf /\ UNCHANGED <<script, wire, out>>
          /\ readable' = FALSE /\ ended' \in {"no", "closed", "error"}
      BY <1>6 DEF DecodeNothing, d
    <2>2. ~Whole(n) /\ buf' = buf
      BY <1>1, <2>1
    <2>3. n = Len(script) \/ Len(buf) < Len(script[n + 1].bytes)
      <3>1. ASSUME n # Len(script)
            PROVE  Len(buf) < Len(script[n + 1].bytes)
        <4>1. n < Len(script) /\ n + 1 \in 1..Len(script)
          BY <3>1, ScriptIs
        <4>2. script[n + 1].bytes \in Seq(Symbols) /\ buf \in Seq(Symbols)
          BY <4>1, ScriptIs DEF FrameInvariant
        <4>3. Len(script[n + 1].bytes) \in Nat /\ Len(buf) \in Nat
          BY <4>2
        <4> QED
          BY <2>2, <4>1, <4>3 DEF Whole
      <3> QED
        BY <3>1
    <2>4. Aligned(n)' /\ Delivered(n)'
      BY <1>2, <2>1, <2>2 DEF Aligned, Delivered, Sent
    <2> QED
      BY <1>2, <2>1, <2>2, <2>3, <2>4 DEF Synced
  <1>7. CASE DecodeError
    <2>1. /\ d.got = "error" /\ UNCHANGED <<script, wire, out>> /\ ended' = "error"
      BY <1>7 DEF DecodeError, d
    <2>2. n < Len(script) /\ IsRejected(script[n + 1])
      BY <1>1, <2>1 DEF Whole
    <2>3. Len(Sent(n)) <= Received
      BY <1>2, ReceivedIs
    <2>4. Delivered(n)' /\ Len(Sent(n))' <= Received'
      BY <1>2, <2>1, <2>3 DEF Delivered, Sent, Received
    <2> QED
      BY <1>2, <2>1, <2>2, <2>4 DEF Failed
  <1>8. CASE DecodePanics
    <2>1. d.got = "panic" \/ (d.got = "nothing" /\ Total(d.pending) > MaxUsize)
      BY <1>8 DEF DecodePanics, d
    <2> QED
      BY <1>1, <2>1
  <1>9. CASE Ended \/ UNCHANGED streamVars
    <2>1. UNCHANGED <<script, wire, buf, readable, out, ended>>
      BY <1>9 DEF Ended, streamVars
    <2> QED
      BY <1>2, <2>1 DEF Synced, Aligned, Delivered, Sent
  <1> QED
    BY <1>3, <1>4, <1>5, <1>6, <1>7, <1>8, <1>9 DEF Next

LEMMA LeadStep == FrameInvariant /\ LeadInvariant /\ [Next]_streamVars => LeadInvariant'
  <1> SUFFICES ASSUME FrameInvariant, LeadInvariant, [Next]_streamVars
               PROVE  LeadInvariant'
    OBVIOUS
  <1>1. out \in Seq(Seq(Symbols)) /\ Len(script) \in Nat
    BY ScriptIs DEF LeadInvariant
  <1>2. PICK n \in 0..Len(script) :
           /\ Leads(n)
           /\ IF Clear(n) THEN Synced(n) \/ Failed(n) ELSE Delivered(n)
    BY DEF LeadInvariant
  <1>3. /\ script' = script /\ out' \in Seq(Seq(Symbols))
        /\ \A i \in 0..Len(script) : Delivered(i) => Delivered(i)'
    BY <1>1, OutGrows
  <1>4. \A i : Leads(i) <=> Leads(i)'
    BY <1>3 DEF Leads
  <1>5. \A i \in 0..Len(script) : Leads(i) /\ (Synced(i)' \/ Failed(i)') => LeadInvariant'
    BY <1>3, <1>4 DEF LeadInvariant, Synced, Failed
  <1>6. CASE Clear(n) /\ Synced(n)
    <2>1. \/ Synced(n)' \/ Failed(n)'
          \/ n < Len(script) /\ Leads(n + 1) /\ Synced(n + 1)'
      BY <1>1, <1>2, <1>6, SyncedStep
    <2>2. n < Len(script) => n + 1 \in 0..Len(script)
      BY <1>1
    <2> QED
      BY <1>2, <1>5, <2>1, <2>2, Zenon
  <1>7. CASE Failed(n)
    <2>1. UNCHANGED <<script, wire, out, ended>>
      BY <1>7 DEF Failed, Next, Read, ReadEnd, DecodeFrame, DecodeNothing, DecodeError,
                  DecodePanics, Ended, streamVars
    <2>2. Failed(n)'
      BY <1>7, <2>1 DEF Failed, Delivered, Sent, Received
    <2> QED
      BY <1>2, <1>5, <2>2
  <1>8. CASE ~Clear(n)
    <2>1. Delivered(n)' /\ ~Clear(n)'
      BY <1>2, <1>3, <1>8 DEF Clear
    <2> QED
      BY <1>2, <1>3, <1>4, <2>1 DEF LeadInvariant
  <1> QED
    BY <1>2, <1>6, <1>7, <1>8

LEMMA LeadInvariantHolds == Spec => []LeadInvariant
  BY LeadInit, LeadStep, FrameInvariantHolds, PTL DEF Spec

(* What the codec has not delivered has not arrived.                       *)
LEMMA WhatWaits ==
  ASSUME FrameInvariant, NEW n \in 0..Len(script), Synced(n), ~readable \/ ended # "no",
         NEW i \in 1..Len(script), n < i
  PROVE  Received < Len(Sent(i))
  <1>1. /\ Aligned(n) /\ n \in Nat /\ n < Len(script) /\ n + 1 \in 0..Len(script)
        /\ i \in (n + 1)..Len(script)
    BY ScriptIs DEF Synced
  <1>2. Len(buf) < Len(script[n + 1].bytes)
    <2>1. ~readable /\ n # Len(script)
      BY <1>1, ScriptIs DEF Synced
    <2> QED
      BY <2>1 DEF Synced
  <1>3. Received = Len(Sent(n)) + Len(buf) /\ Len(Sent(n)) \in Nat /\ Len(buf) \in Nat
    BY <1>1, ReceivedIs
  <1>4. Len(Sent(n + 1)) <= Len(Sent(i)) /\ Len(Sent(n + 1)) \in Nat /\ Len(Sent(i)) \in Nat
    BY <1>1, SentGrows
  <1>5. Len(Sent(n + 1)) = Len(Sent(n)) + Len(script[n + 1].bytes) /\ Len(script[n + 1].bytes) \in Nat
    BY <1>1, SentNext
  <1> QED
    BY <1>2, <1>3, <1>4, <1>5

(* Whatever a client writes, and however the network cuts it: the intact   *)
(* frames that it begins with reach dispatch, unchanged, in their order,   *)
(* each as soon as its last byte has arrived; the codec neither fails nor  *)
(* panics before them, whatever comes behind.                              *)
THEOREM LeadingFramesDelivered == Spec => []LeadingFrames
  <1>1. FrameInvariant /\ LeadInvariant => LeadingFrames
    <2> SUFFICES ASSUME FrameInvariant, LeadInvariant, NEW i \in 1..Len(script), Leads(i)
                 PROVE  /\ i <= Len(out) => out[i] = script[i].payload
                        /\ /\ ~readable \/ ended # "no"
                           /\ Len(BytesOf(SubSeq(script, 1, i))) <= Received
                           => i <= Len(out)
      BY DEF LeadingFrames
    <2>1. PICK n \in 0..Len(script) :
             IF Clear(n) THEN Synced(n) \/ Failed(n) ELSE Delivered(n)
      BY DEF LeadInvariant
    <2>2. Len(script) \in Nat /\ i \in 0..Len(script) /\ out \in Seq(Seq(Symbols)) /\ Len(out) \in Nat
      BY ScriptIs DEF LeadInvariant
    <2>3. Delivered(n)
      BY <2>1 DEF Synced, Failed
    <2>4. CASE i <= n
      <3>1. i \in 1..n /\ i <= Len(out)
        BY <2>2, <2>3, <2>4 DEF Delivered
      <3> QED
        BY <2>3, <3>1 DEF Delivered
    <2>5. CASE n < i
      <3>1. n = Len(script) \/ IsIntact(script[n + 1])
        <4>1. n # Len(script) => n + 1 \in 1..i
          BY <2>2, <2>5
        <4> QED
          BY <4>1 DEF Leads
      <3>2. Synced(n)
        <4>1. ~Failed(n)
          BY <2>2, <3>1 DEF Failed, IsIntact, IsRejected
        <4> QED
          BY <2>1, <3>1, <4>1 DEF Clear
      <3>3. ~(i <= Len(out))
        BY <2>2, <2>5, <3>2 DEF Synced
      <3>4. ASSUME ~readable \/ ended # "no"
            PROVE  ~(Len(BytesOf(SubSeq(script, 1, i))) <= Received)
        <4>1. Received < Len(Sent(i))
          BY <2>5, <3>2, <3>4, WhatWaits
        <4>2. Received \in Nat /\ Len(Sent(i)) \in Nat
          <5>1. Received \in Nat
            BY <3>2, ReceivedIs DEF Synced
          <5>2. Sent(i) \in Seq(Symbols)
            BY <2>2, ScriptIs
          <5> QED
            BY <5>1, <5>2
        <4>3. Len(BytesOf(SubSeq(script, 1, i))) = Len(Sent(i))
          BY <2>2, SentIs
        <4> QED
          BY <4>1, <4>2, <4>3
      <3> QED
        BY <3>3, <3>4
    <2> QED
      BY <2>2, <2>4, <2>5
  <1> QED
    BY <1>1, FrameInvariantHolds, LeadInvariantHolds, PTL

-----------------------------------------------------------------------------
(* Streams of frames, of which the first that is not intact is rejected.   *)

FramesToTheEnd(s) ==
    \A i \in 1..Len(s) : (\A j \in 1..(i - 1) : IsIntact(s[j]))
                            => IsIntact(s[i]) \/ IsRejected(s[i])

Payloads(n) == [i \in 1..n |-> script[i].payload]

LEMMA FramesInIs ==
  ASSUME FrameInvariant, NEW n \in 0..Len(script), Leads(n),
         NEW T, \A i \in 1..Len(script) : i \in T <=> i <= n
  PROVE  FramesIn(T) = Payloads(n)
  <1> DEFINE v == Payloads(n)
             ss == [i \in 1..Len(script) |->
                      IF i \in T /\ script[i].kind = "frame" THEN <<script[i].payload>> ELSE <<>>]
  <1>1. /\ Len(script) \in Nat /\ n \in Nat /\ n <= Len(script)
        /\ \A i \in 1..Len(script) : script[i].payload \in Seq(Symbols)
        /\ \A i \in 1..n : script[i].kind = "frame"
    <2>1. \A x \in Item : x.payload \in Seq(Symbols)
      BY DEF Item
    <2>2. \A i \in 1..Len(script) : script[i] \in Item
      BY ScriptIs
    <2>3. /\ \A i \in 1..Len(script) : script[i].payload \in Seq(Symbols)
          /\ \A i \in 1..n : script[i].kind = "frame"
      BY <2>1, <2>2 DEF Leads, IsIntact
    <2>4. Len(script) \in Nat /\ n \in Nat /\ n <= Len(script)
      BY ScriptIs
    <2> QED
      BY <2>3, <2>4
  <1>2. /\ v \in Seq(Seq(Symbols)) /\ Len(v) = n
        /\ \A i \in 1..n : v[i] = script[i].payload
    BY <1>1 DEF Payloads
  <1>3. /\ Len(ss) = Len(script) /\ DOMAIN ss = 1..Len(script)
        /\ \A i \in 1..Len(script) : ss[i] = IF i <= n THEN <<script[i].payload>> ELSE <<>>
    <2>1. \A i \in 1..Len(script) : i <= n => i \in 1..n
      BY <1>1
    <2> QED
      BY <1>1, <2>1
  <1>4. \A i \in 1..Len(script) : ss[i] \in Seq(Seq(Symbols))
    BY <1>1
  <1>5. ss \in Seq(Seq(Seq(Symbols)))
    BY <1>1, <1>4
  <1> HIDE DEF v, ss
  <1>6. \A i \in 1..Len(ss) : ss[i] = IF i <= Len(v) THEN <<v[i]>> ELSE <<>>
    <2> SUFFICES ASSUME NEW i \in 1..Len(script)
                 PROVE  ss[i] = IF i <= n THEN <<v[i]>> ELSE <<>>
      BY <1>2, <1>3
    <2>1. i <= n => i \in 1..n
      BY <1>1
    <2> QED
      BY <1>2, <1>3, <2>1
  <1>7. Singles(Seq(Symbols), ss, v)
    BY <1>1, <1>2, <1>3, <1>5, <1>6 DEF Singles
  <1>8. FlattenSeq(ss) = v
    BY <1>7, FlattenSingles
  <1> QED
    BY <1>8 DEF FramesIn, v, ss

(* What has been delivered of such a stream.                               *)
LEMMA CleanOut ==
  ASSUME FrameInvariant, LeadInvariant, FramesToTheEnd(script)
  PROVE  \E n \in 0..Len(script) : Leads(n) /\ (Synced(n) \/ Failed(n)) /\ out = Payloads(n)
  <1>1. PICK n \in 0..Len(script) :
           Leads(n) /\ IF Clear(n) THEN Synced(n) \/ Failed(n) ELSE Delivered(n)
    BY DEF LeadInvariant
  <1>2. Clear(n)
    <2>1. CASE n = Len(script)
      BY <2>1 DEF Clear
    <2>2. CASE n # Len(script)
      <3>1. n + 1 \in 1..Len(script) /\ (n + 1) - 1 = n
        BY <2>2, ScriptIs
      <3>2. \A j \in 1..((n + 1) - 1) : IsIntact(script[j])
        BY <1>1, <3>1 DEF Leads
      <3> QED
        BY <3>1, <3>2 DEF Clear, FramesToTheEnd
    <2> QED
      BY <2>1, <2>2
  <1>3. Synced(n) \/ Failed(n)
    BY <1>1, <1>2
  <1>4. out = Payloads(n)
    <2>1. out \in Seq(Seq(Symbols)) /\ Len(out) = n /\ \A i \in 1..n : out[i] = script[i].payload
      BY <1>3 DEF LeadInvariant, Synced, Failed, Delivered
    <2>2. out = [i \in 1..n |-> out[i]]
      BY <2>1
    <2> QED
      BY <2>1, <2>2 DEF Payloads
  <1> QED
    BY <1>1, <1>3, <1>4

(* Its intact frames end where the first is not.                           *)
LEMMA CleanGood ==
  ASSUME FrameInvariant, FramesToTheEnd(script)
  PROVE  \E k \in 0..Len(script) : /\ Leads(k) /\ Good = 1..k
                                   /\ k # Len(script) => ~IsIntact(script[k + 1])
  <1> DEFINE T == {i \in 1..Len(script) : ~IsIntact(script[i])}
             l == Len(script)
  <1>1. l \in Nat
    BY ScriptIs
  <1>2. CASE T = {}
    <2>1. \A i \in 1..l : IsIntact(script[i])
      BY <1>2
    <2>2. \A i \in 1..l : \A j \in 1..i : j \in 1..l
      BY <1>1
    <2>3. Good = 1..l
      BY <2>1, <2>2 DEF Good, IsIntact
    <2> QED
      BY <1>1, <2>1, <2>3 DEF Leads
  <1>3. CASE T # {}
    <2>1. PICK m \in T : \A i \in T : m <= i
      <3>1. T \subseteq Nat
        BY <1>1
      <3> HIDE DEF T
      <3> QED
        BY <1>3, <3>1, Smallest
    <2> DEFINE k == m - 1
    <2>2. k \in 0..l /\ m = k + 1 /\ k # l /\ m \in 1..l /\ ~IsIntact(script[m])
      BY <1>1, <2>1
    <2>3. \A i \in 1..k : IsIntact(script[i])
      <3>1. \A i \in 1..k : i \in 1..l /\ ~(m <= i)
        BY <1>1, <2>2
      <3> QED
        BY <2>1, <3>1
    <2>4. script[m].kind = "damaged"
      <3>1. m - 1 = k
        OBVIOUS
      <3>2. IsRejected(script[m])
        BY <2>2, <2>3 DEF FramesToTheEnd
      <3> QED
        BY <3>2 DEF IsRejected
    <2> HIDE DEF k, T
    <2>5. ASSUME NEW i \in 1..l
          PROVE  i \in Good <=> i \in 1..k
      <3>1. CASE i \in 1..k
        <4>1. \A j \in 1..i : j \in 1..k
          BY <1>1, <2>2, <3>1
        <4>2. \A j \in 1..i : script[j].kind = "frame"
          BY <2>3, <4>1 DEF IsIntact
        <4> QED
          BY <3>1, <4>2 DEF Good
      <3>2. CASE i \notin 1..k
        <4>1. m \in 1..i
          BY <1>1, <2>2, <3>2
        <4> QED
          BY <2>4, <3>2, <4>1 DEF Good
      <3> QED
        BY <3>1, <3>2
    <2>6. Good \subseteq 1..l /\ 1..k \subseteq 1..l
      <3>1. Good \subseteq 1..l
        BY DEF Good
      <3>2. 1..k \subseteq 1..l
        BY <1>1, <2>2
      <3> QED
        BY <3>1, <3>2
    <2>7. Good = 1..k
      BY <2>5, <2>6
    <2> QED
      BY <2>2, <2>3, <2>7 DEF Leads
  <1> QED
    BY <1>2, <1>3

(* All of them is the most that is delivered; what ends it comes last.     *)
LEMMA CleanBound ==
  ASSUME FrameInvariant,
         NEW n \in 0..Len(script), Leads(n), Synced(n) \/ Failed(n),
         NEW k \in 0..Len(script), Leads(k), k # Len(script) => ~IsIntact(script[k + 1])
  PROVE  n <= k /\ (Failed(n) => n = k)
  <1>1. Len(script) \in Nat /\ n \in Nat /\ k \in Nat
    BY ScriptIs
  <1>2. ~(k < n)
    <2>1. k < n => k + 1 \in 1..n /\ k # Len(script)
      BY <1>1
    <2> QED
      BY <2>1 DEF Leads
  <1>3. Failed(n) => ~(n < k)
    <2>1. n < k => n + 1 \in 1..k
      BY <1>1
    <2> QED
      BY <2>1 DEF Failed, IsIntact, IsRejected, Leads
  <1> QED
    BY <1>1, <1>2, <1>3

(* A stream of frames reaches dispatch as it was written, up to the first  *)
(* frame whose digest is wrong or whose payload does not decode, however   *)
(* it is cut and whatever comes behind: no frame is lost, repeated,        *)
(* reordered or made up of others, and nothing of a rejected frame or      *)
(* behind it is delivered.                                                 *)
THEOREM CleanFramesInOrder ==
  ASSUME \A s \in Scripts : FramesToTheEnd(s)
  PROVE  Spec => []FramesInOrder
  <1>1. FrameInvariant /\ LeadInvariant => FramesInOrder
    <2> SUFFICES ASSUME FrameInvariant, LeadInvariant
                 PROVE  FramesInOrder
      OBVIOUS
    <2>1. FramesToTheEnd(script)
      BY DEF FrameInvariant
    <2>2. PICK n \in 0..Len(script) :
             Leads(n) /\ (Synced(n) \/ Failed(n)) /\ out = Payloads(n)
      BY <2>1, CleanOut
    <2>3. PICK l \in 0..Len(script) :
             /\ Leads(l) /\ Good = 1..l
             /\ l # Len(script) => ~IsIntact(script[l + 1])
      BY <2>1, CleanGood
    <2> DEFINE v == Payloads(l)
    <2>4. l \in Nat /\ n \in Nat /\ n <= l /\ Len(script) \in Nat /\ l <= Len(script)
      BY <2>2, <2>3, CleanBound, ScriptIs
    <2>5. FramesIn(Good) = v
      <3>1. \A i \in 1..Len(script) : i \in Good <=> i <= l
        BY <2>3, <2>4
      <3> QED
        BY <2>3, <3>1, FramesInIs
    <2>6. /\ out \in Seq(Seq(Symbols)) /\ Len(out) = n
          /\ \A i \in 1..n : out[i] = script[i].payload
      BY <2>2, <2>4 DEF LeadInvariant, Payloads
    <2>7. Len(v) = l /\ \A i \in 1..l : v[i] = script[i].payload
      BY <2>4 DEF Payloads
    <2>8. v \in Seq(Seq(Symbols))
      <3>1. \A x \in Item : x.payload \in Seq(Symbols)
        BY DEF Item
      <3>2. \A i \in 1..l : script[i].payload \in Seq(Symbols)
        <4>1. \A i \in 1..l : i \in 1..Len(script)
          BY <2>4
        <4>2. \A i \in 1..Len(script) : script[i] \in Item
          BY ScriptIs
        <4> QED
          BY <3>1, <4>1, <4>2
      <3> QED
        BY <2>4, <3>2 DEF Payloads
    <2> HIDE DEF v
    <2>9. SubSeq(out, 1, n) = SubSeq(v, 1, n)
      <3>1. \A i \in 1..n : i \in 1..l /\ 1 + i - 1 = i
        BY <2>4
      <3>2. \A i \in 1..n : out[i] = v[i] /\ v[i] \in Seq(Symbols) /\ out[i] \in Seq(Symbols)
        <4>1. \A i \in 1..n : out[i] = v[i]
          BY <2>6, <2>7, <3>1, Zenon
        <4>2. \A i \in 1..l : v[i] \in Seq(Symbols)
          BY <2>7, <2>8
        <4> QED
          BY <3>1, <4>1, <4>2, Zenon
      <3>3. /\ SubSeq(out, 1, n) \in Seq(Seq(Symbols)) /\ Len(SubSeq(out, 1, n)) = n
            /\ \A i \in 1..n : SubSeq(out, 1, n)[i] = out[i]
        BY <2>4, <3>1, <3>2, SubSeqProperties
      <3>4. /\ SubSeq(v, 1, n) \in Seq(Seq(Symbols)) /\ Len(SubSeq(v, 1, n)) = n
            /\ \A i \in 1..n : SubSeq(v, 1, n)[i] = v[i]
        BY <2>4, <3>1, <3>2, SubSeqProperties
      <3> QED
        BY <3>2, <3>3, <3>4, SeqEqual
    <2> QED
      BY <2>4, <2>5, <2>6, <2>7, <2>9 DEF FramesInOrder, IsPrefix
  <1> QED
    BY <1>1, FrameInvariantHolds, LeadInvariantHolds, PTL

(* No frame of such a stream waits once its last byte is there, and none   *)
(* that has arrived is lost when the stream ends.                          *)
THEOREM CleanFramesPrompt ==
  ASSUME \A s \in Scripts : FramesToTheEnd(s)
  PROVE  Spec => []FramesArePrompt
  <1>1. FrameInvariant /\ LeadInvariant => FramesArePrompt
    <2> SUFFICES ASSUME FrameInvariant, LeadInvariant, ~readable \/ ended # "no"
                 PROVE  out = FramesIn(Arrived)
      BY DEF FramesArePrompt
    <2>1. FramesToTheEnd(script)
      BY DEF FrameInvariant
    <2>2. PICK n \in 0..Len(script) :
             Leads(n) /\ (Synced(n) \/ Failed(n)) /\ out = Payloads(n)
      BY <2>1, CleanOut
    <2>3. PICK k \in 0..Len(script) :
             /\ Leads(k) /\ Good = 1..k
             /\ k # Len(script) => ~IsIntact(script[k + 1])
      BY <2>1, CleanGood
    <2>4. /\ Len(script) \in Nat /\ n \in Nat /\ k \in Nat /\ k <= Len(script)
          /\ n <= k /\ (Failed(n) => n = k)
      BY <2>2, <2>3, CleanBound, ScriptIs
    <2>5. Received \in Nat /\ Len(Sent(n)) \in Nat /\ Len(Sent(n)) <= Received
      <3>1. CASE Synced(n)
        <4>1. Received = Len(Sent(n)) + Len(buf) /\ Len(Sent(n)) \in Nat /\ Len(buf) \in Nat
          BY <3>1, ReceivedIs DEF Synced
        <4> QED
          BY <4>1
      <3>2. CASE Failed(n)
        <4>1. Len(BytesOf(script)) \in Nat /\ Len(wire) \in Nat /\ Len(Sent(n)) \in Nat
          BY BytesAreSymbols, ScriptIs DEF FrameInvariant
        <4>2. Len(Sent(n)) <= Received /\ Received = Len(BytesOf(script)) - Len(wire)
          BY <3>2 DEF Failed, Received
        <4> QED
          BY <4>1, <4>2
      <3> QED
        BY <2>2, <3>1, <3>2
    <2>6. \A i \in 1..Len(script) : i \in Arrived <=> i <= n
      <3> SUFFICES ASSUME NEW i \in 1..Len(script)
                   PROVE  i \in Arrived <=> i <= n
        OBVIOUS
      <3>1. i \in 0..Len(script) /\ i \in Nat
        BY <2>4
      <3>2. i \in Arrived <=> i <= k /\ Len(Sent(i)) <= Received
        BY <2>3, <2>4, <3>1, SentIs DEF Arrived
      <3>3. Len(Sent(i)) \in Nat
        <4>1. i \in i..Len(script)
          BY <2>4
        <4> QED
          BY <3>1, <4>1, SentGrows
      <3>4. CASE i <= n
        <4>1. n \in i..Len(script)
          BY <2>4, <3>1, <3>4
        <4>2. Len(Sent(i)) <= Len(Sent(n))
          BY <3>1, <4>1, SentGrows
        <4> QED
          BY <2>4, <2>5, <3>1, <3>2, <3>3, <3>4, <4>2
      <3>5. CASE n < i
        <4>1. i <= k => Synced(n)
          BY <2>2, <2>4, <3>1, <3>5
        <4>2. Synced(n) => Received < Len(Sent(i))
          BY <3>5, WhatWaits
        <4> QED
          BY <2>4, <2>5, <3>1, <3>2, <3>3, <3>5, <4>1, <4>2
      <3> QED
        BY <2>4, <3>1, <3>4, <3>5
    <2>7. FramesIn(Arrived) = Payloads(n)
      BY <2>2, <2>6, FramesInIs
    <2> QED
      BY <2>2, <2>7
  <1> QED
    BY <1>1, FrameInvariantHolds, LeadInvariantHolds, PTL

=============================================================================
