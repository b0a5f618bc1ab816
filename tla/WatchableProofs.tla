--------------------------- MODULE WatchableProofs ---------------------------
(***************************************************************************)
(* Proofs about the registry and what clients are told of it, for every    *)
(* sequence of definitions, every limit on the identifiers and every       *)
(* request: lists are complete and cut as asked, counts are their totals,  *)
(* details agree with them, and glob_match finds what a pattern means.     *)
(***************************************************************************)
EXTENDS WatchableList, Induction, FiniteSetTheorems, TLAPS

IsRpv(p) == entries[p].definition.kind = "Rpv"

(* Each identifier given so far is below the next one, which makes the     *)
(* step that gives it keep them apart.                                     *)
IdsBelowNext == \A p \in DOMAIN entries : IsRpv(p) => entries[p].rpv_id < next_rpv_id

Invariant ==
    /\ DatastoreTypeOK
    /\ IsFiniteSet(DOMAIN entries)
    /\ IdsBelowNext
    /\ RpvIdsAreUnique
    /\ LastDefinitionWins

(* What an insertion leaves in the registry.                               *)
LEMMA InsertEffect ==
    ASSUME DatastoreTypeOK, NEW def \in WatchableDefinition, NEW id \in 0..MaxU16,
           Insert(def, id)
    PROVE  /\ DOMAIN entries' = DOMAIN entries \cup {def.path}
           /\ entries'[def.path] = [definition |-> def, rpv_id |-> id]
           /\ \A p \in DOMAIN entries : p # def.path => entries'[p] = entries[p]
           /\ \A p \in DOMAIN entries' : entries'[p] \in DatastoreEntry
           /\ DOMAIN entries' \subseteq Paths
           /\ IsFiniteSet(DOMAIN entries) => IsFiniteSet(DOMAIN entries')
  <1>1. /\ DOMAIN entries' = DOMAIN entries \cup {def.path}
        /\ entries'[def.path] = [definition |-> def, rpv_id |-> id]
        /\ \A p \in DOMAIN entries : p # def.path => entries'[p] = entries[p]
    BY DEF Insert
  <1>2. def.path \in Paths /\ [definition |-> def, rpv_id |-> id] \in DatastoreEntry
    BY DEF WatchableDefinition, DatastoreEntry
  <1>3. \A p \in DOMAIN entries' : entries'[p] \in DatastoreEntry
    BY <1>1, <1>2 DEF DatastoreTypeOK
  <1>4. IsFiniteSet(DOMAIN entries) => IsFiniteSet(DOMAIN entries')
    BY <1>1, FS_AddElement
  <1> QED
    BY <1>1, <1>2, <1>3, <1>4 DEF DatastoreTypeOK

-----------------------------------------------------------------------------
(* A definition is taken: the registry stays the one of the definitions    *)
(* gone through.                                                           *)
LEMMA DefinitionTaken ==
    ASSUME Invariant, Populating, NEW id \in 0..MaxU16, Insert(defs[next], id),
           next' = next + 1, defs' = defs
    PROVE  LastDefinitionWins'
  <1> DEFINE d == defs[next]
  <1>1. /\ next \in 1..Len(defs) /\ Len(defs) \in Nat /\ d \in WatchableDefinition
        /\ (next + 1) - 1 = next
    BY DEF Invariant, DatastoreTypeOK, Populating
  <1>2. /\ DOMAIN entries' = DOMAIN entries \cup {d.path}
        /\ entries'[d.path] = [definition |-> d, rpv_id |-> id]
        /\ \A p \in DOMAIN entries : p # d.path => entries'[p] = entries[p]
    BY <1>1, InsertEffect DEF Invariant
  <1> HIDE DEF d
  <1>3. \A i : i \in 1..next <=> i \in 1..(next - 1) \/ i = next
    BY <1>1
  <1>4. DOMAIN entries' = {defs[i].path : i \in 1..next}
    BY <1>2, <1>3 DEF Invariant, LastDefinitionWins, d
  <1>5. ASSUME NEW i \in 1..next, \A j \in (i + 1)..next : defs[j].path # defs[i].path
        PROVE  entries'[defs[i].path].definition = defs[i]
    <2>1. CASE i = next
      BY <1>2, <2>1 DEF d
    <2>2. CASE i # next
      <3>1. i \in 1..(next - 1) /\ next \in (i + 1)..next
        BY <1>1, <2>2
      <3>2. d.path # defs[i].path
        BY <1>5, <3>1 DEF d
      <3>3. \A j \in (i + 1)..(next - 1) : defs[j].path # defs[i].path
        BY <1>1, <1>5
      <3>4. entries[defs[i].path].definition = defs[i] /\ defs[i].path \in DOMAIN entries
        BY <3>1, <3>3 DEF Invariant, LastDefinitionWins
      <3> QED
        BY <1>2, <3>2, <3>4
    <2> QED
      BY <2>1, <2>2
  <1> QED
    BY <1>1, <1>4, <1>5 DEF LastDefinitionWins

(* One step of the whole.                                                  *)
LEMMA InvariantStep ==
    ASSUME Invariant, [Next]_vars
    PROVE  Invariant'
  <1> USE DatastoreAssumption DEF Invariant
  <1> DEFINE InsertedAs(id) ==
        /\ DOMAIN entries' = DOMAIN entries \cup {defs[next].path}
        /\ entries'[defs[next].path] = [definition |-> defs[next], rpv_id |-> id]
        /\ \A p \in DOMAIN entries : p # defs[next].path => entries'[p] = entries[p]
        /\ \A p \in DOMAIN entries' : entries'[p] \in DatastoreEntry
        /\ DOMAIN entries' \subseteq Paths
        /\ IsFiniteSet(DOMAIN entries')
  <1>1. CASE PopulateOther
    <2>1. defs[next] \in WatchableDefinition /\ 0 \in 0..MaxU16 /\ Insert(defs[next], 0)
      BY <1>1 DEF PopulateOther, Populating, DatastoreTypeOK
    <2>2. InsertedAs(0)
      BY <2>1, InsertEffect
    <2>3. DatastoreTypeOK' /\ IsFiniteSet(DOMAIN entries)'
      BY <1>1, <2>2 DEF PopulateOther, Populating, DatastoreTypeOK
    <2>4. IdsBelowNext' /\ RpvIdsAreUnique'
      BY <1>1, <2>2 DEF PopulateOther, IdsBelowNext, RpvIdsAreUnique, IsRpv
    <2>5. LastDefinitionWins'
      BY <1>1, <2>1, DefinitionTaken DEF PopulateOther
    <2> QED
      BY <2>3, <2>4, <2>5
  <1>2. CASE PopulateRpv
    <2>1. /\ defs[next] \in WatchableDefinition /\ next_rpv_id \in 0..MaxU16
          /\ Insert(defs[next], next_rpv_id)
          /\ next_rpv_id < MaxU16 /\ next_rpv_id' = next_rpv_id + 1
      BY <1>2 DEF PopulateRpv, Populating, DatastoreTypeOK, Overflows, Next16
    <2>2. InsertedAs(next_rpv_id)
      BY <2>1, InsertEffect
    <2>3. DatastoreTypeOK' /\ IsFiniteSet(DOMAIN entries)'
      BY <1>2, <2>1, <2>2 DEF PopulateRpv, Populating, DatastoreTypeOK
    <2>4. \A p \in DOMAIN entries : IsRpv(p) =>
             entries[p].rpv_id \in Nat /\ entries[p].rpv_id < next_rpv_id
      BY DEF IdsBelowNext, DatastoreTypeOK, DatastoreEntry
    <2>5. IdsBelowNext'
      BY <2>1, <2>2, <2>4 DEF IdsBelowNext, IsRpv
    <2>6. RpvIdsAreUnique'
      BY <2>1, <2>2, <2>4 DEF RpvIdsAreUnique, IsRpv
    <2>7. LastDefinitionWins'
      BY <1>2, <2>1, DefinitionTaken DEF PopulateRpv
    <2> QED
      BY <2>3, <2>5, <2>6, <2>7
  <1>3. CASE UNCHANGED <<defs, next, next_rpv_id, entries>> /\ phase' \in {phase, "ready", "panicked"}
    BY <1>3 DEF DatastoreTypeOK, IdsBelowNext, IsRpv, RpvIdsAreUnique, LastDefinitionWins
  <1>4. \/ PopulateOther \/ PopulateRpv
        \/ UNCHANGED <<defs, next, next_rpv_id, entries>> /\ phase' \in {phase, "ready", "panicked"}
    BY DEF Next, Populate, PopulatePanics, Populated, List, ListPanics, Count, Info, Panicked,
           vars, datastoreVars
  <1> QED
    BY <1>1, <1>2, <1>3, <1>4

LEMMA InvariantInit == Init => Invariant
  <1> SUFFICES ASSUME Init PROVE Invariant
    OBVIOUS
  <1>1. /\ defs \in Seq(WatchableDefinition) /\ next = 1 /\ next_rpv_id = 0
        /\ DOMAIN entries = {} /\ phase = "populate"
    BY DatastoreAssumption DEF Init, DatastoreInit
  <1>2. IsFiniteSet(DOMAIN entries)
    BY <1>1, FS_EmptySet
  <1>3. DatastoreTypeOK
    BY <1>1, DatastoreAssumption DEF DatastoreTypeOK
  <1> QED
    BY <1>1, <1>2, <1>3 DEF Invariant, IdsBelowNext, RpvIdsAreUnique, LastDefinitionWins

LEMMA Invariance == Spec => []Invariant
  <1>1. Invariant /\ [Next]_vars => Invariant'
    BY InvariantStep
  <1> QED
    BY InvariantInit, <1>1, PTL DEF Spec

-----------------------------------------------------------------------------
(* No two RPVs of the registry share an identifier.                        *)
THEOREM IdsUnique == Spec => []RpvIdsAreUnique
  <1>1. Invariant => RpvIdsAreUnique
    BY DEF Invariant
  <1> QED
    BY Invariance, <1>1, PTL

(* The registry holds the last definition of every path defined.           *)
THEOREM RegistryFollowsDefinitions == Spec => []LastDefinitionWins
  <1>1. Invariant => LastDefinitionWins
    BY DEF Invariant
  <1> QED
    BY Invariance, <1>1, PTL

-----------------------------------------------------------------------------
(* Whatever is listed and however it is cut, there is a response, the last *)
(* one is marked, and no other.                                            *)
LEMMA ResponsesMarked ==
    ASSUME NEW all, Len(all) \in Nat, NEW n \in Nat, n > 0
    PROVE  /\ Responses(all, n) # <<>>
           /\ \A i \in 1..Len(Responses(all, n)) :
                 Responses(all, n)[i].done <=> i = Len(Responses(all, n))
  <1>1. Chunks(all, n) \in Nat
    BY DEF Chunks
  <1>2. CASE Chunks(all, n) = 0
    <2>1. Responses(all, n) = <<ListResponse(<<>>, TRUE)>>
      BY <1>2 DEF Responses
    <2> DEFINE e == ListResponse(<<>>, TRUE)
    <2>2. e.done = TRUE
      BY DEF ListResponse
    <2> HIDE DEF e
    <2>3. <<e>> # <<>> /\ Len(<<e>>) = 1 /\ <<e>>[1] = e
      OBVIOUS
    <2>4. \A i \in 1..Len(<<e>>) : i = 1
      BY <2>3
    <2>5. Responses(all, n) = <<e>>
      BY <2>1 DEF e
    <2> QED
      BY <2>2, <2>3, <2>4, <2>5
  <1>3. CASE Chunks(all, n) # 0
    <2> DEFINE total == Chunks(all, n)
               r == [i \in 1..total |-> ListResponse(Chunk(all, n, i), i = total)]
    <2>1. Responses(all, n) = r
      BY <1>3 DEF Responses
    <2>2. Len(r) = total /\ total >= 1
      BY <1>1, <1>3
    <2>3. \A i \in 1..total : r[i].done <=> i = total
      BY DEF ListResponse
    <2>4. r # <<>>
      BY <2>2
    <2> HIDE DEF r, total
    <2> QED
      BY <2>1, <2>2, <2>3, <2>4
  <1> QED
    BY <1>2, <1>3

THEOREM ListEndsMarked == Spec => []LastResponseIsMarked
  <1>1. Init => LastResponseIsMarked
    BY DEF Init, LastResponseIsMarked
  <1>2. ASSUME Invariant, LastResponseIsMarked, [Next]_vars
        PROVE  LastResponseIsMarked'
    <2>1. ASSUME NEW r \in ListRequests, List(r)
          PROVE  LastResponseIsMarked'
      <3>1. PICK all \in SetToSeqs(Selected(r)) : responses' = Responses(all, r.max_per)
        BY <2>1 DEF List
      <3>2. r.max_per \in Nat /\ r.max_per > 0
        BY <2>1, ListAssumption DEF List
      <3>3. Cardinality(Selected(r)) \in Nat
        BY <1>2, FS_Subset, FS_CardinalityType DEF Invariant, Selected
      <3>4. Len(all) = Cardinality(Selected(r))
        BY <3>1, <3>3 DEF SetToSeqs
      <3> QED
        BY <3>1, <3>2, <3>3, <3>4, ResponsesMarked DEF LastResponseIsMarked
    <2>2. CASE UNCHANGED <<request, responses>>
      BY <1>2, <2>2 DEF LastResponseIsMarked
    <2> QED
      BY <1>2, <2>1, <2>2 DEF Next, Count, Info, ListPanics, Panicked, vars, listVars
  <1> QED
    BY Invariance, <1>1, <1>2, PTL DEF Spec

-----------------------------------------------------------------------------
(* The name filter: glob_match finds what the pattern means.               *)

(* The k-th character of the pattern lies on the text from a to b.         *)
Lies(p, t, k, a, b) ==
    IF p[k] = "*" THEN a <= b ELSE b = a + 1 /\ p[k] \in {"?", t[a]}

(* What is left of the pattern from i fits what is left of the text from j.*)
FitsFrom(p, t, i, j) == \E cut \in [i..(Len(p) + 1) -> 1..(Len(t) + 1)] :
    /\ cut[i] = j /\ cut[Len(p) + 1] = Len(t) + 1
    /\ \A k \in i..Len(p) : Lies(p, t, k, cut[k], cut[k + 1])

LEMMA FitsAll ==
    ASSUME NEW p \in Seq(STRING), NEW t \in Seq(STRING)
    PROVE  FitsFrom(p, t, 1, 1) <=> Fits(p, t)
  BY DEF FitsFrom, Fits, Lies

LEMMA FitsEnd ==
    ASSUME NEW p \in Seq(STRING), NEW t \in Seq(STRING), NEW j \in 1..(Len(t) + 1)
    PROVE  FitsFrom(p, t, Len(p) + 1, j) <=> j > Len(t)
  <1> DEFINE n == Len(p)
             m == Len(t)
  <1>1. n \in Nat /\ m \in Nat
    OBVIOUS
  <1>2. ASSUME FitsFrom(p, t, n + 1, j)
        PROVE  j > m
    BY <1>1, <1>2 DEF FitsFrom
  <1>3. ASSUME j > m
        PROVE  FitsFrom(p, t, n + 1, j)
    <2> DEFINE cut == [k \in (n + 1)..(n + 1) |-> j]
    <2> HIDE DEF n, m
    <2>1. /\ cut \in [(n + 1)..(n + 1) -> 1..(m + 1)]
          /\ cut[n + 1] = j /\ j = m + 1
          /\ \A k \in (n + 1)..n : FALSE
      BY <1>1, <1>3 DEF m
    <2> QED
      BY <2>1 DEF FitsFrom, n, m
  <1> QED
    BY <1>2, <1>3

(* A fit from i is where one character lies and a fit from i + 1.          *)
LEMMA FitsNext ==
    ASSUME NEW p \in Seq(STRING), NEW t \in Seq(STRING),
           NEW i \in 1..Len(p), NEW j \in 1..(Len(t) + 1)
    PROVE  FitsFrom(p, t, i, j) <=>
              \E b \in 1..(Len(t) + 1) : Lies(p, t, i, j, b) /\ FitsFrom(p, t, i + 1, b)
  <1> DEFINE n == Len(p)
             m == Len(t)
  <1>1. n \in Nat /\ m \in Nat
    OBVIOUS
  <1>2. ASSUME FitsFrom(p, t, i, j)
        PROVE  \E b \in 1..(m + 1) : Lies(p, t, i, j, b) /\ FitsFrom(p, t, i + 1, b)
    <2>1. PICK cut \in [i..(n + 1) -> 1..(m + 1)] :
             /\ cut[i] = j /\ cut[n + 1] = m + 1
             /\ \A k \in i..n : Lies(p, t, k, cut[k], cut[k + 1])
      BY <1>2 DEF FitsFrom
    <2> DEFINE b == cut[i + 1]
               rest == [k \in (i + 1)..(n + 1) |-> cut[k]]
    <2> HIDE DEF n, m
    <2>2. i \in i..n /\ i + 1 \in i..(n + 1) /\ b \in 1..(m + 1)
      BY <1>1, <2>1 DEF n
    <2>3. Lies(p, t, i, j, b)
      BY <2>1, <2>2
    <2>4. rest \in [(i + 1)..(n + 1) -> 1..(m + 1)] /\ rest[i + 1] = b /\ rest[n + 1] = m + 1
      BY <1>1, <2>1, <2>2 DEF n
    <2>5. \A k \in (i + 1)..n : Lies(p, t, k, rest[k], rest[k + 1])
      <3> SUFFICES ASSUME NEW k \in (i + 1)..n
                   PROVE  Lies(p, t, k, rest[k], rest[k + 1])
        OBVIOUS
      <3>1. k \in i..n /\ k \in (i + 1)..(n + 1) /\ k + 1 \in (i + 1)..(n + 1)
        BY <1>1, <2>2
      <3>2. rest[k] = cut[k] /\ rest[k + 1] = cut[k + 1]
        BY <3>1
      <3> QED
        BY <2>1, <3>1, <3>2
    <2> HIDE DEF rest, b
    <2>6. FitsFrom(p, t, i + 1, b)
      BY <2>4, <2>5 DEF FitsFrom, n, m
    <2> QED
      BY <2>2, <2>3, <2>6
  <1>3. ASSUME NEW b \in 1..(m + 1), Lies(p, t, i, j, b), FitsFrom(p, t, i + 1, b)
        PROVE  FitsFrom(p, t, i, j)
    <2>1. PICK rest \in [(i + 1)..(n + 1) -> 1..(m + 1)] :
             /\ rest[i + 1] = b /\ rest[n + 1] = m + 1
             /\ \A k \in (i + 1)..n : Lies(p, t, k, rest[k], rest[k + 1])
      BY <1>3 DEF FitsFrom
    <2> DEFINE cut == [k \in i..(n + 1) |-> IF k = i THEN j ELSE rest[k]]
    <2>2. i \in 1..n /\ j \in 1..(m + 1)
      OBVIOUS
    <2> HIDE DEF n, m
    <2>3. cut \in [i..(n + 1) -> 1..(m + 1)] /\ cut[i] = j /\ cut[n + 1] = m + 1
      BY <1>1, <2>1, <2>2
    <2>4. \A k \in i..n : Lies(p, t, k, cut[k], cut[k + 1])
      <3> SUFFICES ASSUME NEW k \in i..n
                   PROVE  Lies(p, t, k, cut[k], cut[k + 1])
        OBVIOUS
      <3>1. k \in i..(n + 1) /\ k + 1 \in i..(n + 1) /\ k + 1 # i
        BY <1>1, <2>2
      <3>2. cut[k + 1] = rest[k + 1]
        BY <3>1
      <3>3. CASE k = i
        BY <1>3, <2>1, <2>3, <3>2, <3>3
      <3>4. CASE k # i
        <4>1. k \in (i + 1)..n
          BY <1>1, <2>2, <3>4
        <4>2. cut[k] = rest[k]
          BY <3>1, <3>4
        <4> QED
          BY <2>1, <3>2, <4>1, <4>2
      <3> QED
        BY <3>3, <3>4
    <2> HIDE DEF cut
    <2> QED
      BY <2>3, <2>4 DEF FitsFrom, n, m
  <1> QED
    BY <1>2, <1>3

(* A star takes no character, or one and then what it takes from there.    *)
LEMMA FitsStar ==
    ASSUME NEW p \in Seq(STRING), NEW t \in Seq(STRING),
           NEW i \in 1..Len(p), NEW j \in 1..(Len(t) + 1), p[i] = "*"
    PROVE  FitsFrom(p, t, i, j) <=>
              \/ FitsFrom(p, t, i + 1, j)
              \/ j <= Len(t) /\ FitsFrom(p, t, i, j + 1)
  <1> DEFINE m == Len(t)
             Rest(b) == FitsFrom(p, t, i + 1, b)
  <1>1. m \in Nat /\ j \in Nat
    OBVIOUS
  <1>2. \A a \in 1..(m + 1) : FitsFrom(p, t, i, a) <=> \E b \in 1..(m + 1) : a <= b /\ Rest(b)
    <2> SUFFICES ASSUME NEW a \in 1..(m + 1)
                 PROVE  FitsFrom(p, t, i, a) <=> \E b \in 1..(m + 1) : a <= b /\ Rest(b)
      OBVIOUS
    <2>1. FitsFrom(p, t, i, a) <=> \E b \in 1..(m + 1) : Lies(p, t, i, a, b) /\ Rest(b)
      BY FitsNext
    <2>2. \A b : Lies(p, t, i, a, b) <=> a <= b
      BY DEF Lies
    <2> QED
      BY <2>1, <2>2
  <1>3. ASSUME FitsFrom(p, t, i, j), ~Rest(j)
        PROVE  j <= m /\ FitsFrom(p, t, i, j + 1)
    <2>1. PICK b \in 1..(m + 1) : j <= b /\ Rest(b)
      BY <1>2, <1>3
    <2> HIDE DEF Rest, m
    <2>2. b # j
      BY <1>3, <2>1
    <2>3. j + 1 \in 1..(m + 1) /\ j + 1 <= b /\ j <= m
      BY <1>1, <2>1, <2>2
    <2> QED
      BY <1>2, <2>1, <2>3
  <1>4. ASSUME Rest(j)
        PROVE  FitsFrom(p, t, i, j)
    <2>1. j \in 1..(m + 1) /\ j <= j
      BY <1>1
    <2> HIDE DEF Rest, m
    <2> QED
      BY <1>2, <1>4, <2>1
  <1>5. ASSUME j <= m, FitsFrom(p, t, i, j + 1)
        PROVE  FitsFrom(p, t, i, j)
    <2>1. j + 1 \in 1..(m + 1) /\ j \in 1..(m + 1)
      BY <1>1, <1>5
    <2> HIDE DEF Rest, m
    <2>2. PICK b \in 1..(m + 1) : j + 1 <= b /\ Rest(b)
      BY <1>2, <1>5, <2>1
    <2>3. j <= b
      BY <1>1, <2>2
    <2> QED
      BY <1>2, <2>1, <2>2, <2>3
  <1> QED
    BY <1>3, <1>4, <1>5

(* Another character takes one that it matches.                            *)
LEMMA FitsOne ==
    ASSUME NEW p \in Seq(STRING), NEW t \in Seq(STRING),
           NEW i \in 1..Len(p), NEW j \in 1..(Len(t) + 1), p[i] # "*"
    PROVE  FitsFrom(p, t, i, j) <=>
              j <= Len(t) /\ p[i] \in {"?", t[j]} /\ FitsFrom(p, t, i + 1, j + 1)
  <1> DEFINE m == Len(t)
             Rest(b) == FitsFrom(p, t, i + 1, b)
  <1>1. m \in Nat /\ j \in 1..(m + 1)
    OBVIOUS
  <1>2. FitsFrom(p, t, i, j) <=> \E b \in 1..(m + 1) : Lies(p, t, i, j, b) /\ Rest(b)
    BY FitsNext
  <1>3. \A b : Lies(p, t, i, j, b) <=> b = j + 1 /\ p[i] \in {"?", t[j]}
    BY DEF Lies
  <1>4. j + 1 \in 1..(m + 1) <=> j <= m
    BY <1>1
  <1> HIDE DEF Rest, m
  <1>5. FitsFrom(p, t, i, j) <=> j <= m /\ p[i] \in {"?", t[j]} /\ Rest(j + 1)
    BY <1>2, <1>3, <1>4
  <1> QED
    BY <1>5 DEF Rest, m

(* What glob_match's inner function gives at one place.                    *)
Places(p, t) == (1..(Len(p) + 1)) \X (1..(Len(t) + 1))
GlobAt(p, t, f, at) ==
    LET i == at[1]
        j == at[2]
    IN  IF i > Len(p) THEN j > Len(t)
        ELSE IF p[i] = "*" THEN \/ f[<<i + 1, j>>]
                                \/ j <= Len(t) /\ f[<<i, j + 1>>]
        ELSE j <= Len(t) /\ p[i] \in {"?", t[j]} /\ f[<<i + 1, j + 1>>]

Globs(p, t, f) == f = [at \in Places(p, t) |-> GlobAt(p, t, f, at)]

LEMMA GlobIs ==
    ASSUME NEW p, NEW t
    PROVE  \E f : f = (CHOOSE g : Globs(p, t, g)) /\ glob_match(p, t) = f[<<1, 1>>]
  BY Zenon DEF glob_match, Globs, Places, GlobAt

(* Fitting is such a function.                                             *)
LEMMA GlobExists ==
    ASSUME NEW p \in Seq(STRING), NEW t \in Seq(STRING)
    PROVE  Globs(p, t, [at \in Places(p, t) |-> FitsFrom(p, t, at[1], at[2])])
  <1> DEFINE f == [at \in Places(p, t) |-> FitsFrom(p, t, at[1], at[2])]
             n == Len(p)
             m == Len(t)
  <1>1. n \in Nat /\ m \in Nat
    OBVIOUS
  <1>2. \A i \in 1..(n + 1), j \in 1..(m + 1) : f[<<i, j>>] = FitsFrom(p, t, i, j)
    BY DEF Places
  <1> HIDE DEF f
  <1>3. ASSUME NEW i \in 1..(n + 1), NEW j \in 1..(m + 1)
        PROVE  FitsFrom(p, t, i, j) <=> GlobAt(p, t, f, <<i, j>>)
    <2>1. CASE i > n
      <3>1. i = n + 1
        BY <1>1, <2>1
      <3>2. FitsFrom(p, t, i, j) <=> j > m
        BY <3>1, FitsEnd
      <3>3. GlobAt(p, t, f, <<i, j>>) <=> j > m
        BY <2>1 DEF GlobAt
      <3> QED
        BY <3>2, <3>3
    <2>2. CASE ~(i > n)
      <3>1. i \in 1..n /\ i + 1 \in 1..(n + 1) /\ (j <= m => j + 1 \in 1..(m + 1))
        BY <1>1, <2>2
      <3> HIDE DEF n, m
      <3>2. /\ f[<<i + 1, j>>] = FitsFrom(p, t, i + 1, j)
            /\ j <= m => /\ f[<<i, j + 1>>] = FitsFrom(p, t, i, j + 1)
                         /\ f[<<i + 1, j + 1>>] = FitsFrom(p, t, i + 1, j + 1)
        BY <1>2, <3>1
      <3>3. CASE p[i] = "*"
        <4>1. FitsFrom(p, t, i, j) <=>
                 FitsFrom(p, t, i + 1, j) \/ (j <= m /\ FitsFrom(p, t, i, j + 1))
          BY <3>1, <3>3, FitsStar DEF n, m
        <4>2. GlobAt(p, t, f, <<i, j>>) <=> f[<<i + 1, j>>] \/ (j <= m /\ f[<<i, j + 1>>])
          BY <2>2, <3>3 DEF GlobAt, n, m
        <4> QED
          BY <3>2, <4>1, <4>2
      <3>4. CASE p[i] # "*"
        <4>1. FitsFrom(p, t, i, j) <=>
                 j <= m /\ p[i] \in {"?", t[j]} /\ FitsFrom(p, t, i + 1, j + 1)
          BY <3>1, <3>4, FitsOne DEF n, m
        <4>2. GlobAt(p, t, f, <<i, j>>) <=>
                 j <= m /\ p[i] \in {"?", t[j]} /\ f[<<i + 1, j + 1>>]
          BY <2>2, <3>4 DEF GlobAt, n, m
        <4> QED
          BY <3>2, <4>1, <4>2
      <3> QED
        BY <3>3, <3>4
    <2> QED
      BY <2>1, <2>2
  <1>4. \A at \in Places(p, t) : FitsFrom(p, t, at[1], at[2]) = GlobAt(p, t, f, at)
    <2> SUFFICES ASSUME NEW at \in Places(p, t)
                 PROVE  FitsFrom(p, t, at[1], at[2]) = GlobAt(p, t, f, at)
      OBVIOUS
    <2>1. PICK i \in 1..(n + 1), j \in 1..(m + 1) : at = <<i, j>>
      BY DEF Places
    <2>2. at[1] = i /\ at[2] = j
      BY <2>1
    <2>3. FitsFrom(p, t, i, j) <=> GlobAt(p, t, f, <<i, j>>)
      BY <1>3
    <2>4. FitsFrom(p, t, i, j) \in BOOLEAN
      BY Zenon DEF FitsFrom
    <2>5. GlobAt(p, t, f, <<i, j>>) \in BOOLEAN
      <3>1. CASE i > n
        <4>1. GlobAt(p, t, f, <<i, j>>) = (j > m)
          BY <3>1 DEF GlobAt
        <4> QED
          BY <4>1
      <3>2. CASE ~(i > n) /\ p[i] = "*"
        <4>1. GlobAt(p, t, f, <<i, j>>) = (f[<<i + 1, j>>] \/ (j <= m /\ f[<<i, j + 1>>]))
          BY <3>2 DEF GlobAt
        <4> QED
          BY <4>1
      <3>3. CASE ~(i > n) /\ p[i] # "*"
        <4>1. GlobAt(p, t, f, <<i, j>>) =
                 (j <= m /\ p[i] \in {"?", t[j]} /\ f[<<i + 1, j + 1>>])
          BY <3>3 DEF GlobAt
        <4> QED
          BY <4>1
      <3> QED
        BY <3>1, <3>2, <3>3
    <2>6. FitsFrom(p, t, i, j) = GlobAt(p, t, f, <<i, j>>)
      <3>1. CASE FitsFrom(p, t, i, j)
        BY <2>3, <2>4, <2>5, <3>1, SMT
      <3>2. CASE ~FitsFrom(p, t, i, j)
        BY <2>3, <2>4, <2>5, <3>2, SMT
      <3> QED
        BY <3>1, <3>2
    <2> QED
      BY <2>1, <2>2, <2>6, Zenon
  <1>5. f = [at \in Places(p, t) |-> GlobAt(p, t, f, at)]
    BY <1>4 DEF f
  <1> QED
    BY <1>5 DEF f, Globs

(* It is the only one: two of them agree where little is left.             *)
LEMMA GlobUnique ==
    ASSUME NEW p \in Seq(STRING), NEW t \in Seq(STRING),
           NEW f, Globs(p, t, f), NEW g, Globs(p, t, g)
    PROVE  f[<<1, 1>>] = g[<<1, 1>>]
  <1> DEFINE n == Len(p)
             m == Len(t)
             Same(i, j) == f[<<i, j>>] = g[<<i, j>>]
             T == {k \in Nat : \A i \in 1..(n + 1), j \in 1..(m + 1) :
                      ((n + 1) - i) + ((m + 1) - j) <= k => Same(i, j)}
  <1>1. n \in Nat /\ m \in Nat
    OBVIOUS
  <1>2. ASSUME NEW i \in 1..(n + 1), NEW j \in 1..(m + 1)
        PROVE  /\ f[<<i, j>>] = GlobAt(p, t, f, <<i, j>>)
               /\ g[<<i, j>>] = GlobAt(p, t, g, <<i, j>>)
    <2>1. <<i, j>> \in Places(p, t)
      BY DEF Places
    <2> QED
      BY <2>1, Zenon DEF Globs
  <1>3. ASSUME NEW i \in 1..(n + 1), NEW j \in 1..(m + 1),
               i <= n => Same(i + 1, j),
               i <= n /\ j <= m => Same(i, j + 1) /\ Same(i + 1, j + 1)
        PROVE  Same(i, j)
    <2>1. GlobAt(p, t, f, <<i, j>>) = GlobAt(p, t, g, <<i, j>>)
      <3>1. CASE i > n
        BY <3>1 DEF GlobAt
      <3>2. CASE i <= n
        BY <1>1, <1>3, <3>2 DEF GlobAt
      <3> QED
        BY <1>1, <3>1, <3>2
    <2> QED
      BY <1>2, <2>1
  <1> HIDE DEF n, m, Same
  <1>4. 0 \in T
    <2> SUFFICES ASSUME NEW i \in 1..(n + 1), NEW j \in 1..(m + 1),
                        ((n + 1) - i) + ((m + 1) - j) <= 0
                 PROVE  Same(i, j)
      OBVIOUS
    <2>1. ~(i <= n)
      BY <1>1
    <2> QED
      BY <1>3, <2>1
  <1>5. ASSUME NEW k \in Nat, k \in T
        PROVE  k + 1 \in T
    <2> SUFFICES ASSUME NEW i \in 1..(n + 1), NEW j \in 1..(m + 1),
                        ((n + 1) - i) + ((m + 1) - j) <= k + 1
                 PROVE  Same(i, j)
      OBVIOUS
    <2>1. \A a \in 1..(n + 1), b \in 1..(m + 1) :
             ((n + 1) - a) + ((m + 1) - b) <= k => Same(a, b)
      BY <1>5
    <2>2. ASSUME i <= n
          PROVE  Same(i + 1, j)
      <3>1. i + 1 \in 1..(n + 1) /\ ((n + 1) - (i + 1)) + ((m + 1) - j) <= k
        BY <1>1, <2>2
      <3> QED
        BY <2>1, <3>1
    <2>3. ASSUME i <= n, j <= m
          PROVE  Same(i, j + 1) /\ Same(i + 1, j + 1)
      <3>1. /\ i + 1 \in 1..(n + 1) /\ j + 1 \in 1..(m + 1)
            /\ ((n + 1) - i) + ((m + 1) - (j + 1)) <= k
            /\ ((n + 1) - (i + 1)) + ((m + 1) - (j + 1)) <= k
        BY <1>1, <2>3
      <3> QED
        BY <2>1, <3>1
    <2> QED
      BY <1>3, <2>2, <2>3
  <1>6. \A k \in Nat : k \in T
    <2> HIDE DEF T
    <2> QED
      BY <1>4, <1>5, SetInduction
  <1>7. 1 \in 1..(n + 1) /\ 1 \in 1..(m + 1) /\ n + m \in Nat
        /\ ((n + 1) - 1) + ((m + 1) - 1) <= n + m
    BY <1>1
  <1>8. \A i \in 1..(n + 1), j \in 1..(m + 1) :
           ((n + 1) - i) + ((m + 1) - j) <= n + m => Same(i, j)
    BY <1>6, <1>7
  <1>9. Same(1, 1)
    BY <1>7, <1>8
  <1> QED
    BY <1>9 DEF Same

(* So a text matches a pattern if the pattern can be laid along it.        *)
LEMMA GlobMatches ==
    ASSUME NEW p \in Seq(STRING), NEW t \in Seq(STRING)
    PROVE  glob_match(p, t) <=> Fits(p, t)
  <1> DEFINE f == CHOOSE g : Globs(p, t, g)
             h == [at \in Places(p, t) |-> FitsFrom(p, t, at[1], at[2])]
  <1>1. Globs(p, t, h)
    BY GlobExists
  <1>2. Globs(p, t, f)
    <2> HIDE DEF h
    <2> QED
      BY <1>1, Zenon
  <1>3. glob_match(p, t) = f[<<1, 1>>]
    BY GlobIs, Zenon
  <1>4. h[<<1, 1>>] = FitsFrom(p, t, 1, 1)
    BY DEF Places
  <1>5. FitsFrom(p, t, 1, 1) <=> Fits(p, t)
    BY FitsAll
  <1>6. f[<<1, 1>>] = h[<<1, 1>>]
    <2> HIDE DEF f, h
    <2> QED
      BY <1>1, <1>2, GlobUnique
  <1> QED
    <2> HIDE DEF f, h
    <2> QED
      BY <1>3, <1>4, <1>5, <1>6

-----------------------------------------------------------------------------
(* What OfKind pushes, for the first m entries of a chunk.                 *)
Pushes(c, k, m, f) == f = [i \in 0..m |->
    IF i = 0 THEN <<>>
    ELSE IF entries[c[i]].definition.kind = k THEN Append(f[i - 1], c[i])
    ELSE f[i - 1]]

LEMMA OfKindIs ==
    ASSUME NEW c, NEW k
    PROVE  \E f : f = (CHOOSE g : Pushes(c, k, Len(c), g)) /\ OfKind(c, k) = f[Len(c)]
  BY Zenon DEF OfKind, Pushes

LEMMA PushesExist ==
    ASSUME NEW c, NEW k
    PROVE  \A m \in Nat : \E f : Pushes(c, k, m, f)
  <1> DEFINE T == {m \in Nat : \E f : Pushes(c, k, m, f)}
             Push(i, s) == IF i = 0 THEN <<>>
                           ELSE IF entries[c[i]].definition.kind = k THEN Append(s, c[i])
                           ELSE s
  <1>1. 0 \in T
    <2> DEFINE f == [i \in 0..0 |-> <<>>]
    <2>1. Pushes(c, k, 0, f)
      BY DEF Pushes
    <2> QED
      BY <2>1
  <1>2. ASSUME NEW m \in Nat, m \in T
        PROVE  m + 1 \in T
    <2>1. PICK f : Pushes(c, k, m, f)
      BY <1>2
    <2> HIDE DEF Push
    <2> DEFINE g == [i \in 0..(m + 1) |-> Push(i, f[i - 1])]
    <2>2. f = [i \in 0..m |-> Push(i, f[i - 1])]
      BY <2>1, Zenon DEF Pushes, Push
    <2>3. \A i \in 0..m : f[i] = g[i]
      BY <2>2
    <2>4. \A i \in 0..(m + 1) : Push(i, f[i - 1]) = Push(i, g[i - 1])
      <3>1. \A i \in 0..(m + 1) : i = 0 \/ i - 1 \in 0..m
        OBVIOUS
      <3> HIDE DEF g
      <3> QED
        BY <2>3, <3>1 DEF Push
    <2>5. g = [i \in 0..(m + 1) |-> Push(i, g[i - 1])]
      <3>1. [i \in 0..(m + 1) |-> Push(i, f[i - 1])] = [i \in 0..(m + 1) |-> Push(i, g[i - 1])]
        BY <2>4
      <3> QED
        BY <3>1
    <2>6. Pushes(c, k, m + 1, g)
      <3> HIDE DEF g
      <3> QED
        BY <2>5, Zenon DEF Pushes, Push
    <2> QED
      BY <2>6
  <1>3. \A m \in Nat : m \in T
    <2> HIDE DEF T
    <2> QED
      BY <1>1, <1>2, SetInduction
  <1> QED
    BY <1>3

(* c is the part of all that follows its first lo elements, up to hi.      *)
Slice(S, all, lo, hi, c) ==
    /\ all \in Seq(S) /\ c \in Seq(S)
    /\ lo \in Nat /\ hi \in lo..Len(all) /\ Len(c) = hi - lo
    /\ \A j \in 1..(hi - lo) : c[j] = all[lo + j]

(* The places of a part where an entry of a kind is.                       *)
Picked(all, lo, hi, k) == {j \in (lo + 1)..hi : entries[all[j]].definition.kind = k}

(* A sequence of what is at the places X of all, and no more.              *)
Picks(S, all, X, s) ==
    /\ s \in Seq(S)
    /\ Range(s) = {all[j] : j \in X}
    /\ IsFiniteSet(X) /\ Len(s) = Cardinality(X)

LEMMA PicksOneMore ==
    ASSUME NEW S, NEW all, NEW X, NEW s, Picks(S, all, X, s), NEW j, j \notin X, all[j] \in S
    PROVE  Picks(S, all, X \cup {j}, Append(s, all[j]))
  <1> DEFINE u == Append(s, all[j])
  <1>1. /\ u \in Seq(S) /\ Len(u) = Len(s) + 1
        /\ \A i \in 1..Len(s) : u[i] = s[i]
        /\ u[Len(s) + 1] = all[j]
    BY AppendProperties DEF Picks
  <1>2. IsFiniteSet(X \cup {j}) /\ Cardinality(X \cup {j}) = Cardinality(X) + 1
    BY FS_AddElement DEF Picks
  <1>3. DOMAIN s = 1..Len(s) /\ DOMAIN u = 1..Len(u) /\ Len(s) \in Nat
    BY <1>1 DEF Picks
  <1> HIDE DEF u
  <1>4. Range(u) = Range(s) \cup {all[j]}
    <2>1. DOMAIN u = DOMAIN s \cup {Len(s) + 1}
      BY <1>1, <1>3
    <2> QED
      BY <1>1, <1>3, <2>1 DEF Range
  <1>5. Range(u) = {all[i] : i \in X \cup {j}}
    BY <1>4 DEF Picks
  <1> QED
    BY <1>1, <1>2, <1>5 DEF Picks, u

(* OfKind gives the entries of its kind.                                   *)
LEMMA OfKindPicks ==
    ASSUME NEW S, NEW all, NEW lo, NEW hi, NEW c, Slice(S, all, lo, hi, c), NEW k
    PROVE  Picks(S, all, Picked(all, lo, hi, k), OfKind(c, k))
  <1>1. PICK f : f = (CHOOSE g : Pushes(c, k, Len(c), g)) /\ OfKind(c, k) = f[Len(c)]
    BY OfKindIs
  <1>0. Len(c) \in Nat /\ Len(all) \in Nat /\ lo \in Nat /\ hi \in Nat /\ lo + Len(c) = hi
    BY DEF Slice
  <1>2. Pushes(c, k, Len(c), f)
    <2>1. \E g : Pushes(c, k, Len(c), g)
      BY <1>0, PushesExist
    <2> QED
      BY <1>1, <2>1, Zenon
  <1> DEFINE l == Len(c)
             P(m) == Picks(S, all, Picked(all, lo, lo + m, k), f[m])
             T == {m \in Nat : m <= l => P(m)}
  <1>3. P(0)
    <2>1. f[0] = <<>>
      BY <1>0, <1>2 DEF Pushes
    <2>2. Picked(all, lo, lo + 0, k) = {}
      BY <1>0 DEF Picked
    <2>3. <<>> \in Seq(S) /\ Len(<<>>) = 0 /\ Range(<<>>) = {}
      BY DEF Range
    <2> QED
      BY <2>1, <2>2, <2>3, FS_EmptySet DEF Picks
  <1>4. ASSUME NEW m \in Nat, m + 1 <= l, P(m)
        PROVE  P(m + 1)
    <2> DEFINE j == lo + (m + 1)
               X == Picked(all, lo, lo + m, k)
    <2>1. /\ m + 1 \in 0..l /\ m + 1 \in 1..l /\ (m + 1) - 1 = m /\ m + 1 # 0
          /\ j \in 1..Len(all) /\ (lo + 1)..j = ((lo + 1)..(lo + m)) \cup {j}
          /\ j \notin (lo + 1)..(lo + m)
      <3>1. l \in Nat /\ lo \in Nat /\ hi \in Nat /\ hi <= Len(all) /\ Len(all) \in Nat
            /\ lo + l = hi
        BY <1>0 DEF Slice
      <3> DEFINE a == Len(all)
      <3> HIDE DEF l, a
      <3>2. j \in 1..a
        BY <1>4, <3>1 DEF a
      <3>3. (lo + 1)..j = ((lo + 1)..(lo + m)) \cup {j}
        BY <3>1
      <3> QED
        BY <1>4, <3>1, <3>2, <3>3 DEF a
    <2>2. all[j] \in S /\ c[m + 1] = all[j]
      BY <1>0, <2>1 DEF Slice
    <2>3. j \notin X
      BY <2>1 DEF Picked
    <2>4. f[m + 1] = IF entries[c[m + 1]].definition.kind = k THEN Append(f[m], c[m + 1])
                     ELSE f[m]
      <3>1. f[m + 1] = IF m + 1 = 0 THEN <<>>
                       ELSE IF entries[c[m + 1]].definition.kind = k
                            THEN Append(f[(m + 1) - 1], c[m + 1])
                       ELSE f[(m + 1) - 1]
        BY <1>2, <2>1, Zenon DEF Pushes
      <3> QED
        BY <2>1, <3>1
    <2>5. CASE entries[all[j]].definition.kind = k
      <3>1. Picked(all, lo, j, k) = X \cup {j}
        BY <2>1, <2>5 DEF Picked
      <3>2. f[m + 1] = Append(f[m], all[j])
        BY <2>2, <2>4, <2>5
      <3> HIDE DEF j, X
      <3>3. Picks(S, all, X \cup {j}, Append(f[m], all[j]))
        BY <1>4, <2>2, <2>3, PicksOneMore DEF X
      <3> QED
        BY <3>1, <3>2, <3>3 DEF j
    <2>6. CASE entries[all[j]].definition.kind # k
      <3>1. Picked(all, lo, j, k) = X
        BY <2>1, <2>6 DEF Picked
      <3>2. f[m + 1] = f[m]
        BY <2>2, <2>4, <2>6
      <3> QED
        BY <1>4, <3>1, <3>2
    <2> QED
      BY <2>5, <2>6
  <1>5. \A m \in Nat : m \in T
    <2> HIDE DEF P, l
    <2>1. 0 \in T
      BY <1>3
    <2>2. ASSUME NEW m \in Nat, m \in T
          PROVE  m + 1 \in T
      <3>1. m + 1 <= l => m <= l
        BY <1>0 DEF l
      <3> QED
        BY <1>4, <2>2, <3>1
    <2> HIDE DEF T
    <2> QED
      BY <2>1, <2>2, SetInduction
  <1>6. P(l)
    <2> HIDE DEF P
    <2> QED
      BY <1>0, <1>5
  <1> QED
    BY <1>0, <1>1, <1>6

-----------------------------------------------------------------------------
(* Where the i-th chunk of a list of n ends, when each has max entries.    *)
Cut(n, max, i) == Min({i * max, n})

(* m chunks cover the list, one behind the other.                          *)
Cuts(n, max, m) ==
    /\ n \in Nat /\ max \in Nat /\ m \in Nat /\ m > 0
    /\ Cut(n, max, 0) = 0
    /\ Cut(n, max, m) = n
    /\ \A i \in 0..m : Cut(n, max, i) \in 0..n
    /\ \A i \in 1..m : /\ Cut(n, max, i - 1) <= Cut(n, max, i)
                       /\ Cut(n, max, i) - Cut(n, max, i - 1) <= max

LEMMA CutIs ==
    ASSUME NEW n \in Nat, NEW max \in Nat, NEW i \in Nat
    PROVE  /\ i * max \in Nat /\ (i + 1) * max = i * max + max
           /\ Cut(n, max, i) = IF i * max <= n THEN i * max ELSE n
  <1>1. i * max \in Nat /\ (i + 1) * max = i * max + max
    OBVIOUS
  <1> DEFINE x == i * max
  <1>2. x \in Nat
    BY <1>1
  <1> HIDE DEF x
  <1>3. Min({x, n}) = IF x <= n THEN x ELSE n
    BY <1>2, MinOfTwo
  <1> QED
    BY <1>1, <1>3 DEF x, Cut

LEMMA QuotientIs ==
    ASSUME NEW n \in Nat, NEW max \in Nat, max > 0
    PROVE  /\ n \div max \in Nat
           /\ max * (n \div max) <= n
           /\ n < max * (n \div max) + max
  OBVIOUS

LEMMA Products ==
    ASSUME NEW max \in Nat, NEW i \in Nat, NEW j \in Nat, i <= j
    PROVE  i * max <= j * max
  OBVIOUS

(* The number of chunks that slice::chunks gives, when it gives any, and   *)
(* one for the list that is empty.                                         *)
LEMMA ChunksCover ==
    ASSUME NEW all, Len(all) \in Nat, NEW max \in Nat, max > 0
    PROVE  /\ Chunks(all, max) \in Nat
           /\ Chunks(all, max) = 0 => Len(all) = 0 /\ Cuts(0, max, 1)
           /\ Chunks(all, max) # 0 => Cuts(Len(all), max, Chunks(all, max))
           /\ \A i \in 1..Chunks(all, max) : Cut(Len(all), max, i - 1) = (i - 1) * max
  <1> DEFINE n == Len(all)
             m == Chunks(all, max)
             b == n + max - 1
             c(i) == Cut(n, max, i)
  <1>1. m \in Nat /\ max * m <= b /\ b < max * m + max /\ b \in Nat /\ n \in Nat
    <2>1. b \in Nat /\ n \in Nat /\ m = b \div max
      BY DEF Chunks
    <2> HIDE DEF b, m, n
    <2>2. b \div max \in Nat /\ max * (b \div max) <= b /\ b < max * (b \div max) + max
      BY <2>1, QuotientIs
    <2> QED
      BY <2>1, <2>2
  <1> DEFINE e == m * max
  <1>2. e \in Nat /\ n <= e /\ e <= n + max - 1 /\ (m > 0 => e - max = (m - 1) * max)
    <2>1. e = max * m /\ b = n + max - 1
      BY <1>1
    <2>2. m > 0 => e - max = (m - 1) * max
      <3> HIDE DEF m
      <3> QED
        BY <1>1
    <2>3. e \in Nat
      <3> HIDE DEF m
      <3> QED
        BY <1>1
    <2> HIDE DEF e, b, m, n
    <2> DEFINE y == max * m
    <2> HIDE DEF y
    <2>4. e = y /\ y <= b /\ b < y + max
      BY <1>1, <2>1 DEF y
    <2> QED
      BY <1>1, <2>1, <2>2, <2>3, <2>4
  <1> HIDE DEF e, b, m, n
  <1>3. ASSUME NEW i \in Nat
        PROVE  /\ i * max \in Nat /\ (i + 1) * max = i * max + max
               /\ c(i) = IF i * max <= n THEN i * max ELSE n
    BY <1>1, CutIs
  <1>4. ASSUME NEW i \in 1..m
        PROVE  /\ (i - 1) * max < n /\ c(i - 1) = (i - 1) * max
               /\ c(i - 1) <= c(i) /\ c(i) - c(i - 1) <= max
    <2> DEFINE x == (i - 1) * max
    <2>1. i - 1 \in Nat /\ m - 1 \in Nat /\ i - 1 <= m - 1 /\ (i - 1) + 1 = i /\ m > 0
      BY <1>1
    <2>2. x <= (m - 1) * max
      BY <2>1, Products
    <2>3. x \in Nat /\ ((i - 1) + 1) * max = x + max
          /\ c(i - 1) = IF x <= n THEN x ELSE n
      BY <1>3, <2>1
    <2>4. i * max = x + max /\ c(i) = IF i * max <= n THEN i * max ELSE n
      BY <1>1, <1>3, <2>1, <2>3
    <2> HIDE DEF c
    <2>5. x <= e - max
      BY <1>2, <2>1, <2>2
    <2> HIDE DEF x
    <2> DEFINE z == i * max
    <2>6. z = x + max /\ c(i) = IF z <= n THEN z ELSE n
      BY <2>4
    <2> HIDE DEF z
    <2>7. x < n /\ c(i - 1) = x
      BY <1>1, <1>2, <2>3, <2>5
    <2>8. c(i - 1) <= c(i) /\ c(i) - c(i - 1) <= max
      BY <1>1, <2>3, <2>6, <2>7
    <2> QED
      BY <2>7, <2>8 DEF x
  <1>5. c(0) = 0 /\ c(m) = n
    <2>1. 0 * max = 0 /\ c(m) = IF e <= n THEN e ELSE n
      BY <1>1, <1>3 DEF e
    <2>2. c(0) = IF 0 * max <= n THEN 0 * max ELSE n
      BY <1>3
    <2> HIDE DEF c
    <2> QED
      BY <1>1, <1>2, <2>1, <2>2
  <1>6. \A i \in 0..m : c(i) \in 0..n
    <2> SUFFICES ASSUME NEW i \in 0..m PROVE c(i) \in 0..n
      OBVIOUS
    <2>1. i * max \in Nat /\ c(i) = IF i * max <= n THEN i * max ELSE n
      BY <1>3
    <2> DEFINE z == i * max
    <2>2. z \in Nat /\ c(i) = IF z <= n THEN z ELSE n
      BY <2>1
    <2> HIDE DEF z, c
    <2> QED
      BY <1>1, <2>2
  <1>7. m # 0 => Cuts(n, max, m)
    <2>1. m # 0 => m > 0
      BY <1>1
    <2> QED
      BY <1>1, <1>4, <1>5, <1>6, <2>1 DEF Cuts
  <1>8. m = 0 => n = 0 /\ Cuts(0, max, 1)
    <2> SUFFICES ASSUME m = 0 PROVE n = 0 /\ Cuts(0, max, 1)
      OBVIOUS
    <2>1. e = 0
      BY <1>1 DEF e
    <2>2. n = 0
      BY <1>1, <1>2, <2>1
    <2>3. ASSUME NEW i \in Nat PROVE Cut(0, max, i) = 0
      <3>1. i * max \in Nat /\ Cut(0, max, i) = IF i * max <= 0 THEN i * max ELSE 0
        BY CutIs
      <3> QED
        BY <3>1
    <2>4. \A i \in 0..1 : Cut(0, max, i) = 0
      BY <2>3
    <2>5. 1 - 1 = 0 /\ \A i \in 1..1 : i = 1
      OBVIOUS
    <2>6. \A i \in 1..1 : Cut(0, max, i - 1) = 0 /\ Cut(0, max, i) = 0
      BY <2>4, <2>5
    <2> QED
      BY <2>2, <2>4, <2>6 DEF Cuts
  <1> QED
    BY <1>1, <1>4, <1>7, <1>8 DEF m, n

(* What answers a request for lists of max entries, when all is listed.    *)
Answers(S, all, max, rs) ==
    /\ all \in Seq(S) /\ DOMAIN rs = 1..Len(rs)
    /\ Cuts(Len(all), max, Len(rs))
    /\ \A i \in 1..Len(rs) :
          /\ rs[i].done \in BOOLEAN
          /\ \A k \in WatchableKind :
                Picks(S, all, Picked(all, Cut(Len(all), max, i - 1), Cut(Len(all), max, i), k),
                      rs[i].content[k])

LEMMA SliceIs ==
    ASSUME NEW S, NEW all \in Seq(S), NEW lo \in Nat, NEW hi \in lo..Len(all)
    PROVE  Slice(S, all, lo, hi, SubSeq(all, lo + 1, hi))
  <1> DEFINE c == SubSeq(all, lo + 1, hi)
             n == Len(all)
  <1>1. n \in Nat /\ hi \in Nat /\ lo + 1 \in Int /\ hi <= n /\ lo <= hi /\ lo \in 0..n
    OBVIOUS
  <1>2. \A i \in (lo + 1)..hi : all[i] \in S
    <2>1. \A i \in (lo + 1)..hi : i \in 1..n
      <3> HIDE DEF n
      <3> QED
        BY <1>1
    <2> QED
      BY <2>1
  <1>3. /\ c \in Seq(S)
        /\ Len(c) = IF lo + 1 <= hi THEN hi - (lo + 1) + 1 ELSE 0
        /\ \A i \in 1..(hi - (lo + 1) + 1) : c[i] = all[(lo + 1) + i - 1]
    BY <1>1, <1>2, SubSeqProperties
  <1> HIDE DEF c, n
  <1>4. Len(c) = hi - lo
    BY <1>1, <1>3
  <1>5. \A j \in 1..(hi - lo) : c[j] = all[lo + j]
    <2> SUFFICES ASSUME NEW j \in 1..(hi - lo) PROVE c[j] = all[lo + j]
      OBVIOUS
    <2>1. j \in 1..(hi - (lo + 1) + 1) /\ (lo + 1) + j - 1 = lo + j
      BY <1>1
    <2> QED
      BY <1>3, <2>1
  <1> QED
    BY <1>1, <1>3, <1>4, <1>5 DEF Slice, c

LEMMA ResponseIs ==
    ASSUME NEW S, NEW all, NEW lo, NEW hi, NEW c, Slice(S, all, lo, hi, c),
           NEW done, NEW k \in WatchableKind
    PROVE  /\ ListResponse(c, done).done = done
           /\ Picks(S, all, Picked(all, lo, hi, k), ListResponse(c, done).content[k])
  <1>1. Picks(S, all, Picked(all, lo, hi, k), OfKind(c, k))
    BY OfKindPicks
  <1> QED
    BY <1>1 DEF ListResponse

(* So Responses answers.                                                   *)
LEMMA ResponsesAnswer ==
    ASSUME NEW S, NEW all \in Seq(S), NEW max \in Nat, max > 0
    PROVE  Answers(S, all, max, Responses(all, max))
  <1> DEFINE rs == Responses(all, max)
             m == Chunks(all, max)
             n == Len(all)
             c(i) == Cut(n, max, i)
  <1>1. /\ m \in Nat
        /\ m = 0 => n = 0 /\ Cuts(0, max, 1)
        /\ m # 0 => Cuts(n, max, m)
        /\ \A i \in 1..m : c(i - 1) = (i - 1) * max
    <2>1. Len(all) \in Nat
      OBVIOUS
    <2> QED
      BY <2>1, ChunksCover
  <1>2. CASE m = 0
    <2>1. rs = <<ListResponse(<<>>, TRUE)>>
      BY <1>2 DEF Responses
    <2> HIDE DEF rs
    <2>2. Len(rs) = 1 /\ DOMAIN rs = 1..1 /\ rs[1] = ListResponse(<<>>, TRUE)
      BY <2>1
    <2>3. c(0) = 0 /\ c(1) = 0
      <3>1. 0 \in 0..1 /\ 1 \in 0..1 /\ Cuts(0, max, 1) /\ n = 0
        BY <1>1, <1>2
      <3> QED
        BY <3>1 DEF Cuts
    <2>4. Slice(S, all, 0, 0, <<>>)
      BY DEF Slice
    <2> DEFINE d == TRUE
    <2>5. d \in BOOLEAN /\ rs[1] = ListResponse(<<>>, d)
      BY <2>2
    <2> HIDE DEF d
    <2>6. ASSUME NEW k \in WatchableKind
          PROVE  Picks(S, all, Picked(all, 0, 0, k), rs[1].content[k])
      BY <2>4, <2>5, ResponseIs
    <2>7. rs[1].done \in BOOLEAN
      <3>1. "Var" \in WatchableKind
        BY DEF WatchableKind
      <3>2. rs[1].done = d
        BY <2>4, <2>5, <3>1, ResponseIs
      <3> QED
        BY <2>5, <3>2
    <2>8. \A i \in 1..1 : i = 1 /\ i - 1 = 0
      OBVIOUS
    <2>9. Cuts(n, max, 1)
      BY <1>1, <1>2
    <2>10. \A i \in 1..1 :
              /\ rs[i].done \in BOOLEAN
              /\ \A k \in WatchableKind :
                    Picks(S, all, Picked(all, c(i - 1), c(i), k), rs[i].content[k])
      BY <2>3, <2>6, <2>7, <2>8
    <2> QED
      <3> DEFINE Good(i) ==
             /\ rs[i].done \in BOOLEAN
             /\ \A k \in WatchableKind :
                   Picks(S, all, Picked(all, c(i - 1), c(i), k), rs[i].content[k])
      <3>1. \A i \in 1..1 : Good(i)
        BY <2>10, Zenon
      <3> HIDE DEF Good
      <3>2. \A i \in 1..Len(rs) : Good(i)
        BY <2>2, <3>1
      <3>3. DOMAIN rs = 1..Len(rs) /\ Cuts(n, max, Len(rs))
        BY <2>2, <2>9
      <3> QED
        BY <3>2, <3>3 DEF Answers, Good, rs
  <1>3. CASE m # 0
    <2> DEFINE Response(i) == ListResponse(Chunk(all, max, i), i = m)
    <2>1. rs = [i \in 1..m |-> Response(i)]
      BY <1>3, Zenon DEF Responses
    <2> HIDE DEF rs, Response
    <2>2. Len(rs) = m /\ DOMAIN rs = 1..m /\ \A i \in 1..m : rs[i] = Response(i)
      BY <1>1, <2>1
    <2>3. Cuts(n, max, m)
      BY <1>1, <1>3
    <2>4. ASSUME NEW i \in 1..m, NEW k \in WatchableKind
          PROVE  /\ rs[i].done \in BOOLEAN
                 /\ Picks(S, all, Picked(all, c(i - 1), c(i), k), rs[i].content[k])
      <3>1. i - 1 \in 0..m /\ i \in 0..m
        BY <1>1
      <3>2. /\ c(i - 1) \in 0..n /\ c(i) \in 0..n /\ c(i - 1) <= c(i)
            /\ c(i - 1) = (i - 1) * max
        BY <1>1, <2>3, <3>1 DEF Cuts
      <3>3. Chunk(all, max, i) = SubSeq(all, c(i - 1) + 1, c(i))
        BY <3>2, Zenon DEF Chunk, Cut
      <3> HIDE DEF c
      <3>4. c(i - 1) \in Nat /\ c(i) \in c(i - 1)..n
        BY <3>2
      <3>5. Slice(S, all, c(i - 1), c(i), Chunk(all, max, i))
        BY <3>3, <3>4, SliceIs
      <3> DEFINE d == i = m
      <3>6. d \in BOOLEAN /\ rs[i] = ListResponse(Chunk(all, max, i), d)
        BY <2>2 DEF Response
      <3> HIDE DEF d
      <3>7. /\ rs[i].done = d
            /\ Picks(S, all, Picked(all, c(i - 1), c(i), k), rs[i].content[k])
        BY <3>5, <3>6, ResponseIs
      <3> QED
        BY <3>6, <3>7
    <2>5. \A i \in 1..m : rs[i].done \in BOOLEAN
      BY <2>4 DEF WatchableKind
    <2>6. \A i \in 1..m :
             /\ rs[i].done \in BOOLEAN
             /\ \A k \in WatchableKind :
                   Picks(S, all, Picked(all, c(i - 1), c(i), k), rs[i].content[k])
      <3> HIDE DEF m, c
      <3> QED
        BY <2>4, <2>5
    <2> HIDE DEF m
    <2> QED
      <3> DEFINE Good(i) ==
             /\ rs[i].done \in BOOLEAN
             /\ \A k \in WatchableKind :
                   Picks(S, all, Picked(all, c(i - 1), c(i), k), rs[i].content[k])
      <3>1. \A i \in 1..m : Good(i)
        BY <2>6, Zenon
      <3> HIDE DEF Good
      <3>2. \A i \in 1..Len(rs) : Good(i)
        BY <2>2, <3>1
      <3>3. DOMAIN rs = 1..Len(rs) /\ Cuts(n, max, Len(rs))
        BY <2>2, <2>3
      <3> QED
        BY <3>2, <3>3 DEF Answers, Good, rs
  <1> QED
    BY <1>2, <1>3

-----------------------------------------------------------------------------
(* What such an answer lists.                                              *)

(* Every place of the list is in a chunk.                                  *)
LEMMA PlaceInChunk ==
    ASSUME NEW n, NEW max, NEW m, Cuts(n, max, m), NEW j \in 1..n
    PROVE  \E i \in 1..m : j \in (Cut(n, max, i - 1) + 1)..Cut(n, max, i)
  <1> DEFINE c(i) == Cut(n, max, i)
             T == {i \in 0..m : j <= c(i)}
  <1>1. /\ n \in Nat /\ m \in Nat /\ c(0) = 0 /\ c(m) = n
        /\ \A i \in 0..m : c(i) \in 0..n
    BY DEF Cuts
  <1> HIDE DEF c
  <1>2. m \in T /\ T \subseteq Nat
    BY <1>1
  <1>3. PICK i \in T : \A x \in T : i <= x
    BY <1>2, Smallest
  <1>4. i \in 1..m /\ i - 1 \in 0..m
    BY <1>1, <1>3
  <1>5. ~(j <= c(i - 1))
    <2>1. ~(i <= i - 1)
      BY <1>4
    <2> QED
      BY <1>3, <1>4, <2>1
  <1>6. c(i - 1) \in 0..n /\ c(i) \in 0..n /\ j <= c(i)
    BY <1>1, <1>3, <1>4
  <1>7. j \in (c(i - 1) + 1)..c(i)
    BY <1>5, <1>6
  <1> QED
    BY <1>4, <1>7 DEF c

(* The entries at some places of a list.                                   *)
EntriesAt(all, X) == {all[j] : j \in X}

(* All the entries of a kind are listed under it, and no others are.       *)
LEMMA ListedOfKind ==
    ASSUME NEW S, NEW all, NEW max, NEW rs, Answers(S, all, max, rs), NEW k \in WatchableKind
    PROVE  UNION {Range(rs[i].content[k]) : i \in 1..Len(rs)}
              = EntriesAt(all, Picked(all, 0, Len(all), k))
  <1> DEFINE n == Len(all)
             m == Len(rs)
             c(i) == Cut(n, max, i)
             L(i) == Range(rs[i].content[k])
             In(i) == Picked(all, c(i - 1), c(i), k)
             All == Picked(all, 0, n, k)
  <1>1. Cuts(n, max, m)
    BY Zenon DEF Answers
  <1>2. \A i \in 1..m : L(i) = {all[j] : j \in In(i)}
    BY DEF Answers, Picks
  <1>3. \A i \in 1..m : In(i) \subseteq All
    <2> SUFFICES ASSUME NEW i \in 1..m PROVE In(i) \subseteq All
      OBVIOUS
    <2>1. m \in Nat /\ n \in Nat
      BY <1>1 DEF Cuts
    <2>2. i - 1 \in 0..m /\ i \in 0..m
      BY <2>1
    <2>3. c(i - 1) \in 0..n /\ c(i) \in 0..n
      BY <1>1, <2>2 DEF Cuts
    <2> HIDE DEF c, n
    <2>4. (c(i - 1) + 1)..c(i) \subseteq (0 + 1)..n
      BY <2>1, <2>3
    <2> QED
      BY <2>4 DEF Picked
  <1>4. \A j \in All : \E i \in 1..m : j \in In(i)
    <2> SUFFICES ASSUME NEW j \in All PROVE \E i \in 1..m : j \in In(i)
      OBVIOUS
    <2>1. j \in 1..n /\ entries[all[j]].definition.kind = k
      BY DEF Picked
    <2>2. PICK i \in 1..m : j \in (c(i - 1) + 1)..c(i)
      BY <1>1, <2>1, PlaceInChunk
    <2> QED
      BY <2>1, <2>2 DEF Picked
  <1> HIDE DEF L, In, All, m
  <1>5. UNION {L(i) : i \in 1..m} = {all[j] : j \in All}
    BY <1>2, <1>3, <1>4
  <1> QED
    BY <1>5 DEF L, All, m, EntriesAt

KindsOf(all) == \A j \in 1..Len(all) : entries[all[j]].definition.kind \in WatchableKind

(* The places of a part, kind by kind, are all of its places.              *)
LEMMA PickedAll ==
    ASSUME NEW all, Len(all) \in Nat, KindsOf(all),
           NEW lo \in Nat, NEW hi \in lo..Len(all)
    PROVE  /\ \A k \in WatchableKind : IsFiniteSet(Picked(all, lo, hi, k))
           /\ Cardinality(Picked(all, lo, hi, "Var")) + Cardinality(Picked(all, lo, hi, "Rpv"))
                 + Cardinality(Picked(all, lo, hi, "Alias")) = hi - lo
  <1> DEFINE V == Picked(all, lo, hi, "Var")
             R == Picked(all, lo, hi, "Rpv")
             A == Picked(all, lo, hi, "Alias")
             I == (lo + 1)..hi
  <1>1. IsFiniteSet(I) /\ Cardinality(I) = hi - lo
    <2>1. lo + 1 \in Int /\ hi \in Int /\ lo <= hi
      OBVIOUS
    <2>2. IsFiniteSet(I) /\ Cardinality(I) = IF lo + 1 > hi THEN 0 ELSE hi - (lo + 1) + 1
      BY <2>1, FS_Interval
    <2> QED
      BY <2>1, <2>2
  <1>2. \A k \in WatchableKind : IsFiniteSet(Picked(all, lo, hi, k))
    <2>1. \A k \in WatchableKind : Picked(all, lo, hi, k) \in SUBSET I
      BY DEF Picked
    <2> HIDE DEF I
    <2> QED
      BY <1>1, <2>1, FS_Subset
  <1>3. I = (V \cup R) \cup A
    <2>1. I \subseteq 1..Len(all)
      OBVIOUS
    <2> QED
      BY <2>1 DEF Picked, KindsOf, WatchableKind
  <1>4. V \cap R = {} /\ (V \cup R) \cap A = {}
    BY DEF Picked
  <1>5. IsFiniteSet(V) /\ IsFiniteSet(R) /\ IsFiniteSet(A)
    BY <1>2 DEF WatchableKind
  <1> HIDE DEF V, R, A, I
  <1>6. /\ IsFiniteSet(V \cup R)
        /\ Cardinality(V \cup R) = Cardinality(V) + Cardinality(R) - Cardinality(V \cap R)
    BY <1>5, FS_Union
  <1>7. Cardinality((V \cup R) \cup A)
           = Cardinality(V \cup R) + Cardinality(A) - Cardinality((V \cup R) \cap A)
    BY <1>5, <1>6, FS_Union
  <1>8. Cardinality({}) = 0 /\ Cardinality(V) \in Nat /\ Cardinality(R) \in Nat /\ Cardinality(A) \in Nat
    BY <1>5, FS_EmptySet, FS_CardinalityType
  <1>9. Cardinality(V) + Cardinality(R) + Cardinality(A) = hi - lo
    <2>1. Cardinality((V \cup R) \cup A) = hi - lo
      BY <1>1, <1>3
    <2>2. Cardinality(V \cap R) = 0 /\ Cardinality((V \cup R) \cap A) = 0
      BY <1>4, <1>8
    <2> DEFINE v == Cardinality(V)
               r == Cardinality(R)
               a == Cardinality(A)
               b == Cardinality(V \cup R)
               d == hi - lo
    <2>3. v \in Nat /\ r \in Nat /\ a \in Nat /\ b = v + r - 0 /\ d = b + a - 0 /\ d \in Int
      BY <1>6, <1>7, <1>8, <2>1, <2>2
    <2> HIDE DEF v, r, a, b, d
    <2>4. v + r + a = d
      BY <2>3
    <2> QED
      BY <2>4 DEF v, r, a, d
  <1> QED
    BY <1>2, <1>9 DEF V, R, A

(* A response is as long as its chunk.                                     *)
Total(r) == Len(r.content["Var"]) + Len(r.content["Rpv"]) + Len(r.content["Alias"])

LEMMA SizeOfChunk ==
    ASSUME NEW S, NEW all, NEW max, NEW rs, Answers(S, all, max, rs), KindsOf(all),
           NEW i \in 1..Len(rs)
    PROVE  Total(rs[i]) = Cut(Len(all), max, i) - Cut(Len(all), max, i - 1)
  <1> DEFINE n == Len(all)
             m == Len(rs)
             lo == Cut(n, max, i - 1)
             hi == Cut(n, max, i)
  <1>1. Cuts(n, max, m)
    BY Zenon DEF Answers
  <1>2. n \in Nat /\ lo \in Nat /\ hi \in lo..n
    <2>1. n \in Nat /\ m \in Nat
      BY <1>1 DEF Cuts
    <2>2. i - 1 \in 0..m /\ i \in 0..m
      BY <2>1
    <2>3. lo \in 0..n /\ hi \in 0..n /\ lo <= hi
      BY <1>1, <2>2 DEF Cuts
    <2> HIDE DEF lo, hi, n
    <2> QED
      BY <2>1, <2>3
  <1>3. \A k \in WatchableKind : Len(rs[i].content[k]) = Cardinality(Picked(all, lo, hi, k))
    BY DEF Answers, Picks
  <1> HIDE DEF lo, hi
  <1>4. Cardinality(Picked(all, lo, hi, "Var")) + Cardinality(Picked(all, lo, hi, "Rpv"))
           + Cardinality(Picked(all, lo, hi, "Alias")) = hi - lo
    BY <1>2, PickedAll
  <1>5. "Var" \in WatchableKind /\ "Rpv" \in WatchableKind /\ "Alias" \in WatchableKind
    BY DEF WatchableKind
  <1>6. Total(rs[i]) = hi - lo
    BY <1>3, <1>4, <1>5 DEF Total
  <1> QED
    BY <1>6 DEF lo, hi

-----------------------------------------------------------------------------
(* Sums over the responses.                                                *)

LEMMA SizeIs ==
    ASSUME NEW S, NEW all, NEW max, Answers(S, all, max, responses), KindsOf(all),
           NEW i \in 1..Len(responses)
    PROVE  Size(i) = Cut(Len(all), max, i) - Cut(Len(all), max, i - 1)
  <1>1. Size(i) = Total(responses[i])
    BY Zenon DEF Size, Total
  <1>2. Total(responses[i]) = Cut(Len(all), max, i) - Cut(Len(all), max, i - 1)
    BY SizeOfChunk
  <1> QED
    BY <1>1, <1>2, Zenon

(* The sizes of the responses add up to the length of the list.            *)
LEMMA SumOfSizes ==
    ASSUME NEW S, NEW all, NEW max, Answers(S, all, max, responses), KindsOf(all)
    PROVE  FoldLeftDomain(LAMBDA n, i : n + Size(i), 0, responses) = Len(all)
  <1> DEFINE m == Len(responses)
             d == [i \in DOMAIN responses |-> i]
             w == [i \in 1..m |-> Size(i)]
             Orig(f) == f = [s \in SUBSET (DOMAIN d) |->
                               IF s = {} THEN 0 ELSE f[s \ {Max(s)}] + Size(d[Max(s)])]
             g == CHOOSE f : Orig(f)
             c(i) == Cut(Len(all), max, i)
             C == [i \in 0..m |-> c(i)]
  <1>1. DOMAIN responses = 1..m /\ m \in Nat /\ Cuts(Len(all), max, m)
    BY DEF Answers, Cuts
  <1>2. FoldLeftDomain(LAMBDA n, i : n + Size(i), 0, responses) = g[1..m]
    <2>1. DOMAIN d = 1..m
      BY <1>1
    <2>2. FoldLeftDomain(LAMBDA n, i : n + Size(i), 0, responses) = g[DOMAIN d]
      BY Zenon DEF FoldLeftDomain, FoldLeft, MapThenFoldSet
    <2> QED
      BY <2>1, <2>2, Zenon
  <1>3. ASSUME NEW f
        PROVE  Orig(f) <=> Summing(w, m, f)
    <2>1. ASSUME NEW s \in SUBSET (1..m), s # {}
          PROVE  Size(d[Max(s)]) = w[Max(s)]
      <3>1. Max(s) \in 1..m
        BY <1>1, <2>1, MaxIsGreatest
      <3>2. d[Max(s)] = Max(s) /\ w[Max(s)] = Size(Max(s))
        BY <1>1, <3>1
      <3> QED
        BY <3>2
    <2>2. DOMAIN d = 1..m
      BY <1>1
    <2> HIDE DEF w, d, m
    <2>3. [s \in SUBSET (1..m) |-> IF s = {} THEN 0 ELSE f[s \ {Max(s)}] + Size(d[Max(s)])]
             = [s \in SUBSET (1..m) |-> IF s = {} THEN 0 ELSE f[s \ {Max(s)}] + w[Max(s)]]
      BY <2>1
    <2> QED
      BY <2>2, <2>3, Zenon DEF Summing
  <1>4. Summing(w, m, g)
    <2> HIDE DEF Orig, w, m
    <2>1. PICK f : Summing(w, m, f)
      BY <1>1, SumExists
    <2>2. Orig(f)
      BY <1>3, <2>1
    <2>3. Orig(g)
      BY <2>2, Zenon
    <2> QED
      BY <1>3, <2>3
  <1>5. \A i \in 1..m : C[i] = C[i - 1] + w[i]
    <2> SUFFICES ASSUME NEW i \in 1..m PROVE C[i] = C[i - 1] + w[i]
      OBVIOUS
    <2>1. i \in 0..m /\ i - 1 \in 0..m
      BY <1>1
    <2>2. w[i] = c(i) - c(i - 1)
      <3>1. i \in 1..Len(responses)
        OBVIOUS
      <3>2. Size(i) = c(i) - c(i - 1)
        BY <3>1, SizeIs, Zenon
      <3> QED
        BY <3>2
    <2>3. c(i) \in Nat /\ c(i - 1) \in Nat
      BY <1>1, <2>1 DEF Cuts
    <2>4. C[i] = c(i) /\ C[i - 1] = c(i - 1)
      BY <2>1
    <2> HIDE DEF c, C, w
    <2> QED
      BY <2>2, <2>3, <2>4
  <1>6. C[0] = 0 /\ C[m] = Len(all)
    BY <1>1 DEF Cuts
  <1> HIDE DEF g, w, C, m
  <1>7. g[1..m] = Len(all)
    BY <1>1, <1>4, <1>5, <1>6, SumIs
  <1> QED
    BY <1>2, <1>7

(* What is counted of one part and the next is counted of both.            *)
LEMMA PickedSplit ==
    ASSUME NEW all, NEW lo \in Nat, NEW hi \in Nat, lo <= hi, NEW k
    PROVE  /\ IsFiniteSet(Picked(all, 0, hi, k)) /\ Cardinality(Picked(all, 0, hi, k)) \in Nat
           /\ Cardinality(Picked(all, lo, hi, k)) \in Nat
           /\ Cardinality(Picked(all, 0, hi, k))
                 = Cardinality(Picked(all, 0, lo, k)) + Cardinality(Picked(all, lo, hi, k))
  <1> DEFINE A == Picked(all, 0, lo, k)
             B == Picked(all, lo, hi, k)
             C == Picked(all, 0, hi, k)
  <1>1. A \in SUBSET (1..hi) /\ B \in SUBSET (1..hi) /\ C = A \cup B /\ A \cap B = {}
    <2>1. (0 + 1)..hi = ((0 + 1)..lo) \cup ((lo + 1)..hi)
      OBVIOUS
    <2>2. ((0 + 1)..lo) \cap ((lo + 1)..hi) = {} /\ 0 + 1 = 1
      OBVIOUS
    <2>3. C = A \cup B
      BY <2>1 DEF Picked
    <2>4. A \cap B = {}
      BY <2>2 DEF Picked
    <2>5. A \subseteq 1..hi /\ B \subseteq 1..hi
      BY <2>1, <2>2 DEF Picked
    <2> QED
      BY <2>3, <2>4, <2>5
  <1>2. IsFiniteSet(1..hi)
    BY FS_Interval
  <1> HIDE DEF A, B, C
  <1>3. IsFiniteSet(A) /\ IsFiniteSet(B)
    BY <1>1, <1>2, FS_Subset
  <1>4. IsFiniteSet(C) /\ Cardinality(C) = Cardinality(A) + Cardinality(B) - Cardinality(A \cap B)
    BY <1>1, <1>3, FS_Union
  <1>5. Cardinality(A \cap B) = 0
    BY <1>1, FS_EmptySet
  <1>6. Cardinality(A) \in Nat /\ Cardinality(B) \in Nat /\ Cardinality(C) \in Nat
    BY <1>3, <1>4, FS_CardinalityType
  <1>7. Cardinality(C) = Cardinality(A) + Cardinality(B)
    BY <1>4, <1>5, <1>6
  <1> QED
    BY <1>4, <1>6, <1>7 DEF A, B, C

(* The lists of a kind add up to the number of the entries of that kind.   *)
LEMMA SumOfKind ==
    ASSUME NEW S, NEW all, NEW max, Answers(S, all, max, responses),
           NEW k \in WatchableKind
    PROVE  FoldLeftDomain(LAMBDA n, i : n + Len(responses[i].content[k]), 0, responses)
              = Cardinality(Picked(all, 0, Len(all), k))
  <1> DEFINE m == Len(responses)
             d == [i \in DOMAIN responses |-> i]
             size(i) == Len(responses[i].content[k])
             w == [i \in 1..m |-> size(i)]
             Orig(f) == f = [s \in SUBSET (DOMAIN d) |->
                               IF s = {} THEN 0 ELSE f[s \ {Max(s)}] + size(d[Max(s)])]
             g == CHOOSE f : Orig(f)
             c(i) == Cut(Len(all), max, i)
             C == [i \in 0..m |-> Cardinality(Picked(all, 0, c(i), k))]
  <1>1. DOMAIN responses = 1..m /\ m \in Nat /\ Cuts(Len(all), max, m)
    BY DEF Answers, Cuts
  <1>2. FoldLeftDomain(LAMBDA n, i : n + Len(responses[i].content[k]), 0, responses) = g[1..m]
    <2>1. DOMAIN d = 1..m
      BY <1>1
    <2>2. FoldLeftDomain(LAMBDA n, i : n + Len(responses[i].content[k]), 0, responses)
             = g[DOMAIN d]
      BY Zenon DEF FoldLeftDomain, FoldLeft, MapThenFoldSet
    <2> QED
      BY <2>1, <2>2, Zenon
  <1> HIDE DEF size
  <1>3. ASSUME NEW f
        PROVE  Orig(f) <=> Summing(w, m, f)
    <2>1. ASSUME NEW s \in SUBSET (1..m), s # {}
          PROVE  size(d[Max(s)]) = w[Max(s)]
      <3>1. Max(s) \in 1..m
        BY <1>1, <2>1, MaxIsGreatest
      <3>2. d[Max(s)] = Max(s) /\ w[Max(s)] = size(Max(s))
        BY <1>1, <3>1
      <3> QED
        BY <3>2
    <2>2. DOMAIN d = 1..m
      BY <1>1
    <2> HIDE DEF w, d, m
    <2>3. [s \in SUBSET (1..m) |-> IF s = {} THEN 0 ELSE f[s \ {Max(s)}] + size(d[Max(s)])]
             = [s \in SUBSET (1..m) |-> IF s = {} THEN 0 ELSE f[s \ {Max(s)}] + w[Max(s)]]
      BY <2>1
    <2> QED
      BY <2>2, <2>3, Zenon DEF Summing
  <1>4. Summing(w, m, g)
    <2> HIDE DEF Orig, w, m
    <2>1. PICK f : Summing(w, m, f)
      BY <1>1, SumExists
    <2>2. Orig(f)
      BY <1>3, <2>1
    <2>3. Orig(g)
      BY <2>2, Zenon
    <2> QED
      BY <1>3, <2>3
  <1>5. \A i \in 1..m : C[i] = C[i - 1] + w[i]
    <2> SUFFICES ASSUME NEW i \in 1..m PROVE C[i] = C[i - 1] + w[i]
      OBVIOUS
    <2> DEFINE lo == c(i - 1)
               hi == c(i)
    <2>1. i \in 0..m /\ i - 1 \in 0..m
      BY <1>1
    <2>2. Picks(S, all, Picked(all, lo, hi, k), responses[i].content[k])
      BY Zenon DEF Answers
    <2>3. w[i] = Cardinality(Picked(all, lo, hi, k))
      BY <2>2 DEF Picks, size
    <2>4. lo \in Nat /\ hi \in Nat /\ lo <= hi
      BY <1>1, <2>1 DEF Cuts
    <2>5. /\ C[i] = Cardinality(Picked(all, 0, hi, k))
          /\ C[i - 1] = Cardinality(Picked(all, 0, lo, k))
      BY <2>1
    <2> HIDE DEF lo, hi, C, w
    <2>6. Cardinality(Picked(all, 0, hi, k))
             = Cardinality(Picked(all, 0, lo, k)) + Cardinality(Picked(all, lo, hi, k))
      BY <2>4, PickedSplit
    <2> QED
      BY <2>3, <2>5, <2>6
  <1>6. C[0] = 0 /\ C[m] = Cardinality(Picked(all, 0, Len(all), k))
    <2>1. c(0) = 0 /\ c(m) = Len(all) /\ 0 \in 0..m /\ m \in 0..m
      BY <1>1 DEF Cuts
    <2>2. Picked(all, 0, 0, k) = {}
      BY DEF Picked
    <2> QED
      BY <2>1, <2>2, FS_EmptySet
  <1> HIDE DEF g, w, C, m
  <1>7. g[1..m] = Cardinality(Picked(all, 0, Len(all), k))
    BY <1>1, <1>4, <1>5, <1>6, SumIs
  <1> QED
    BY <1>2, <1>7

-----------------------------------------------------------------------------
(* The selection, put into a sequence.                                     *)
LEMMA SequenceOf ==
    ASSUME NEW X, IsFiniteSet(X), NEW all \in SetToSeqs(X)
    PROVE  /\ all \in Seq(X) /\ Len(all) = Cardinality(X) /\ Len(all) \in Nat
           /\ X = {all[j] : j \in 1..Len(all)}
           /\ \A i, j \in 1..Len(all) : i # j => all[i] # all[j]
  <1> DEFINE n == Cardinality(X)
  <1>1. n \in Nat
    BY FS_CardinalityType
  <1>2. all \in [1..n -> X] /\ \A i, j \in 1..n : i # j => all[i] # all[j]
    BY DEF SetToSeqs
  <1>3. IsFiniteSet(1..n) /\ Cardinality(1..n) = n
    <2>1. 1 \in Int /\ n \in Int
      BY <1>1
    <2> HIDE DEF n
    <2>2. IsFiniteSet(1..n) /\ Cardinality(1..n) = IF 1 > n THEN 0 ELSE n - 1 + 1
      BY <2>1, FS_Interval
    <2> QED
      BY <1>1, <2>2
  <1>4. all \in Injection(1..n, X)
    BY <1>2 DEF Injection, IsInjective
  <1>5. all \in Surjection(1..n, X)
    BY <1>3, <1>4, FS_Injection
  <1>6. X = {all[j] : j \in 1..n}
    BY <1>2, <1>5 DEF Surjection
  <1>7. all \in Seq(X) /\ Len(all) = n
    <2> HIDE DEF n
    <2> QED
      BY <1>1, <1>2
  <1> QED
    BY <1>1, <1>2, <1>6, <1>7

(* As many places have an entry of a kind as the selection has.            *)
LEMMA PickedOfSelection ==
    ASSUME NEW X, IsFiniteSet(X), NEW all \in SetToSeqs(X), NEW k
    PROVE  /\ EntriesAt(all, Picked(all, 0, Len(all), k))
                 = {p \in X : entries[p].definition.kind = k}
           /\ Cardinality(Picked(all, 0, Len(all), k))
                 = Cardinality({p \in X : entries[p].definition.kind = k})
  <1> DEFINE P == Picked(all, 0, Len(all), k)
             Y == {p \in X : entries[p].definition.kind = k}
             f == [j \in P |-> all[j]]
             n == Len(all)
  <1>1. /\ n \in Nat /\ X = {all[j] : j \in 1..n}
        /\ \A i, j \in 1..n : i # j => all[i] # all[j]
    BY SequenceOf
  <1>2. P = {j \in 1..n : entries[all[j]].definition.kind = k}
    BY DEF Picked
  <1> HIDE DEF P, n
  <1>3. {all[j] : j \in P} = Y
    BY <1>1, <1>2
  <1>4. IsFiniteSet(P)
    <2>1. P \in SUBSET (1..n)
      BY <1>2
    <2>2. IsFiniteSet(1..n)
      BY <1>1, FS_Interval
    <2> QED
      BY <2>1, <2>2, FS_Subset
  <1>5. f \in Bijection(P, Y)
    <2>1. f \in [P -> Y]
      BY <1>3
    <2>2. \A i, j \in P : f[i] = f[j] => i = j
      BY <1>1, <1>2
    <2>3. \A y \in Y : \E j \in P : f[j] = y
      BY <1>3
    <2> HIDE DEF Y, f
    <2> QED
      BY <2>1, <2>2, <2>3 DEF Bijection, Injection, Surjection, IsInjective
  <1>6. Cardinality(Y) = Cardinality(P)
    <2> HIDE DEF Y, f
    <2> QED
      BY <1>4, <1>5, FS_Bijection DEF ExistsBijection
  <1> QED
    BY <1>3, <1>6 DEF P, EntriesAt

-----------------------------------------------------------------------------
(* What the clients have been told stays what the registry says: it is     *)
(* told only when the registry is complete, which does not change again.   *)

(* rs answers the request r.                                               *)
Lists(r, rs) ==
    /\ r \in ListRequests /\ r.max_per > 0
    /\ \E all \in SetToSeqs(Selected(r)) : Answers(Paths, all, r.max_per, rs)

InfoOf(names) ==
    IF Range(names) \subseteq DOMAIN entries
    THEN [error |-> FALSE, info |-> [p \in Range(names) |-> make_detailed(p)]]
    ELSE [error |-> TRUE, info |-> NoDetails.info]

NothingTold ==
    /\ request = NoRequest /\ responses = <<>> /\ counted = NoCount
    /\ asked = <<>> /\ details = NoDetails

ToldAsRegistered ==
    /\ request \in ListRequests \cup {NoRequest}
    /\ responses # <<>> => Lists(request, responses)
    /\ counted \in {NoCount, Quantities}
    /\ asked \in InfoRequests \cup {<<>>}
    /\ asked # <<>> => details = InfoOf(asked)
    /\ asked = <<>> => DOMAIN details.info = {}

AnswerInvariant ==
    /\ Invariant
    /\ phase = "populate" => NothingTold
    /\ ToldAsRegistered

(* The registry gives what it gave.                                        *)
LEMMA SameRegistry ==
    ASSUME entries' = entries
    PROVE  /\ Quantities' = Quantities
           /\ \A r, rs : (Lists(r, rs))' <=> Lists(r, rs)
           /\ \A names : (InfoOf(names))' = InfoOf(names)
  <1>1. Quantities' = Quantities
    BY DEF Quantities
  <1>2. \A names : (InfoOf(names))' = InfoOf(names)
    BY DEF InfoOf, make_detailed
  <1>3. ASSUME NEW r
        PROVE  (Selected(r))' = Selected(r)
    BY DEF Selected
  <1>4. ASSUME NEW all, NEW lo, NEW hi, NEW k
        PROVE  (Picked(all, lo, hi, k))' = Picked(all, lo, hi, k)
    BY DEF Picked
  <1>5. ASSUME NEW all, NEW max, NEW rs
        PROVE  (Answers(Paths, all, max, rs))' <=> Answers(Paths, all, max, rs)
    BY <1>4, Zenon DEF Answers
  <1>6. \A r, rs : (Lists(r, rs))' <=> Lists(r, rs)
    BY <1>3, <1>5, Zenon DEF Lists
  <1> QED
    BY <1>1, <1>2, <1>6

(* A list is given.                                                        *)
LEMMA ListLists ==
    ASSUME Invariant, NEW r \in ListRequests, List(r)
    PROVE  Lists(r, responses')
  <1>1. PICK all \in SetToSeqs(Selected(r)) : responses' = Responses(all, r.max_per)
    BY DEF List
  <1>2. r.max_per \in Nat /\ r.max_per > 0
    BY ListAssumption DEF List
  <1>3. IsFiniteSet(Selected(r)) /\ Selected(r) \subseteq Paths
    <2>1. Selected(r) \in SUBSET (DOMAIN entries)
      BY DEF Selected
    <2> QED
      BY <2>1, FS_Subset DEF Invariant, DatastoreTypeOK
  <1> DEFINE X == Selected(r)
             n == r.max_per
  <1> HIDE DEF X, n
  <1>4. all \in Seq(X) /\ X \subseteq Paths
    BY <1>1, <1>3, SequenceOf DEF X
  <1>5. all \in Seq(Paths)
    BY <1>4
  <1>6. Answers(Paths, all, n, Responses(all, n))
    BY <1>2, <1>5, ResponsesAnswer DEF n
  <1> QED
    BY <1>1, <1>2, <1>6 DEF Lists, n

LEMMA NothingIsAsRegistered ==
    ASSUME NothingTold
    PROVE  ToldAsRegistered
  <1>1. DOMAIN NoDetails.info = {}
    BY DEF NoDetails
  <1> QED
    BY <1>1 DEF NothingTold, ToldAsRegistered

LEMMA AnswerStep ==
    ASSUME AnswerInvariant, [Next]_vars
    PROVE  AnswerInvariant'
  <1>1. Invariant'
    BY InvariantStep DEF AnswerInvariant
  <1>2. CASE Populate /\ UNCHANGED <<listVars, answerVars>>
    <2>1. phase = "populate"
      BY <1>2 DEF Populate, PopulateOther, PopulateRpv, PopulatePanics, Populated, Populating
    <2>2. NothingTold'
      BY <1>2, <2>1 DEF AnswerInvariant, NothingTold, listVars, answerVars
    <2>3. ToldAsRegistered'
      <3>1. DOMAIN NoDetails.info = {}
        BY DEF NoDetails
      <3> QED
        BY <2>2, <3>1 DEF NothingTold, ToldAsRegistered
    <2> QED
      BY <1>1, <2>2, <2>3 DEF AnswerInvariant
  <1>3. ASSUME entries' = entries, phase' \in {phase, "panicked"}, UNCHANGED listVars,
               UNCHANGED counted \/ counted' = Quantities,
               \/ UNCHANGED <<asked, details>>
               \/ asked' \in InfoRequests /\ details' = InfoOf(asked'),
               phase = "populate" => UNCHANGED answerVars
        PROVE  AnswerInvariant'
    <2>1. phase' = "populate" => NothingTold'
      BY <1>3 DEF AnswerInvariant, NothingTold, listVars, answerVars
    <2>2. responses' # <<>> => (Lists(request, responses))'
      <3>1. ASSUME responses # <<>>
            PROVE  (Lists(request, responses))'
        <4>1. Lists(request, responses) /\ request' = request /\ responses' = responses
          BY <1>3, <3>1 DEF AnswerInvariant, ToldAsRegistered, listVars
        <4> QED
          BY <1>3, <4>1, SameRegistry
      <3> QED
        BY <1>3, <3>1 DEF listVars
    <2>3. /\ request' \in ListRequests \cup {NoRequest}
          /\ counted' \in {NoCount, Quantities'}
      BY <1>3, SameRegistry DEF AnswerInvariant, ToldAsRegistered, listVars
    <2>4. CASE UNCHANGED <<asked, details>>
      <3>1. asked' # <<>> => details' = InfoOf(asked)
        BY <2>4 DEF AnswerInvariant, ToldAsRegistered
      <3>2. asked' # <<>> => details' = InfoOf(asked)'
        BY <1>3, <2>4, <3>1, SameRegistry
      <3> QED
        BY <1>1, <2>1, <2>2, <2>3, <2>4, <3>2 DEF AnswerInvariant, ToldAsRegistered
    <2>5. CASE asked' \in InfoRequests /\ details' = InfoOf(asked')
      <3>1. details' = InfoOf(asked)'
        BY <1>3, <2>5, SameRegistry
      <3>2. asked' = <<>> => DOMAIN details'.info = {}
        BY <2>5 DEF InfoOf, NoDetails, Range
      <3> QED
        BY <1>1, <2>1, <2>2, <2>3, <2>5, <3>1, <3>2 DEF AnswerInvariant, ToldAsRegistered
    <2> QED
      BY <1>3, <2>4, <2>5
  <1>4. ASSUME NEW r \in ListRequests, List(r)
        PROVE  AnswerInvariant'
    <2>1. /\ entries' = entries /\ phase' = "ready" /\ request' = r
          /\ UNCHANGED <<counted, asked, details>>
      BY <1>4 DEF List, datastoreVars, answerVars
    <2>2. Lists(r, responses')
      BY <1>4, ListLists DEF AnswerInvariant
    <2>3. (Lists(request, responses))'
      BY <2>1, <2>2, SameRegistry
    <2>4. InfoOf(asked)' = InfoOf(asked)
      BY <2>1, SameRegistry
    <2> QED
      BY <1>1, <2>1, <2>3, <2>4, SameRegistry DEF AnswerInvariant, ToldAsRegistered
  <1>5. CASE Count \/ ListPanics \/ Panicked \/ UNCHANGED vars
    <2>1. /\ entries' = entries /\ phase' \in {phase, "panicked"} /\ UNCHANGED listVars
          /\ UNCHANGED counted \/ counted' = Quantities
          /\ UNCHANGED <<asked, details>>
          /\ phase = "populate" => UNCHANGED answerVars
      BY <1>5 DEF Count, ListPanics, Panicked, vars, datastoreVars, answerVars
    <2> QED
      BY <1>3, <2>1
  <1>6. ASSUME NEW names \in InfoRequests, Info(names)
        PROVE  AnswerInvariant'
    <2>1. /\ entries' = entries /\ phase' = phase /\ phase = "ready" /\ UNCHANGED listVars
          /\ UNCHANGED counted
          /\ asked' = names /\ details' = InfoOf(names)
      BY <1>6 DEF Info, InfoOf, datastoreVars, listVars
    <2> QED
      BY <1>3, <2>1
  <1> QED
    BY <1>2, <1>4, <1>5, <1>6 DEF Next

LEMMA AnswersAsRegistered == Spec => []AnswerInvariant
  <1>1. Init => AnswerInvariant
    <2>1. Init => NothingTold
      BY DEF Init, NothingTold
    <2> QED
      BY <2>1, InvariantInit, NothingIsAsRegistered DEF AnswerInvariant
  <1>2. AnswerInvariant /\ [Next]_vars => AnswerInvariant'
    BY AnswerStep
  <1> QED
    BY <1>1, <1>2, PTL DEF Spec

-----------------------------------------------------------------------------
(* The kinds of what is registered, so of whatever is selected.            *)
LEMMA SelectedHas ==
    ASSUME Invariant, NEW r
    PROVE  /\ IsFiniteSet(Selected(r)) /\ Selected(r) \subseteq DOMAIN entries
           /\ DOMAIN entries \subseteq Paths
           /\ \A p \in DOMAIN entries : entries[p].definition.kind \in WatchableKind
           /\ \A all \in SetToSeqs(Selected(r)) : KindsOf(all) /\ Len(all) \in Nat
  <1>1. Selected(r) \in SUBSET (DOMAIN entries)
    BY DEF Selected
  <1>2. IsFiniteSet(Selected(r))
    BY <1>1, FS_Subset DEF Invariant
  <1>3. \A p \in DOMAIN entries : entries[p].definition.kind \in WatchableKind
    BY DEF Invariant, DatastoreTypeOK, DatastoreEntry, WatchableDefinition
  <1>4. ASSUME NEW all \in SetToSeqs(Selected(r))
        PROVE  KindsOf(all) /\ Len(all) \in Nat
    <2>1. /\ Selected(r) = {all[j] : j \in 1..Len(all)}
          /\ Len(all) \in Nat
      BY <1>2, SequenceOf
    <2> QED
      BY <1>1, <1>3, <2>1 DEF KindsOf
  <1> QED
    BY <1>1, <1>2, <1>3, <1>4 DEF Invariant, DatastoreTypeOK

(* Every answer has its type: the responses list paths.                    *)
THEOREM WatchablesTypeCorrect == Spec => []TypeOK
  <1>1. ASSUME AnswerInvariant
        PROVE  TypeOK
    <2>1. ASSUME NEW i \in 1..Len(responses), responses # <<>>
          PROVE  /\ responses[i].done \in BOOLEAN
                 /\ \A k \in WatchableKind : responses[i].content[k] \in Seq(Paths)
      <3>1. Lists(request, responses)
        BY <1>1, <2>1 DEF AnswerInvariant, ToldAsRegistered
      <3>2. PICK all : Answers(Paths, all, request.max_per, responses)
        BY <3>1 DEF Lists
      <3> QED
        BY <3>2 DEF Answers, Picks
    <2>2. \A i \in 1..Len(responses) :
             /\ responses[i].done \in BOOLEAN
             /\ \A k \in WatchableKind : responses[i].content[k] \in Seq(Paths)
      <3>1. responses = <<>> => 1..Len(responses) = {}
        OBVIOUS
      <3> QED
        BY <2>1, <3>1
    <2>3. counted \in [WatchableKind -> Nat] \cup {NoCount}
      <3>1. \A k \in WatchableKind :
               Cardinality({p \in DOMAIN entries : entries[p].definition.kind = k}) \in Nat
        <4>1. \A k : {p \in DOMAIN entries : entries[p].definition.kind = k} \in SUBSET DOMAIN entries
          OBVIOUS
        <4> QED
          BY <1>1, <4>1, FS_Subset, FS_CardinalityType DEF AnswerInvariant, Invariant
      <3>2. Quantities \in [WatchableKind -> Nat]
        BY <3>1 DEF Quantities
      <3> QED
        BY <1>1, <3>2 DEF AnswerInvariant, ToldAsRegistered
    <2>4. DOMAIN details.info \subseteq Paths
      <3>1. DOMAIN NoDetails.info = {}
        BY DEF NoDetails
      <3>2. DOMAIN InfoOf(asked).info \subseteq DOMAIN entries
        <4>1. CASE Range(asked) \subseteq DOMAIN entries
          <5>1. InfoOf(asked).info = [p \in Range(asked) |-> make_detailed(p)]
            BY <4>1 DEF InfoOf
          <5> QED
            BY <4>1, <5>1
        <4>2. CASE ~(Range(asked) \subseteq DOMAIN entries)
          BY <3>1, <4>2 DEF InfoOf
        <4> QED
          BY <4>1, <4>2
      <3>3. DOMAIN entries \subseteq Paths
        BY <1>1, SelectedHas DEF AnswerInvariant
      <3> QED
        BY <1>1, <3>2, <3>3 DEF AnswerInvariant, ToldAsRegistered
    <2> QED
      BY <1>1, <2>2, <2>3, <2>4 DEF AnswerInvariant, Invariant, ToldAsRegistered, TypeOK
  <1> QED
    BY AnswersAsRegistered, <1>1, PTL

(* A client that asks for everything and is told how many there are is     *)
(* told what it is listed, kind by kind.                                   *)
THEOREM CountsAgree == Spec => []CountsAgreeWithList
  <1>1. ASSUME AnswerInvariant
        PROVE  CountsAgreeWithList
    <2> SUFFICES ASSUME Answered, ~request.by_type, ~request.by_name, counted # NoCount,
                        NEW k \in WatchableKind
                 PROVE  counted[k] = FoldLeftDomain(LAMBDA n, i : n + Len(responses[i].content[k]),
                                                    0, responses)
      BY DEF CountsAgreeWithList
    <2>1. Lists(request, responses) /\ counted = Quantities
      BY <1>1 DEF AnswerInvariant, ToldAsRegistered, Answered
    <2>2. PICK all \in SetToSeqs(Selected(request)) :
             Answers(Paths, all, request.max_per, responses)
      BY <2>1 DEF Lists
    <2>3. Selected(request) = DOMAIN entries
      BY DEF Selected
    <2>4. FoldLeftDomain(LAMBDA n, i : n + Len(responses[i].content[k]), 0, responses)
             = Cardinality(Picked(all, 0, Len(all), k))
      BY <2>2, SumOfKind
    <2>5. IsFiniteSet(Selected(request))
      BY <1>1, SelectedHas DEF AnswerInvariant
    <2>6. Cardinality(Picked(all, 0, Len(all), k))
             = Cardinality({p \in DOMAIN entries : entries[p].definition.kind = k})
      BY <2>2, <2>3, <2>5, PickedOfSelection
    <2>7. counted[k] = Cardinality({p \in DOMAIN entries : entries[p].definition.kind = k})
      BY <2>1 DEF Quantities
    <2> QED
      BY <2>4, <2>6, <2>7, Zenon
  <1> QED
    BY AnswersAsRegistered, <1>1, PTL

(* What an answer lists under a kind is what is selected of that kind.     *)
LEMMA ListedIs ==
    ASSUME AnswerInvariant, Answered
    PROVE  \A k \in WatchableKind :
              UNION {Listed(i, k) : i \in 1..Len(responses)}
                 = {p \in Selected(request) : entries[p].definition.kind = k}
  <1> SUFFICES ASSUME NEW k \in WatchableKind
               PROVE  UNION {Listed(i, k) : i \in 1..Len(responses)}
                         = {p \in Selected(request) : entries[p].definition.kind = k}
    OBVIOUS
  <1>1. Lists(request, responses)
    BY DEF AnswerInvariant, ToldAsRegistered, Answered
  <1>2. PICK all \in SetToSeqs(Selected(request)) :
           Answers(Paths, all, request.max_per, responses)
    BY <1>1 DEF Lists
  <1>3. UNION {Range(responses[i].content[k]) : i \in 1..Len(responses)}
           = EntriesAt(all, Picked(all, 0, Len(all), k))
    BY <1>2, ListedOfKind
  <1>4. IsFiniteSet(Selected(request))
    BY SelectedHas DEF AnswerInvariant
  <1>5. EntriesAt(all, Picked(all, 0, Len(all), k))
           = {p \in Selected(request) : entries[p].definition.kind = k}
    <2> DEFINE X == Selected(request)
    <2>1. IsFiniteSet(X) /\ all \in SetToSeqs(X)
      BY <1>2, <1>4
    <2> HIDE DEF X
    <2>2. EntriesAt(all, Picked(all, 0, Len(all), k)) = {p \in X : entries[p].definition.kind = k}
      BY <2>1, PickedOfSelection
    <2> QED
      BY <2>2 DEF X
  <1> QED
    BY <1>3, <1>5, Zenon DEF Listed

(* The filters let through what they are meant to.                         *)
LEMMA SelectedIs ==
    ASSUME Invariant, NEW r \in ListRequests
    PROVE  Selected(r) = {p \in DOMAIN entries :
              /\ r.by_type => as_api_str[entries[p].definition.kind] \in r.types
              /\ r.by_name => \E pat \in r.names : Fits(pat, p)}
  <1>1. ASSUME NEW k \in WatchableKind
        PROVE  k \in extract_type_filter(r) <=> as_api_str[k] \in r.types
    BY DEF extract_type_filter, as_api_str, WatchableKind
  <1>2. r.names \subseteq Seq(STRING)
    BY ListAssumption
  <1>3. DOMAIN entries \subseteq Seq(STRING)
    BY ListAssumption DEF Invariant, DatastoreTypeOK
  <1>4. ASSUME NEW p \in DOMAIN entries, NEW pat \in r.names
        PROVE  glob_match(pat, p) <=> Fits(pat, p)
    BY <1>2, <1>3, GlobMatches
  <1>5. \A p \in DOMAIN entries : entries[p].definition.kind \in WatchableKind
    BY DEF Invariant, DatastoreTypeOK, DatastoreEntry, WatchableDefinition
  <1>6. ASSUME NEW p \in DOMAIN entries
        PROVE  /\ entries[p].definition.kind \in extract_type_filter(r)
                     <=> as_api_str[entries[p].definition.kind] \in r.types
               /\ (\E pat \in r.names : glob_match(pat, p)) <=> (\E pat \in r.names : Fits(pat, p))
    BY <1>1, <1>4, <1>5
  <1> QED
    BY <1>6 DEF Selected

(* The responses list every entry that the filters let through, under its  *)
(* own kind and once, in chunks no larger than was asked for.              *)
THEOREM ListIsAll == Spec => []ListIsComplete
  <1>1. ASSUME AnswerInvariant
        PROVE  ListIsComplete
    <2> SUFFICES ASSUME Answered PROVE ListIsComplete
      BY DEF ListIsComplete
    <2>1. Lists(request, responses) /\ Invariant
      BY <1>1 DEF AnswerInvariant, ToldAsRegistered, Answered
    <2>2. PICK all \in SetToSeqs(Selected(request)) :
             Answers(Paths, all, request.max_per, responses)
      BY <2>1 DEF Lists
    <2>3. /\ IsFiniteSet(Selected(request)) /\ Selected(request) \subseteq DOMAIN entries
          /\ \A p \in DOMAIN entries : entries[p].definition.kind \in WatchableKind
          /\ KindsOf(all) /\ Len(all) = Cardinality(Selected(request))
      BY <2>1, <2>2, SelectedHas, SequenceOf
    <2>4. \A k \in WatchableKind :
             UNION {Listed(i, k) : i \in 1..Len(responses)}
                = {p \in Selected(request) : entries[p].definition.kind = k}
      BY <1>1, ListedIs
    <2>5. UNION {Listed(i, k) : i \in 1..Len(responses), k \in WatchableKind} = Selected(request)
      <3>1. \A p : (\E i \in 1..Len(responses), k \in WatchableKind : p \in Listed(i, k))
                      <=> \E k \in WatchableKind :
                             p \in UNION {Listed(i, k) : i \in 1..Len(responses)}
        OBVIOUS
      <3>2. \A p : (\E k \in WatchableKind : p \in UNION {Listed(i, k) : i \in 1..Len(responses)})
                      <=> p \in Selected(request)
        BY <2>3, <2>4
      <3> QED
        BY <3>1, <3>2
    <2>6. Selected(request) = {p \in DOMAIN entries :
             /\ request.by_type => as_api_str[entries[p].definition.kind] \in request.types
             /\ request.by_name => \E pat \in request.names : Fits(pat, p)}
      BY <2>1, SelectedIs DEF Lists
    <2>7. \A i \in 1..Len(responses), k \in WatchableKind : \A p \in Listed(i, k) :
             entries[p].definition.kind = k
      BY <2>4
    <2>8. ASSUME NEW i \in 1..Len(responses)
          PROVE  Size(i) <= request.max_per
      <3> DEFINE n == Len(all)
                 max == request.max_per
      <3>1. Size(i) = Cut(n, max, i) - Cut(n, max, i - 1)
        BY <2>2, <2>3, SizeIs
      <3>2. Cuts(n, max, Len(responses))
        BY <2>2, Zenon DEF Answers
      <3> QED
        BY <3>1, <3>2 DEF Cuts
    <2>9. Cardinality(Selected(request)) = TotalSize
      <3>1. TotalSize = Len(all)
        BY <2>2, <2>3, SumOfSizes DEF TotalSize
      <3> QED
        BY <2>3, <3>1, Zenon
    <2>10. UNION {Listed(i, k) : i \in 1..Len(responses), k \in WatchableKind}
              = {p \in DOMAIN entries :
                    /\ request.by_type => as_api_str[entries[p].definition.kind] \in request.types
                    /\ request.by_name => \E pat \in request.names : Fits(pat, p)}
      BY <2>5, <2>6
    <2> DEFINE Complete ==
          UNION {Listed(i, k) : i \in 1..Len(responses), k \in WatchableKind}
              = {p \in DOMAIN entries :
                    /\ request.by_type => as_api_str[entries[p].definition.kind] \in request.types
                    /\ request.by_name => \E pat \in request.names : Fits(pat, p)}
    <2>11. Complete
      BY <2>10
    <2> QED
      BY <2>7, <2>8, <2>9, <2>11 DEF ListIsComplete
  <1> QED
    BY AnswersAsRegistered, <1>1, PTL

(* A client gets details of whatever it was listed, under the same type,   *)
(* and the rpvids are those of the RPVs, no two alike.                     *)
THEOREM DetailsAgree == Spec => []DetailsAgreeWithList
  <1>1. ASSUME AnswerInvariant
        PROVE  DetailsAgreeWithList
    <2> DEFINE info == details.info
               listed(k) == UNION {Listed(i, k) : i \in 1..Len(responses)}
    <2> SUFFICES ASSUME Answered, ~request.by_type, ~request.by_name, asked # <<>>
                 PROVE  /\ Range(asked) \subseteq listed("Var") \cup listed("Rpv") => ~details.error
                        /\ ~(Range(asked) \subseteq UNION {listed(k) : k \in WatchableKind})
                              => details.error
                        /\ \A k \in {"Var", "Rpv"} : \A p \in DOMAIN info \cap listed(k) :
                              /\ info[p].type = as_api_str[k]
                              /\ Cardinality(info[p].rpvid) = IF k = "Rpv" THEN 1 ELSE 0
                        /\ \A p, r \in DOMAIN info \cap listed("Rpv") :
                              p # r => info[p].rpvid # info[r].rpvid
      BY Zenon DEF DetailsAgreeWithList
    <2>1. details = InfoOf(asked) /\ Invariant
      BY <1>1 DEF AnswerInvariant, ToldAsRegistered
    <2>2. Selected(request) = DOMAIN entries
      BY DEF Selected
    <2>3. \A k \in WatchableKind : listed(k) = {p \in DOMAIN entries : entries[p].definition.kind = k}
      BY <1>1, <2>2, ListedIs, Zenon
    <2>4. \A p \in DOMAIN entries : entries[p].definition.kind \in WatchableKind
      BY <2>1, SelectedHas
    <2> HIDE DEF listed
    <2>5. UNION {listed(k) : k \in WatchableKind} = DOMAIN entries
      <3>1. \A p : (\E k \in WatchableKind : p \in listed(k)) <=> p \in DOMAIN entries
        BY <2>3, <2>4
      <3> QED
        BY <3>1
    <2>6. /\ details.error <=> ~(Range(asked) \subseteq DOMAIN entries)
          /\ DOMAIN info \subseteq DOMAIN entries
          /\ \A p \in DOMAIN info :
                /\ info[p].type = as_api_str[entries[p].definition.kind]
                /\ info[p].rpvid = IF entries[p].definition.kind = "Rpv" THEN {entries[p].rpv_id}
                                   ELSE {}
      <3>1. CASE Range(asked) \subseteq DOMAIN entries
        <4>1. details = [error |-> FALSE, info |-> [p \in Range(asked) |-> make_detailed(p)]]
          BY <2>1, <3>1 DEF InfoOf
        <4> QED
          BY <3>1, <4>1 DEF make_detailed
      <3>2. CASE ~(Range(asked) \subseteq DOMAIN entries)
        <4>1. details = [error |-> TRUE, info |-> NoDetails.info] /\ DOMAIN NoDetails.info = {}
          BY <2>1, <3>2 DEF InfoOf, NoDetails
        <4> QED
          BY <3>2, <4>1
      <3> QED
        BY <3>1, <3>2
    <2> HIDE DEF info
    <2>7. ASSUME NEW k \in {"Var", "Rpv"}, NEW p \in DOMAIN info \cap listed(k)
          PROVE  /\ info[p].type = as_api_str[k]
                 /\ Cardinality(info[p].rpvid) = IF k = "Rpv" THEN 1 ELSE 0
      <3>1. k \in WatchableKind /\ entries[p].definition.kind = k
        BY <2>3, <2>7 DEF WatchableKind
      <3>2. info[p].type = as_api_str[k]
        BY <2>6, <3>1
      <3>3. info[p].rpvid = IF k = "Rpv" THEN {entries[p].rpv_id} ELSE {}
        BY <2>6, <3>1
      <3>4. Cardinality(info[p].rpvid) = IF k = "Rpv" THEN 1 ELSE 0
        BY <3>3, FS_Singleton, FS_EmptySet
      <3> QED
        BY <3>2, <3>4
    <2>8. ASSUME NEW p \in DOMAIN info \cap listed("Rpv"), NEW r \in DOMAIN info \cap listed("Rpv"),
                 p # r
          PROVE  info[p].rpvid # info[r].rpvid
      <3>1. /\ p \in DOMAIN entries /\ entries[p].definition.kind = "Rpv"
            /\ r \in DOMAIN entries /\ entries[r].definition.kind = "Rpv"
        BY <2>3 DEF WatchableKind
      <3>2. entries[p].rpv_id # entries[r].rpv_id
        BY <2>1, <2>8, <3>1 DEF Invariant, RpvIdsAreUnique
      <3>3. info[p].rpvid = {entries[p].rpv_id} /\ info[r].rpvid = {entries[r].rpv_id}
        BY <2>6, <3>1
      <3> QED
        BY <3>2, <3>3
    <2>9. /\ Range(asked) \subseteq listed("Var") \cup listed("Rpv") => ~details.error
          /\ ~(Range(asked) \subseteq UNION {listed(k) : k \in WatchableKind}) => details.error
      <3>1. listed("Var") \cup listed("Rpv") \subseteq DOMAIN entries
        BY <2>3 DEF WatchableKind
      <3> QED
        BY <2>5, <2>6, <3>1
    <2> QED
      BY <2>7, <2>8, <2>9 DEF info
  <1> QED
    BY AnswersAsRegistered, <1>1, PTL

=============================================================================
