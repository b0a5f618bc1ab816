------------------------------ MODULE SineProofs ------------------------------
(***************************************************************************)
(* Proofs about the example program: SineSource keeps the contract of a    *)
(* datasource whatever is written to it and however often it is polled.    *)
(***************************************************************************)
EXTENDS SineServer, SourceProofs

(* The increment of the u32, wrapping.                                     *)
LEMMA WrappedCount ==
    ASSUME NEW n \in 0..MaxU32
    PROVE  (n + 1) % (MaxU32 + 1) \in 0..MaxU32
  BY CounterAssumption

(* A write leaves a float in the amplitude.                                *)
LEMMA WrittenAmplitude ==
    ASSUME NEW v \in Written, v.kind \in {"Float", "NonFinite", "Int"}
    PROVE  (IF v.kind = "Int" THEN Float(v.v) ELSE v) \in Amplitudes
  <1>1. PICK j \in Json : v = parse_write_value(j)
    BY DEF Written
  <1>2. v \in {SignedInt(j.v), Float(j.v), NonFinite}
    BY <1>1 DEF parse_write_value, Bool, Unparsed
  <1> QED
    BY <1>2 DEF Amplitudes, SignedInt, Float, NonFinite

LEMMA AmplitudeIsFloat ==
    ASSUME NEW a \in Amplitudes
    PROVE  a \in [kind : {"Float", "NonFinite"}, v : Int]
  <1>1. \A j \in Json : j.v \in Int
    BY SourceAssumption DEF JsonValue
  <1> QED
    BY <1>1 DEF Amplitudes, SineInitial, Float, NonFinite

(* Every reading is of the type that was declared for its path.            *)
LEMMA ReadingIsDeclared ==
    ASSUME NEW s \in SineStates, NEW p \in SinePaths
    PROVE  Reading(s, p) \in Declared(p)
  <1>1. s.amplitude \in Amplitudes /\ s.poll_counter \in Int
    BY CounterAssumption DEF SineStates
  <1>2. Watchables[p] = IF p = poll_counter THEN "uint32" ELSE "float64"
    BY SineAssumption DEF SineWatchables
  <1>3. CASE p = poll_counter
    <2>1. Reading(s, p) = Uint(s.poll_counter) /\ KindsOf(Watchables[p]) = {"Uint"}
      BY <1>2, <1>3 DEF Reading, KindsOf, poll_counter, clocks
    <2> QED
      BY <1>1, <2>1 DEF Declared, Uint
  <1>4. CASE p # poll_counter
    <2>1. Declared(p) = [kind : {"Float", "NonFinite"}, v : Int]
      BY <1>2, <1>4 DEF KindsOf, Declared
    <2>2. Reading(s, p) \in {Float(s.poll_counter), s.amplitude}
      BY <1>4 DEF Reading
    <2> QED
      BY <1>1, <2>1, <2>2, AmplitudeIsFloat DEF Float
  <1> QED
    BY <1>3, <1>4

LEMMA SineContract == Contract(SineStates)
  <1>1. InitialState \in SineStates
    BY SineAssumption, CounterAssumption DEF SineStates, SineInitial, Amplitudes
  <1>2. ASSUME NEW s \in SineStates, NEW S \in SUBSET Paths
        PROVE  /\ Poll(s, S).state \in SineStates
               /\ DOMAIN Poll(s, S).updates \subseteq Paths
               /\ \A p \in DOMAIN Poll(s, S).updates : Poll(s, S).updates[p] \in Declared(p)
    <2> DEFINE due == {p \in SinePaths \cap S : s.poll_counter % Period(p) = 0}
    <2>1. Poll(s, S) = SinePoll(s, S)
      BY SineAssumption
    <2>2. [s EXCEPT !.poll_counter = (@ + 1) % (MaxU32 + 1)] \in SineStates
      BY WrappedCount DEF SineStates
    <2>3. due \subseteq SinePaths /\ due \subseteq Paths
      OBVIOUS
    <2>4. /\ Poll(s, S).state = [s EXCEPT !.poll_counter = (@ + 1) % (MaxU32 + 1)]
          /\ Poll(s, S).updates = [p \in due |-> Reading(s, p)]
      BY <2>1 DEF SinePoll
    <2> HIDE DEF due
    <2> QED
      BY <2>2, <2>3, <2>4, ReadingIsDeclared
  <1>3. ASSUME NEW s \in SineStates, NEW p \in Names, NEW v \in Written
        PROVE  WriteValue(s, p, v) \in SineStates
    <2>1. WriteValue(s, p, v) = SineWrite(s, p, v)
      BY SineAssumption DEF Written
    <2>2. CASE p # amplitude \/ v.kind \notin {"Float", "NonFinite", "Int"}
      BY <2>1, <2>2 DEF SineWrite
    <2>3. CASE p = amplitude /\ v.kind \in {"Float", "NonFinite", "Int"}
      <3> DEFINE a == IF v.kind = "Int" THEN Float(v.v) ELSE v
      <3>1. a \in Amplitudes
        BY <2>3, WrittenAmplitude
      <3>2. WriteValue(s, p, v) = [s EXCEPT !.amplitude = a]
        BY <2>1, <2>3 DEF SineWrite
      <3> HIDE DEF a
      <3> QED
        BY <3>1, <3>2 DEF SineStates
    <2> QED
      BY <2>2, <2>3
  <1> QED
    BY <1>1, <1>2, <1>3 DEF Contract

(* An amplitude that is not finite comes from a write of such a float only, *)
(* and a sample that is not finite from such an amplitude.                 *)
SineFinite == [amplitude : Amplitudes \ {NonFinite}, poll_counter : 0..MaxU32]

LEMMA FiniteAmplitude ==
    ASSUME NEW a \in Amplitudes, a # NonFinite
    PROVE  a.kind # "NonFinite"
  BY DEF Amplitudes, SineInitial, Float, NonFinite

LEMMA SineStaysFinite == StaysFinite(SineFinite)
  <1>1. InitialState \in SineFinite
    BY SineAssumption, CounterAssumption DEF SineFinite, SineInitial, Amplitudes, Float, NonFinite
  <1>2. ASSUME NEW s \in SineFinite, NEW S \in SUBSET Paths
        PROVE  /\ Poll(s, S).state \in SineFinite
               /\ \A p \in DOMAIN Poll(s, S).updates : Poll(s, S).updates[p].kind # "NonFinite"
    <2> DEFINE due == {p \in SinePaths \cap S : s.poll_counter % Period(p) = 0}
    <2>1. Poll(s, S) = SinePoll(s, S)
      BY SineAssumption DEF SineFinite, SineStates
    <2>2. [s EXCEPT !.poll_counter = (@ + 1) % (MaxU32 + 1)] \in SineFinite
      BY WrappedCount DEF SineFinite
    <2>3. ASSUME NEW p PROVE Reading(s, p).kind # "NonFinite"
      BY FiniteAmplitude DEF SineFinite, Reading, Uint, Float
    <2>4. /\ Poll(s, S).state = [s EXCEPT !.poll_counter = (@ + 1) % (MaxU32 + 1)]
          /\ Poll(s, S).updates = [p \in due |-> Reading(s, p)]
      BY <2>1 DEF SinePoll
    <2> HIDE DEF due
    <2> QED
      BY <2>2, <2>3, <2>4
  <1>3. ASSUME NEW s \in SineFinite, NEW p \in Names, NEW v \in Written \ {NonFinite}
        PROVE  WriteValue(s, p, v) \in SineFinite
    <2>1. WriteValue(s, p, v) = SineWrite(s, p, v)
      BY SineAssumption DEF Written, SineFinite, SineStates
    <2>2. CASE p # amplitude \/ v.kind \notin {"Float", "NonFinite", "Int"}
      BY <2>1, <2>2 DEF SineWrite
    <2>3. CASE p = amplitude /\ v.kind \in {"Float", "NonFinite", "Int"}
      <3> DEFINE a == IF v.kind = "Int" THEN Float(v.v) ELSE v
      <3>1. a \in Amplitudes
        BY <2>3, WrittenAmplitude
      <3>2. a # NonFinite
        BY DEF Float, NonFinite
      <3>3. WriteValue(s, p, v) = [s EXCEPT !.amplitude = a]
        BY <2>1, <2>3 DEF SineWrite
      <3> HIDE DEF a
      <3> QED
        BY <3>1, <3>2, <3>3 DEF SineFinite
    <2> QED
      BY <2>2, <2>3
  <1> QED
    BY <1>1, <1>2, <1>3 DEF StaysFinite

(* The example program does what the composition allows; Ctrl-C is the     *)
(* shutdown future of run.                                                 *)
LEMMA SineStep ==
    ASSUME [SineNext]_sineVars
    PROVE  [SourceNext]_allVars
  BY DEF SineNext, Serve, CtrlC, MainReturns, Exited, sineVars, SourceNext, MainStep, RunNext

THEOREM SineImplementsSource == SineSpec => SourceSpec
  <1>1. SineInit => SourceInit
    BY DEF SineInit
  <1>2. [SineNext]_sineVars => [SourceNext]_allVars
    BY SineStep
  <1> QED
    BY <1>1, <1>2, PTL DEF SineSpec, SourceSpec

(* The values that clients of the example are given are JSON of the        *)
(* declared types: an integer written to the amplitude comes back as a     *)
(* fraction, the counter stays an integer when it wraps, and a null comes  *)
(* only after a float that is not finite was written.                      *)
THEOREM SineValues == SineSpec => []ValuesAreAsDeclared
  BY SineImplementsSource, ContractedValuesAreDeclared, SineContract, SineStaysFinite

===============================================================================
