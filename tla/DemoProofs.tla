------------------------------ MODULE DemoProofs ------------------------------
(***************************************************************************)
(* Proofs about the binary: what DemoSource returns, and what it takes to  *)
(* make its counter overflow.                                              *)
(***************************************************************************)
EXTENDS DemoServer, SourceProofs

(* What a client's JSON becomes: an Int within i64, or no Int at all.      *)
LEMMA WrittenValues ==
    ASSUME NEW v \in Written
    PROVE  v \in WatchableValue /\ (v.kind = "Int" => v.v \in I64)
  <1>1. PICK j \in Json : v = parse_write_value(j) /\ v # Unparsed
    BY DEF Written
  <1>2. j \in JsonValue
    BY SourceAssumption
  <1> QED
    BY <1>1, <1>2, RangeAssumption DEF JsonValue, JsonType, parse_write_value, WatchableValue, Bool, SignedInt,
       Float, NonFinite, Unparsed, I64, MinInt

LEMMA DemoPaths == Paths = {counter} /\ Watchables[counter] = "sint64"
  <1>1. DOMAIN Watchables = Paths /\ DOMAIN Watchables = {counter}
    BY SourceAssumption, DemoAssumption DEF DemoWatchables
  <1> QED
    BY <1>1, DemoAssumption DEF DemoWatchables

(* The counter stays an i64 and its samples are Ints.                      *)
LEMMA DemoContract == Contract(I64)
  <1>1. InitialState \in I64
    BY DemoAssumption, RangeAssumption DEF I64, MinInt, DemoInitial
  <1>2. ASSUME NEW n \in I64, NEW S \in SUBSET Paths
        PROVE  /\ Poll(n, S).state \in I64
               /\ DOMAIN Poll(n, S).updates \subseteq Paths
               /\ \A p \in DOMAIN Poll(n, S).updates : Poll(n, S).updates[p] \in Declared(p)
    <2>1. Poll(n, S) = DemoPoll(n, S)
      BY DemoAssumption
    <2>2. Successor(n) \in I64
      BY RangeAssumption DEF Successor, I64, MinInt
    <2>3. Paths = {counter} /\ Watchables[counter] = "sint64"
      BY DemoPaths
    <2>4. SignedInt(Successor(n)) \in Declared(counter)
      BY <2>2, <2>3, RangeAssumption DEF SignedInt, Declared, KindsOf, I64, MinInt
    <2> QED
      BY <2>1, <2>2, <2>3, <2>4 DEF DemoPoll
  <1>3. ASSUME NEW n \in I64, NEW p \in Names, NEW v \in Written
        PROVE  WriteValue(n, p, v) \in I64
    <2>1. WriteValue(n, p, v) = DemoWrite(n, p, v)
      BY DemoAssumption DEF Written
    <2> QED
      BY <2>1, WrittenValues DEF DemoWrite
  <1> QED
    BY <1>1, <1>2, <1>3 DEF Contract

(* And they are never a float that is not finite.                          *)
LEMMA DemoFinite == StaysFinite(I64)
  <1>1. ASSUME NEW n \in I64, NEW S \in SUBSET Paths, NEW p \in DOMAIN Poll(n, S).updates
        PROVE  Poll(n, S).updates[p].kind # "NonFinite"
    <2>1. Poll(n, S) = DemoPoll(n, S)
      BY DemoAssumption
    <2> QED
      BY <1>1, <2>1 DEF DemoPoll, SignedInt
  <1> QED
    BY <1>1, DemoContract DEF Contract, StaysFinite

(* The binary does what the composition of server and datasource allows.   *)
LEMMA DemoStep ==
    ASSUME [DemoNext]_demoVars
    PROVE  [SourceNext]_allVars
  BY DEF DemoNext, Serve, MainReturns, Exited, demoVars

THEOREM DemoImplementsSource == DemoSpec => SourceSpec
  <1>1. DemoInit => SourceInit
    BY DEF DemoInit
  <1>2. [DemoNext]_demoVars => [SourceNext]_allVars
    BY DemoStep
  <1> QED
    BY <1>1, <1>2, PTL DEF DemoSpec, SourceSpec

-----------------------------------------------------------------------------
(* A write near the top was applied.                                       *)
Topped == \E i \in 1..Len(applied) : NearTheTop(content[applied[i]])

(* Without one, the counter is no further from where a write can have put  *)
(* it than it was polled, which is as often as it was emitted.             *)
CounterBound ==
    /\ Len(emitted[counter]) <= MaxSamples
    /\ ~Topped => source <= MaxInt - MaxSamples - 1 + Len(emitted[counter])
    /\ poll_pc = "panicked" => Topped

(* What was applied stays applied, with its content.                       *)
LEMMA ToppedStays ==
    ASSUME SourceInvariant(I64), [SourceNext]_allVars, Topped
    PROVE  Topped'
  BY AppliedStays DEF Topped, NearTheTop

LEMMA CounterBoundStep ==
    ASSUME SourceInvariant(I64), SourceInvariant(I64)', CounterBound, [SourceNext]_allVars
    PROVE  CounterBound'
  <1> DEFINE Base == MaxInt - MaxSamples - 1
             n == Len(emitted[counter])
  <1>t. /\ MaxInt \in Nat /\ MaxSamples \in Nat /\ MaxSamples < MaxInt /\ source \in I64
        /\ Paths = {counter} /\ Base \in Nat
    BY RangeAssumption, ServerAssumption, CountingAssumption, DemoPaths DEF SourceInvariant
  <1>n. n \in Nat /\ n = value_store[counter] + Taken(counter) /\ value_store[counter] \in Nat
    <2>1. value_store \in Batch /\ emitted[counter] \in Seq(Declared(counter))
          /\ Len(emitted[counter]) = value_store[counter] + Taken(counter)
      BY <1>t DEF SourceInvariant, Invariant, TypeOK, SharedTypeOK, Emissions
    <2> QED
      BY <1>t, <2>1 DEF Batch
  <1>s. Topped => Topped'
    BY ToppedStays
  <1>1. CASE UNCHANGED <<emitted, source>> /\ (poll_pc' = "panicked" => poll_pc = "panicked")
    BY <1>1, <1>s DEF CounterBound
  <1>2. CASE PollStep
    <2>1. /\ poll_pc = "subscriptions" /\ poll_pc' # "panicked"
          /\ Carried(result') = {counter} /\ source' = Successor(source)
          /\ Len(emitted'[counter]) = n + 1
      <3>1. Poll(source, subscribed) = DemoPoll(source, subscribed)
        BY <1>t, DemoAssumption DEF SourceInvariant, Invariant, TypeOK, SharedTypeOK
      <3>2. /\ poll_pc = "subscriptions" /\ poll_pc' # "panicked"
            /\ Carried(result') = {counter} /\ source' = Successor(source)
            /\ emitted'[counter] = Append(emitted[counter], SignedInt(Successor(source)))
        <4> DEFINE polled_now == Poll(source, subscribed)
        <4>1. /\ polled_now.state = Successor(source) /\ DOMAIN polled_now.updates = {counter}
              /\ polled_now.updates[counter] = SignedInt(Successor(source))
          BY <3>1 DEF DemoPoll
        <4> HIDE DEF polled_now
        <4>2. /\ Carried(result') = DOMAIN polled_now.updates /\ source' = polled_now.state
              /\ emitted' = [p \in Paths |-> IF p \in DOMAIN polled_now.updates
                                THEN Append(emitted[p], polled_now.updates[p]) ELSE emitted[p]]
          BY <1>2 DEF PollStep, polled_now
        <4>3. poll_pc = "subscriptions" /\ poll_pc' \in {"select", "store"}
          BY <1>2 DEF PollStep, TickSubscriptions
        <4> QED
          BY <1>t, <4>1, <4>2, <4>3
      <3>3. /\ emitted[counter] \in Seq(Declared(counter))
            /\ emitted'[counter] \in Seq(Declared(counter))
        BY <1>t DEF SourceInvariant, Emissions, Declared
      <3>4. Len(emitted'[counter]) = n + 1
        BY <3>2, <3>3
      <3> QED
        BY <3>2, <3>4
    <2>2. value_store[counter] < MaxSamples
      BY <1>2, <2>1, <1>t DEF PollStep, TickSubscriptions, Carried
    <2>3. n + 1 <= MaxSamples
      BY <1>t, <1>n, <2>1, <2>2 DEF Taken
    <2>4. ASSUME ~Topped'
          PROVE  source' <= Base + (n + 1)
      <3>1. source <= Base + n
        BY <1>s, <2>4 DEF CounterBound
      <3>2. source < MaxInt
        BY <1>t, <1>n, <2>3, <3>1 DEF I64
      <3> QED
        BY <1>t, <1>n, <2>1, <3>1, <3>2 DEF Successor, I64, MinInt
    <2> QED
      BY <2>1, <2>3, <2>4 DEF CounterBound
  <1>3. CASE OverflowStep
    <2>1. /\ poll_pc = "subscriptions" /\ Overflows(source)
          /\ UNCHANGED <<source, emitted>>
      BY <1>3 DEF OverflowStep, sourceVars
    <2>2. source = MaxInt
      BY <1>t, <2>1, DemoAssumption DEF DemoOverflows
    <2>3. n <= MaxSamples /\ Base + MaxSamples < MaxInt
      BY <1>t DEF CounterBound
    <2>4. Topped
      BY <1>t, <1>n, <2>2, <2>3 DEF CounterBound
    <2> QED
      BY <1>s, <2>1, <2>4 DEF CounterBound
  <1>4. CASE WriteStep
    <2>1. PICK w \in [path : Names, value : Written] :
                 /\ source' = WriteValue(source, w.path, w.value)
                 /\ \E i \in 1..Len(applied') : content'[applied'[i]] = w
      BY <1>4, AppliedNow
    <2>2. UNCHANGED <<emitted, poll_pc>>
      BY <1>4 DEF WriteStep, ApplyWrite
    <2>5. w.path \in Names /\ w.value \in Written
      BY <2>1
    <2>6. NearTheTop(w) => Topped'
      BY <2>1 DEF Topped, NearTheTop
    <2>7. source' = DemoWrite(source, w.path, w.value)
      BY <1>t, <2>1, <2>5, DemoAssumption DEF Written
    <2>8. ASSUME ~Topped'
          PROVE  source' <= Base + n
      <3>1. source <= Base + n /\ ~NearTheTop(w)
        BY <1>s, <2>6, <2>8 DEF CounterBound
      <3>2. w.value.kind = "Int" => w.value.v \in I64
        BY <2>5, WrittenValues
      <3> QED
        BY <1>t, <1>n, <2>7, <3>1, <3>2 DEF DemoWrite, NearTheTop, I64, MinInt
    <2> QED
      BY <1>s, <2>2, <2>8 DEF CounterBound
  <1>5. CASE ~PollStep /\ ~OverflowStep /\ ~WriteStep
    <2>1. CASE UNCHANGED allVars
      BY <1>1, <2>1 DEF allVars, serverVars, sourceVars, pollerVars
    <2>2. CASE BareTick \/ AbortPoller
      BY <1>1, <2>2 DEF BareTick, AbortPoller, sourceVars, TickStatus, TickStore, TickPublish, PollerAborts
    <2>3. CASE IssueStep \/ ClientStep
      BY <1>1, <2>3 DEF IssueStep, BatchStep, Issue, ClientStep, HandlerStep, sourceVars, pollerVars
    <2>4. CASE MainStep
      BY <1>1, <2>4 DEF MainStep, RunNext, Bind, ListenerFails, Accept, AcceptShutdown,
         ConnectionEnds, ConnectionPanics, ConnectionShutdown, ClearSender, StopPoller,
         ShutdownFires, OthersUnchanged, Terminated, vars, sourceVars, pollerVars
    <2> QED
      BY <1>5, <2>1, <2>2, <2>3, <2>4 DEF SourceNext
  <1> QED
    BY <1>2, <1>3, <1>4, <1>5

(* The poller dies of the counter's overflow only after a write near the   *)
(* top of i64 was applied.                                                 *)
THEOREM OverflowNeedsWrite == DemoSpec => []OnlyWritesOverflow
  <1>1. SourceInit => SourceInvariant(I64)
    BY DemoContract, SourceInvariantInit
  <1>2. SourceInvariant(I64) /\ [SourceNext]_allVars => SourceInvariant(I64)'
    BY DemoContract, SourceInvariantStep
  <1>3. DemoInit => SourceInit /\ CounterBound
    BY RangeAssumption, ServerAssumption, CountingAssumption, DemoAssumption, DemoPaths
       DEF DemoInit, SourceInit, Init, PollerInit, DemoInitial, CounterBound
  <1>4. SourceInvariant(I64) /\ SourceInvariant(I64)' /\ CounterBound /\ [SourceNext]_allVars
          => CounterBound'
    BY CounterBoundStep
  <1>5. CounterBound => OnlyWritesOverflow
    BY DEF CounterBound, OnlyWritesOverflow, Topped
  <1>6. [DemoNext]_demoVars => [SourceNext]_allVars
    BY DemoStep
  <1> QED
    BY <1>1, <1>2, <1>3, <1>4, <1>5, <1>6, PTL DEF DemoSpec

(* The binary's writes are accounted for, and its clients are told of each *)
(* of their writes, in order.                                              *)
THEOREM DemoWrites == DemoSpec => [](WritesAccountedFor /\ CompletionsFollowWrites)
  BY DemoImplementsSource, SourceWritesAccountedFor, SourceCompletions, PTL

(* The samples of the counter reach a client as integers, however it was   *)
(* written to.                                                             *)
THEOREM DemoValues == DemoSpec => []ValuesAreAsDeclared
  BY DemoImplementsSource, ContractedValuesAreDeclared, DemoContract, DemoFinite

===============================================================================
