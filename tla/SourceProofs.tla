---------------------------- MODULE SourceProofs ----------------------------
(***************************************************************************)
(* The composition with a datasource does what Server allows, whatever the *)
(* datasource: what ServerProofs and WriteProofs show of Server holds of   *)
(* every program built from it.                                            *)
(***************************************************************************)
EXTENDS SourceServer, WriteProofs

(* A step of the composition is a step of the server.                      *)
LEMMA SourceStep ==
    ASSUME [SourceNext]_allVars
    PROVE  [Next]_vars
  <1>1. CASE UNCHANGED allVars
    BY <1>1 DEF allVars, serverVars, vars
  <1>2. CASE PollStep \/ OverflowStep \/ WriteStep \/ BareTick \/ AbortPoller
    <2>1. PollerStep
      BY <1>2 DEF PollStep, OverflowStep, WriteStep, BareTick, AbortPoller, PollerStep,
                  PollerNext, Tick
    <2> QED
      BY <2>1 DEF Next
  <1>3. CASE IssueStep
    <2>1. ConnectionNext
      BY <1>3 DEF IssueStep, BatchStep, ConnectionNext, Dispatch, TakeRequest
    <2>2. UNCHANGED <<pollerVars, runVars>>
      BY <1>3 DEF IssueStep, BatchStep, Issue
    <2> QED
      BY <2>1, <2>2 DEF HandlerStep, Next
  <1>4. CASE ClientStep \/ MainStep
    BY <1>4 DEF ClientStep, MainStep, Next
  <1> QED
    BY <1>1, <1>2, <1>3, <1>4 DEF SourceNext

(* The server with any datasource implements the server whose datasource   *)
(* is left open.                                                           *)
THEOREM SourceImplementsServer == SourceSpec => Spec
  <1>1. SourceInit => Init
    BY DEF SourceInit
  <1>2. [SourceNext]_allVars => [Next]_vars
    BY SourceStep
  <1> QED
    BY <1>1, <1>2, PTL DEF SourceSpec, Spec

(* With any datasource, every write is applied in its order and at most    *)
(* once, or still queued, or lost.                                         *)
THEOREM SourceWritesAccountedFor == SourceSpec => []WritesAccountedFor
  BY SourceImplementsServer, WritesAreAccountedFor

(* With any datasource, a client is told of each of its writes, in their   *)
(* order and once.                                                         *)
THEOREM SourceCompletions == SourceSpec => []CompletionsFollowWrites
  BY SourceImplementsServer, CompletionsFollow

(* With any datasource, a client at rest holds the latest sample of the    *)
(* paths it is subscribed to.                                              *)
THEOREM SourceConverges == SourceSpec => []Converged
  BY SourceImplementsServer, Convergence

-----------------------------------------------------------------------------
(* What an implementor of DataSource promises, for the set States of the   *)
(* states it can be in: poll returns values of the declared types, of      *)
(* paths it registered, and neither poll nor a write leaves the set.       *)

Declared(p) == [kind : KindsOf(Watchables[p]), v : Int]
Written == {parse_write_value(j) : j \in Json} \ {Unparsed}

Contract(States) ==
    /\ InitialState \in States
    /\ \A s \in States, S \in SUBSET Paths :
          /\ Poll(s, S).state \in States
          /\ DOMAIN Poll(s, S).updates \subseteq Paths
          /\ \A p \in DOMAIN Poll(s, S).updates : Poll(s, S).updates[p] \in Declared(p)
    /\ \A s \in States, p \in Names, v \in Written : WriteValue(s, p, v) \in States

(* And, for the set Finite of those states whose floats are finite: as     *)
(* long as no float that is not finite is written, it stays among them,    *)
(* and the values it returns are finite.                                   *)
StaysFinite(Finite) ==
    /\ InitialState \in Finite
    /\ \A s \in Finite, S \in SUBSET Paths :
          /\ Poll(s, S).state \in Finite
          /\ \A p \in DOMAIN Poll(s, S).updates : Poll(s, S).updates[p].kind # "NonFinite"
    /\ \A s \in Finite, p \in Names, v \in Written \ {NonFinite} : WriteValue(s, p, v) \in Finite

(* Each issued write has its content, and each sample its value: the one   *)
(* that the poller has in hand is emitted and not yet stored.              *)
ContentOfIssued == content \in Seq([path : Names, value : Written]) /\ Len(content) = issued

Taken(p) == IF poll_pc = "store" /\ result[p] # 0 THEN 1 ELSE 0

Emissions ==
    \A p \in Paths :
        emitted[p] \in Seq(Declared(p)) /\ Len(emitted[p]) = value_store[p] + Taken(p)

(* The writes on their way to the datasource are issued ones.              *)
LEMMA QueuedAreIssued ==
    ASSUME TypeOK, WritesAccountedFor
    PROVE  /\ \A i \in 1..Len(applied) : applied[i] \in 1..issued
           /\ \A i \in 1..Len(write_rx) : write_rx[i] \in 1..issued
  <1>1. applied \in Seq(Nat) /\ write_rx \in Seq(Nat)
    BY ServerAssumption, WriteSequence DEF TypeOK, SharedTypeOK, PollerTypeOK
  <1>2. Range(applied) \subseteq 1..issued /\ Range(write_rx) \subseteq 1..issued
    BY <1>1, RangeOfConcatenation DEF WritesAccountedFor
  <1> QED
    BY <1>1, <1>2, RangeOfSequence

LEMMA ContentStep ==
    ASSUME TypeOK, ContentOfIssued, [SourceNext]_allVars
    PROVE  /\ ContentOfIssued'
           /\ Len(content) <= Len(content')
           /\ \A i \in 1..Len(content) : content'[i] = content[i]
  <1>1. CASE UNCHANGED <<content, issued>>
    BY <1>1 DEF ContentOfIssued
  <1>2. ASSUME NEW path \in Names, Issue(path), issued' = issued + 1
        PROVE  /\ ContentOfIssued'
               /\ Len(content) <= Len(content')
               /\ \A i \in 1..Len(content) : content'[i] = content[i]
    <2> DEFINE C == [path : Names, value : Written]
    <2>1. PICK c \in C : content' = Append(content, c)
      BY <1>2 DEF Issue, Written
    <2> HIDE DEF C
    <2>2. content \in Seq(C) /\ Len(content) = issued /\ (content' \in Seq(C) /\ Len(content') = issued' => ContentOfIssued')
      BY DEF ContentOfIssued, C
    <2>3. /\ content' \in Seq(C) /\ Len(content) \in Nat /\ Len(content') = Len(content) + 1
          /\ \A i \in 1..Len(content) : content'[i] = content[i]
      BY <2>1, <2>2, AppendLast
    <2> QED
      BY <1>2, <2>2, <2>3
  <1>3. CASE IssueStep
    <2>1. CASE WritePath /\ Issue(paths[at])
      <3>1. paths[at] \in Names
        BY <2>1 DEF WritePath, InLoop, TypeOK, ConnectionTypeOK
      <3> QED
        BY <1>2, <2>1, <3>1 DEF WritePath
    <2>2. ASSUME NEW r \in Requests, WriteSingle(r), Issue(r.names[1])
          PROVE  /\ ContentOfIssued'
                 /\ Len(content) <= Len(content')
                 /\ \A i \in 1..Len(content) : content'[i] = content[i]
      <3>1. r.names \in Seq(Names) /\ Len(r.names) = 1
        BY <2>2, ServerAssumption, SourceAssumption DEF WriteSingle, Request
      <3>2. r.names[1] \in Names
        BY <3>1
      <3> QED
        BY <1>2, <2>2, <3>2 DEF WriteSingle
    <2> QED
      BY <1>3, <2>1, <2>2 DEF IssueStep, BatchStep
  <1>4. CASE ~IssueStep
    <2>1. UNCHANGED <<content, issued>>
      <3>1. CASE UNCHANGED allVars
        BY <3>1 DEF allVars, serverVars, sourceVars, handlerVars
      <3>2. CASE PollStep \/ OverflowStep \/ WriteStep \/ BareTick \/ AbortPoller
        BY <3>2 DEF PollStep, OverflowStep, WriteStep, BareTick, AbortPoller, handlerVars, sourceVars
      <3>3. CASE ClientStep
        BY <3>3 DEF ClientStep, sourceVars
      <3>4. CASE MainStep
        BY <3>4 DEF MainStep, sourceVars, RunNext, Bind, ListenerFails, Accept, AcceptShutdown,
           ConnectionEnds, ConnectionPanics, ConnectionShutdown, ClearSender, StopPoller,
           ShutdownFires, StartHandler, DropHandler, Terminated, vars, handlerVars
      <3> QED
        BY <1>4, <3>1, <3>2, <3>3, <3>4 DEF SourceNext
    <2> QED
      BY <1>1, <2>1
  <1> QED
    BY <1>3, <1>4

(* The datasource never leaves the states of its contract.                 *)
LEMMA StateStep ==
    ASSUME NEW States, Contract(States), TypeOK, WritesAccountedFor, ContentOfIssued,
           source \in States, [SourceNext]_allVars
    PROVE  source' \in States
  <1>1. CASE UNCHANGED source
    BY <1>1
  <1>2. CASE PollStep
    BY <1>2 DEF PollStep, Contract, TypeOK, SharedTypeOK
  <1>3. CASE WriteStep
    <2>1. Len(write_rx) \in Nat /\ write_rx # <<>> /\ Head(write_rx) = write_rx[1] /\ 1 \in 1..Len(write_rx)
      BY <1>3 DEF WriteStep, ApplyWrite, TypeOK, SharedTypeOK
    <2>2. Head(write_rx) \in 1..Len(content)
      BY <2>1, QueuedAreIssued DEF ContentOfIssued
    <2> DEFINE C == [path : Names, value : Written]
               w == content[Head(write_rx)]
    <2>a. content \in Seq(C)
      BY DEF ContentOfIssued
    <2>3. w \in C
      <3> HIDE DEF C
      <3> QED
        BY <2>2, <2>a
    <2>4. w.path \in Names /\ w.value \in Written
      BY <2>3
    <2>5. source' = WriteValue(source, w.path, w.value)
      BY <1>3 DEF WriteStep
    <2> HIDE DEF w
    <2> QED
      BY <2>4, <2>5 DEF Contract
  <1>4. CASE OverflowStep \/ IssueStep \/ BareTick \/ AbortPoller \/ ClientStep \/ MainStep
    BY <1>1, <1>4 DEF OverflowStep, IssueStep, BatchStep, Issue, BareTick, AbortPoller, ClientStep, MainStep,
       sourceVars
  <1> QED
    BY <1>1, <1>2, <1>3, <1>4 DEF SourceNext, allVars, sourceVars

(* A poll emits the values of the samples that it takes; the store has     *)
(* them one step later.                                                    *)
LEMMA EmissionStep ==
    ASSUME NEW States, Contract(States), TypeOK, TypeOK', BatchState, Emissions,
           source \in States, [SourceNext]_allVars
    PROVE  Emissions'
  <1>t. value_store \in Batch /\ result \in Batch /\ Paths \in SUBSET Paths
    BY DEF TypeOK, SharedTypeOK, PollerTypeOK
  <1>1. CASE UNCHANGED <<emitted, value_store, result>> /\ (poll_pc' = "store" <=> poll_pc = "store")
    BY <1>1 DEF Emissions, Taken
  <1>2. CASE PollStep
    <2> DEFINE updates == Poll(source, subscribed).updates
    <2>1. /\ poll_pc = "subscriptions" /\ value_store' = value_store
          /\ Carried(result') = DOMAIN updates
          /\ emitted' = [p \in Paths |-> IF p \in DOMAIN updates
                                         THEN Append(emitted[p], updates[p]) ELSE emitted[p]]
          /\ (Carried(result') # {} => poll_pc' = "store")
      BY <1>2 DEF PollStep, TickSubscriptions, sharedVars, Carried
    <2>2. /\ DOMAIN updates \subseteq Paths
          /\ \A p \in DOMAIN updates : updates[p] \in Declared(p)
      BY DEF Contract, TypeOK, SharedTypeOK
    <2> HIDE DEF updates
    <2>3. ASSUME NEW p \in Paths
          PROVE  emitted'[p] \in Seq(Declared(p)) /\ Len(emitted'[p]) = value_store'[p] + Taken(p)'
      <3>0. emitted[p] \in Seq(Declared(p)) /\ Len(emitted[p]) = value_store[p] /\ value_store[p] \in Nat
        BY <1>t, <2>1 DEF Emissions, Taken, Batch
      <3>1. CASE p \in DOMAIN updates
        <4>1. emitted'[p] = Append(emitted[p], updates[p]) /\ Taken(p)' = 1
          BY <2>1, <3>1 DEF Taken, Carried
        <4>2. updates[p] \in Declared(p)
          BY <2>2, <3>1
        <4>3. /\ Append(emitted[p], updates[p]) \in Seq(Declared(p))
              /\ Len(Append(emitted[p], updates[p])) = Len(emitted[p]) + 1
          BY <3>0, <4>2, AppendLast
        <4> QED
          BY <2>1, <3>0, <4>1, <4>3
      <3>2. CASE p \notin DOMAIN updates
        <4>1. emitted'[p] = emitted[p] /\ Taken(p)' = 0 /\ value_store'[p] + 0 = value_store[p]
          BY <2>1, <3>0, <3>2 DEF Taken, Carried
        <4> QED
          BY <3>0, <4>1
      <3> QED
        BY <3>1, <3>2
    <2> QED
      BY <2>3 DEF Emissions
  <1>3. CASE TickStore /\ UNCHANGED emitted
    <2>1. /\ poll_pc = "store" /\ poll_pc' = "publish" /\ emitted' = emitted
          /\ \A p \in Paths : value_store'[p] = IF result[p] # 0 THEN result[p] ELSE value_store[p]
      BY <1>3 DEF TickStore, Merge
    <2>2. \A p \in Paths : result[p] \in {0, value_store[p] + 1} /\ value_store[p] \in Nat
      BY <1>t, <2>1 DEF BatchState, Batch
    <2> QED
      BY <2>1, <2>2 DEF Emissions, Taken
  <1>4. CASE TickPublish /\ UNCHANGED emitted
    BY <1>4 DEF TickPublish, Emissions, Taken
  <1>5. CASE ~PollStep /\ ~TickStore /\ ~TickPublish
    <2>1. /\ UNCHANGED <<emitted, value_store, result>>
          /\ (poll_pc' = "store" <=> poll_pc = "store")
      <3>1. CASE UNCHANGED allVars
        BY <3>1 DEF allVars, serverVars, sourceVars, sharedVars, pollerVars
      <3>2. CASE OverflowStep \/ WriteStep \/ AbortPoller \/ (TickStatus /\ UNCHANGED sourceVars)
        BY <3>2 DEF OverflowStep, WriteStep, AbortPoller, TickStatus, SourcePanics, ApplyWrite,
           PollerAborts, sourceVars
      <3>3. CASE IssueStep
        BY <3>3 DEF IssueStep, BatchStep, Issue, WritePath, WriteSingle, pollerVars
      <3>4. CASE ClientStep
        BY <3>4 DEF ClientStep, sourceVars, HandlerStep, ConnectionNext, Send, SendWelcome,
           SendMessage, ReceiveEvent, PushStatus, Dispatch, SubscribePath, SubscribeDone,
           UnsubscribePath, UnsubscribeDone, WritePath, WriteDone, TakeRequest, RefuseRequest,
           AnswerRequest, BeginLoop, WriteSingle, sharedVars, pollerVars
      <3>5. CASE MainStep
        BY <3>5 DEF MainStep, sourceVars, RunNext, Bind, ListenerFails, Accept, AcceptShutdown,
           ConnectionEnds, ConnectionPanics, ConnectionShutdown, ClearSender, StopPoller,
           ShutdownFires, OthersUnchanged, Terminated, vars, sharedVars, pollerVars
      <3> QED
        BY <1>5, <3>1, <3>2, <3>3, <3>4, <3>5 DEF SourceNext, BareTick
    <2> QED
      BY <1>1, <2>1
  <1> QED
    <2>1. PollStep \/ UNCHANGED emitted
      BY DEF SourceNext, OverflowStep, WriteStep, IssueStep, BatchStep, Issue, BareTick, AbortPoller,
         ClientStep, MainStep, allVars, sourceVars
    <2> QED
      BY <1>2, <1>3, <1>4, <1>5, <2>1

(* The state of the composition that the theorems about datasources need.  *)
SourceInvariant(States) ==
    /\ Invariant
    /\ WritesAccountedFor
    /\ ContentOfIssued
    /\ source \in States
    /\ Emissions

LEMMA SourceInvariantInit ==
    ASSUME NEW States, Contract(States), SourceInit
    PROVE  SourceInvariant(States)
  <1>1. Invariant
    BY InvariantInit DEF SourceInit
  <1>2. WritesAccountedFor
    BY WritesInit DEF SourceInit
  <1>3. ContentOfIssued
    BY DEF SourceInit, Init, ConnectionInit, ContentOfIssued
  <1>4. Emissions
    BY DEF SourceInit, Init, SharedInit, PollerInit, NoSamples, Emissions, Taken
  <1> QED
    BY <1>1, <1>2, <1>3, <1>4 DEF SourceInvariant, SourceInit, Contract

LEMMA SourceInvariantStep ==
    ASSUME NEW States, Contract(States), SourceInvariant(States), [SourceNext]_allVars
    PROVE  SourceInvariant(States)'
  <1>1. Invariant /\ Invariant' /\ [Next]_vars
    BY SourceStep, InvariantStep DEF SourceInvariant
  <1>2. TypeOK /\ TypeOK' /\ BatchState
    BY <1>1 DEF Invariant, FeedInvariant
  <1>3. WritesAccountedFor'
    BY <1>1, <1>2, WritesStep DEF SourceInvariant
  <1>4. ContentOfIssued' /\ source' \in States /\ Emissions'
    BY <1>2, ContentStep, StateStep, EmissionStep DEF SourceInvariant
  <1> QED
    BY <1>1, <1>3, <1>4 DEF SourceInvariant

-----------------------------------------------------------------------------
(* A step of the composition calls write, or the applied writes stay.      *)
LEMMA AppliedStep ==
    ASSUME [SourceNext]_allVars
    PROVE  WriteStep \/ UNCHANGED applied
  <1>1. CASE UNCHANGED allVars
    BY <1>1 DEF allVars, serverVars, pollerVars
  <1>2. CASE PollStep \/ OverflowStep \/ BareTick \/ AbortPoller
    BY <1>2 DEF PollStep, OverflowStep, BareTick, AbortPoller, TickSubscriptions, SourcePanics,
       TickStatus, TickStore, TickPublish, PollerAborts
  <1>3. CASE IssueStep \/ ClientStep
    BY <1>3 DEF IssueStep, BatchStep, Issue, ClientStep, HandlerStep, pollerVars
  <1>4. CASE MainStep
    BY <1>4 DEF MainStep, RunNext, Bind, ListenerFails, Accept, AcceptShutdown,
       ConnectionEnds, ConnectionPanics, ConnectionShutdown, ClearSender, StopPoller,
       ShutdownFires, OthersUnchanged, Terminated, vars, pollerVars
  <1> QED
    BY <1>1, <1>2, <1>3, <1>4 DEF SourceNext

(* What was applied stays applied, with its content.                       *)
LEMMA AppliedStays ==
    ASSUME NEW States, SourceInvariant(States), [SourceNext]_allVars, NEW i \in 1..Len(applied)
    PROVE  i \in 1..Len(applied') /\ content'[applied'[i]] = content[applied[i]]
  <1>1. i \in 1..Len(applied') /\ applied'[i] = applied[i]
    <2>0. applied \in Seq(1..MaxWrites) /\ write_rx \in Seq(1..MaxWrites)
      BY DEF SourceInvariant, Invariant, TypeOK, SharedTypeOK, PollerTypeOK
    <2>1. CASE WriteStep
      <3>1. Head(write_rx) \in 1..MaxWrites /\ applied' = Append(applied, Head(write_rx))
        BY <2>0, <2>1, HeadTail DEF WriteStep, ApplyWrite
      <3> QED
        BY <2>0, <3>1, AppendLast
    <2> QED
      BY <2>0, <2>1, AppliedStep
  <1>2. applied[i] \in 1..Len(content)
    BY QueuedAreIssued DEF SourceInvariant, Invariant, ContentOfIssued
  <1>3. content'[applied[i]] = content[applied[i]]
    BY <1>2, ContentStep DEF SourceInvariant, Invariant
  <1> QED
    BY <1>1, <1>3

(* What the datasource is called with was issued, and is applied then.     *)
LEMMA AppliedNow ==
    ASSUME NEW States, SourceInvariant(States), WriteStep
    PROVE  \E w \in [path : Names, value : Written] :
              /\ source' = WriteValue(source, w.path, w.value)
              /\ \E i \in 1..Len(applied') : content'[applied'[i]] = w
  <1> DEFINE C == [path : Names, value : Written]
             w == content[Head(write_rx)]
  <1>1. /\ write_rx # <<>> /\ applied' = Append(applied, Head(write_rx)) /\ content' = content
        /\ source' = WriteValue(source, w.path, w.value)
    BY DEF WriteStep, ApplyWrite
  <1>2. applied \in Seq(1..MaxWrites) /\ write_rx \in Seq(1..MaxWrites)
    BY DEF SourceInvariant, Invariant, TypeOK, SharedTypeOK, PollerTypeOK
  <1>3. /\ Head(write_rx) \in 1..MaxWrites /\ Head(write_rx) = write_rx[1]
        /\ 1 \in 1..Len(write_rx)
    <2>1. /\ Head(write_rx) \in 1..MaxWrites /\ Head(write_rx) = write_rx[1]
          /\ Len(write_rx) > 0
      BY ONLY <1>1, <1>2, HeadTail
    <2>2. Len(write_rx) \in Nat
      BY ONLY <1>2
    <2> QED
      BY <2>1, <2>2
  <1>4. Head(write_rx) \in 1..Len(content)
    BY <1>3, QueuedAreIssued DEF SourceInvariant, Invariant, ContentOfIssued
  <1>5. w \in C
    <2>1. content \in Seq(C)
      BY DEF SourceInvariant, ContentOfIssued
    <2> HIDE DEF C
    <2> QED
      BY <1>4, <2>1
  <1>6. Len(applied) + 1 \in 1..Len(applied') /\ applied'[Len(applied) + 1] = Head(write_rx)
    BY <1>1, <1>2, <1>3, AppendLast
  <1>7. content'[applied'[Len(applied) + 1]] = w
    BY <1>1, <1>6
  <1> HIDE DEF w
  <1> QED
    BY <1>1, <1>5, <1>6, <1>7

-----------------------------------------------------------------------------
(* Until a float that is not finite was applied, the datasource has none   *)
(* and has returned none.                                                  *)
FiniteSoFar(Finite) ==
    ~NonFiniteApplied =>
        /\ source \in Finite
        /\ \A p \in Paths : \A i \in 1..Len(emitted[p]) : emitted[p][i].kind # "NonFinite"

LEMMA FiniteStep ==
    ASSUME NEW States, NEW Finite, Contract(States), StaysFinite(Finite),
           SourceInvariant(States), FiniteSoFar(Finite), [SourceNext]_allVars
    PROVE  FiniteSoFar(Finite)'
  <1> SUFFICES ASSUME ~NonFiniteApplied'
               PROVE  /\ source' \in Finite
                      /\ \A p \in Paths : \A i \in 1..Len(emitted'[p]) :
                            emitted'[p][i].kind # "NonFinite"
    BY DEF FiniteSoFar
  <1>1. ~NonFiniteApplied
    BY AppliedStays DEF NonFiniteApplied
  <1>2. /\ source \in Finite
        /\ \A p \in Paths : \A i \in 1..Len(emitted[p]) : emitted[p][i].kind # "NonFinite"
    BY <1>1 DEF FiniteSoFar
  <1>3. CASE PollStep
    <2> DEFINE updates == Poll(source, subscribed).updates
    <2>1. /\ source' = Poll(source, subscribed).state
          /\ emitted' = [p \in Paths |-> IF p \in DOMAIN updates
                                         THEN Append(emitted[p], updates[p]) ELSE emitted[p]]
      BY <1>3 DEF PollStep
    <2>2. subscribed \in SUBSET Paths /\ source \in States
      BY DEF SourceInvariant, Invariant, TypeOK, SharedTypeOK
    <2>3. /\ Poll(source, subscribed).state \in Finite
          /\ \A p \in DOMAIN updates : updates[p].kind # "NonFinite" /\ updates[p] \in Declared(p)
      BY <1>2, <2>2 DEF StaysFinite, Contract
    <2> HIDE DEF updates
    <2>4. ASSUME NEW p \in Paths, NEW i \in 1..Len(emitted'[p])
          PROVE  emitted'[p][i].kind # "NonFinite"
      <3>1. emitted[p] \in Seq(Declared(p))
        BY DEF SourceInvariant, Emissions
      <3>2. CASE p \in DOMAIN updates
        <4>1. emitted'[p] = Append(emitted[p], updates[p]) /\ updates[p] \in Declared(p)
          BY <2>1, <2>3, <3>2
        <4>2. /\ Len(emitted[p]) \in Nat /\ Len(emitted'[p]) = Len(emitted[p]) + 1
              /\ emitted'[p][Len(emitted[p]) + 1] = updates[p]
              /\ \A k \in 1..Len(emitted[p]) : emitted'[p][k] = emitted[p][k]
          BY <3>1, <4>1, AppendLast
        <4>3. i \in 1..Len(emitted[p]) \/ i = Len(emitted[p]) + 1
          BY <4>2
        <4> QED
          BY <1>2, <2>3, <3>2, <4>2, <4>3
      <3>3. CASE p \notin DOMAIN updates
        BY <1>2, <2>1, <3>3
      <3> QED
        BY <3>2, <3>3
    <2> QED
      BY <2>1, <2>3, <2>4
  <1>4. CASE WriteStep
    <2>1. PICK w \in [path : Names, value : Written] :
                 /\ source' = WriteValue(source, w.path, w.value)
                 /\ \E i \in 1..Len(applied') : content'[applied'[i]] = w
      BY <1>4, AppliedNow
    <2>2. w.value # NonFinite
      BY <2>1 DEF NonFiniteApplied
    <2>3. source' \in Finite
      BY <1>2, <2>1, <2>2 DEF StaysFinite
    <2>4. emitted' = emitted
      BY <1>4 DEF WriteStep
    <2> QED
      BY <1>2, <2>3, <2>4
  <1>5. CASE ~PollStep /\ ~WriteStep
    <2>1. UNCHANGED <<source, emitted>>
      BY <1>5 DEF SourceNext, OverflowStep, IssueStep, BatchStep, Issue, BareTick, AbortPoller,
         ClientStep, MainStep, allVars, sourceVars
    <2> QED
      BY <1>2, <2>1
  <1> QED
    BY <1>3, <1>4, <1>5

(* The JSON of a value of the declared type.                               *)
LEMMA JsonOfDeclared ==
    ASSUME NEW p \in Paths, NEW value \in Declared(p)
    PROVE  \/ to_json(value).type = JsonTypeOf(Watchables[p])
           \/ /\ to_json(value).type = "null"
              /\ Watchables[p] = "float64" /\ value.kind = "NonFinite"
  <1>1. Watchables[p] \in {"float64", "sint64", "uint32"} /\ value.kind \in KindsOf(Watchables[p])
    BY SourceAssumption DEF Declared, DataType
  <1>2. CASE Watchables[p] = "float64"
    <2>1. value.kind \in {"Float", "NonFinite"} /\ JsonTypeOf(Watchables[p]) = "fraction"
      BY <1>1, <1>2 DEF KindsOf, JsonTypeOf
    <2>2. value.kind = "Float" => to_json(value).type = "fraction"
      BY DEF to_json
    <2>3. value.kind = "NonFinite" => to_json(value).type = "null"
      BY DEF to_json
    <2> QED
      BY <1>2, <2>1, <2>2, <2>3
  <1>3. CASE Watchables[p] # "float64"
    <2>1. value.kind \in {"Int", "Uint"} /\ JsonTypeOf(Watchables[p]) = "integer"
      BY <1>1, <1>3 DEF KindsOf, JsonTypeOf
    <2> QED
      BY <2>1 DEF to_json
  <1> QED
    BY <1>2, <1>3

LEMMA EmissionsAreDeclared ==
    ASSUME NEW States, NEW Finite, SourceInvariant(States), FiniteSoFar(Finite)
    PROVE  ValuesAreAsDeclared
  <1>1. value_store \in Batch
    BY DEF SourceInvariant, Invariant, TypeOK, SharedTypeOK
  <1> SUFFICES ASSUME NEW p \in Paths
               PROVE  /\ value_store[p] <= Len(emitted[p])
                      /\ \A i \in 1..Len(emitted[p]) :
                            \/ to_json(emitted[p][i]).type = JsonTypeOf(Watchables[p])
                            \/ /\ to_json(emitted[p][i]).type = "null"
                               /\ Watchables[p] = "float64" /\ NonFiniteApplied
    BY DEF ValuesAreAsDeclared
  <1>2. /\ emitted[p] \in Seq(Declared(p)) /\ Len(emitted[p]) = value_store[p] + Taken(p)
        /\ Taken(p) \in {0, 1} /\ value_store[p] \in Nat
    BY <1>1 DEF SourceInvariant, Emissions, Taken, Batch
  <1>3. ASSUME NEW i \in 1..Len(emitted[p])
        PROVE  \/ to_json(emitted[p][i]).type = JsonTypeOf(Watchables[p])
               \/ /\ to_json(emitted[p][i]).type = "null"
                  /\ Watchables[p] = "float64" /\ NonFiniteApplied
    <2>1. emitted[p][i] \in Declared(p)
      BY <1>2
    <2>2. emitted[p][i].kind = "NonFinite" => NonFiniteApplied
      BY DEF FiniteSoFar
    <2> QED
      BY <2>1, <2>2, JsonOfDeclared
  <1> QED
    BY <1>2, <1>3

(* A datasource that keeps its contract: every value a client can be given *)
(* is JSON of the declared type, or the null that a client brought about;  *)
(* and each stored sample has its value.                                   *)
THEOREM ContractedValuesAreDeclared ==
    ASSUME NEW States, NEW Finite, Contract(States), StaysFinite(Finite)
    PROVE  SourceSpec => []ValuesAreAsDeclared
  <1>1. SourceInit => SourceInvariant(States) /\ FiniteSoFar(Finite)
    <2>1. SourceInit => SourceInvariant(States)
      BY SourceInvariantInit
    <2>2. SourceInit => FiniteSoFar(Finite)
      BY DEF SourceInit, FiniteSoFar, StaysFinite
    <2> QED
      BY <2>1, <2>2
  <1>2. SourceInvariant(States) /\ [SourceNext]_allVars => SourceInvariant(States)'
    BY SourceInvariantStep
  <1>3. SourceInvariant(States) /\ FiniteSoFar(Finite) /\ [SourceNext]_allVars
           => FiniteSoFar(Finite)'
    BY FiniteStep
  <1>4. SourceInvariant(States) /\ FiniteSoFar(Finite) => ValuesAreAsDeclared
    BY EmissionsAreDeclared
  <1> QED
    BY <1>1, <1>2, <1>3, <1>4, PTL DEF SourceSpec

=============================================================================
