---------------------------- MODULE ServerProofs ----------------------------
(***************************************************************************)
(* Proofs about Server, for every set of paths, every capacity of the two  *)
(* channels and every bound.                                               *)
(***************************************************************************)
EXTENDS ServerInvariants, TLAPS

(* What the operators on batches return.                                   *)
LEMMA BatchOperators ==
    /\ NoSamples \in Batch
    /\ \A b \in Batch : \A S : Only(b, S) \in Batch
    /\ \A b, c \in Batch : Merge(b, c) \in Batch
    /\ \A b \in Batch : Carried(b) \in SUBSET Paths
  BY DEF Batch, NoSamples, Only, Merge, Carried

(* What the handler sends are messages.                                    *)
LEMMA Messages ==
    /\ Response \in Message /\ ErrorResponse \in Message
    /\ \A s \in ConnectionStatus : ServerStatus(s) \in Message
    /\ \A b \in Batch, c \in {"datasource", "server"} : WatchableUpdate(b, c) \in Message
    /\ \A w \in 1..MaxWrites : WriteSuccess(w) \in Message
  BY DEF Message, Response, ErrorResponse, ServerStatus, WatchableUpdate, WriteSuccess

LEMMA MessageFields ==
    ASSUME NEW m \in Message
    PROVE  /\ m.cmd = "watchable_update" => m.vals \in Batch
           /\ m.cmd = "inform_server_status" => m.status \in ConnectionStatus
           /\ m.cmd = "write_success" => m.write \in 1..MaxWrites
  BY DEF Message, Welcome, Response, ErrorResponse

LEMMA HeadTail ==
    ASSUME NEW S, NEW s \in Seq(S), s # <<>>
    PROVE  /\ Head(s) \in S /\ Tail(s) \in Seq(S)
           /\ Len(Tail(s)) = Len(s) - 1 /\ Len(s) > 0
           /\ Head(s) = s[1]
           /\ \A i \in 1..Len(Tail(s)) : Tail(s)[i] = s[i + 1]
  OBVIOUS

LEMMA AppendLast ==
    ASSUME NEW S, NEW s \in Seq(S), NEW e \in S
    PROVE  /\ Append(s, e) \in Seq(S)
           /\ Len(s) \in Nat /\ Len(Append(s, e)) = Len(s) + 1
           /\ Append(s, e)[Len(s) + 1] = e
           /\ \A i \in 1..Len(s) : Append(s, e)[i] = s[i]
  OBVIOUS

LEMMA RangeTyped ==
    ASSUME NEW S, NEW s \in Seq(S)
    PROVE  Range(s) \subseteq S
  BY DEF Range

-----------------------------------------------------------------------------
(* A component that a step leaves alone keeps its type.                    *)
LEMMA Frame ==
    ASSUME TypeOK
    PROVE  /\ UNCHANGED sharedVars => SharedTypeOK'
           /\ UNCHANGED pollerVars => PollerTypeOK'
           /\ UNCHANGED handlerVars => ConnectionTypeOK'
           /\ UNCHANGED runVars => RunTypeOK'
  <1>1. UNCHANGED sharedVars => SharedTypeOK'
    BY DEF TypeOK, SharedTypeOK, sharedVars, Batch
  <1>2. UNCHANGED pollerVars => PollerTypeOK'
    BY DEF TypeOK, PollerTypeOK, pollerVars, Batch
  <1>3. UNCHANGED handlerVars => ConnectionTypeOK'
    BY DEF TypeOK, ConnectionTypeOK, handlerVars, Batch
  <1>4. UNCHANGED runVars => RunTypeOK'
    BY DEF TypeOK, RunTypeOK, runVars
  <1> QED
    BY <1>1, <1>2, <1>3, <1>4

LEMMA PollerTypes ==
    ASSUME TypeOK, PollerStep
    PROVE  TypeOK'
  <1> USE ServerAssumption
  <1>0. ConnectionTypeOK' /\ RunTypeOK'
    BY Frame DEF PollerStep
  <1>1. CASE TickStatus
    <2>1. SharedTypeOK'
      BY <1>1 DEF TickStatus, TypeOK, SharedTypeOK, Batch
    <2>2. PollerTypeOK'
      BY <1>1 DEF TickStatus, TypeOK, PollerTypeOK, Batch
    <2> QED
      BY <1>0, <2>1, <2>2 DEF TypeOK
  <1>2. CASE TickSubscriptions
    <2>1. result' \in Batch /\ poll_pc' \in {"select", "store"}
      BY <1>2 DEF TickSubscriptions, TypeOK, SharedTypeOK, Batch
    <2>2. acquiring' \in SUBSET Paths /\ prev_subscribed' \in SUBSET Paths
      BY <1>2 DEF TickSubscriptions, TypeOK, SharedTypeOK, PollerTypeOK, Notified
    <2>3. SharedTypeOK' /\ applied' = applied
      BY <1>2, Frame DEF TickSubscriptions
    <2> QED
      BY <1>0, <2>1, <2>2, <2>3 DEF TypeOK, PollerTypeOK
  <1>3. CASE TickStore
    <2>1. value_store' \in Batch
      BY <1>3, BatchOperators DEF TickStore, TypeOK, SharedTypeOK, PollerTypeOK
    <2>2. SharedTypeOK'
      BY <1>3, <2>1 DEF TickStore, TypeOK, SharedTypeOK
    <2>3. PollerTypeOK'
      BY <1>3 DEF TickStore, TypeOK, PollerTypeOK
    <2> QED
      BY <1>0, <2>2, <2>3 DEF TypeOK
  <1>4. CASE TickPublish
    <2>0. result \in Batch /\ Carried(result) \in SUBSET Paths
      BY BatchOperators DEF TypeOK, PollerTypeOK
    <2>1. /\ value_rx' \in Seq(Batch) /\ Len(value_rx') <= ValueCap
          /\ lost' \in SUBSET Paths
      <3>1. CASE UNCHANGED <<value_rx, lost>>
        BY <3>1 DEF TypeOK, SharedTypeOK
      <3>2. CASE Len(value_rx) < ValueCap /\ value_rx' = Append(value_rx, result)
                  /\ lost' = lost \ Carried(result)
        BY <3>2, <2>0 DEF TypeOK, SharedTypeOK
      <3>3. CASE lost' = lost \cup Carried(result) /\ UNCHANGED value_rx
        BY <3>3, <2>0 DEF TypeOK, SharedTypeOK
      <3> QED
        BY <1>4, <3>1, <3>2, <3>3 DEF TickPublish, TrySendEvent
    <2>2. SharedTypeOK'
      BY <1>4, <2>1 DEF TickPublish, TypeOK, SharedTypeOK
    <2>3. PollerTypeOK'
      BY <1>4, BatchOperators DEF TickPublish, TypeOK, PollerTypeOK
    <2> QED
      BY <1>0, <2>2, <2>3 DEF TypeOK
  <1>5. CASE ApplyWrite
    <2>1. /\ Head(write_rx) \in 1..MaxWrites /\ Tail(write_rx) \in Seq(1..MaxWrites)
          /\ Len(Tail(write_rx)) <= WriteCap
      BY <1>5, HeadTail DEF ApplyWrite, TypeOK, SharedTypeOK
    <2>2. SharedTypeOK'
      BY <1>5, <2>1 DEF ApplyWrite, TypeOK, SharedTypeOK
    <2>3. PollerTypeOK'
      BY <1>5, <2>1 DEF ApplyWrite, TypeOK, PollerTypeOK
    <2> QED
      BY <1>0, <2>2, <2>3 DEF TypeOK
  <1>6. CASE PollerAborts \/ SourcePanics
    <2>1. Range(write_rx) \subseteq 1..MaxWrites
      BY RangeTyped DEF TypeOK, SharedTypeOK
    <2>0. write_rx' \in Seq(1..MaxWrites) /\ Len(write_rx') <= WriteCap
      <3>1. write_rx' = <<>>
        BY <1>6 DEF PollerAborts, SourcePanics, DropReceiver
      <3> QED
        BY <3>1, ServerAssumption
    <2>2. SharedTypeOK'
      BY <1>6, <2>0, <2>1 DEF PollerAborts, SourcePanics, DropReceiver, TypeOK, SharedTypeOK
    <2>3. PollerTypeOK'
      BY <1>6 DEF PollerAborts, SourcePanics, TypeOK, PollerTypeOK
    <2> QED
      BY <1>0, <2>2, <2>3 DEF TypeOK
  <1> QED
    BY <1>1, <1>2, <1>3, <1>4, <1>5, <1>6 DEF PollerStep, PollerNext, Tick

LEMMA RunTypes ==
    ASSUME TypeOK, RunNext
    PROVE  TypeOK'
  <1>1. CASE Bind \/ ListenerFails \/ AcceptShutdown \/ ShutdownFires
    <2>1. RunTypeOK'
      BY <1>1 DEF Bind, ListenerFails, AcceptShutdown, ShutdownFires, TypeOK, RunTypeOK
    <2> QED
      BY <1>1, <2>1, Frame DEF Bind, ListenerFails, AcceptShutdown, ShutdownFires, TypeOK
  <1>2. CASE Accept
    <2>1. SharedTypeOK'
      BY <1>2, ServerAssumption
         DEF Accept, StartHandler, OthersUnchanged, TypeOK, SharedTypeOK
    <2>2. ConnectionTypeOK'
      BY <1>2 DEF Accept, StartHandler, TypeOK, SharedTypeOK, ConnectionTypeOK
    <2>3. PollerTypeOK' /\ RunTypeOK'
      BY <1>2, Frame DEF Accept, OthersUnchanged, TypeOK, RunTypeOK
    <2> QED
      BY <2>1, <2>2, <2>3 DEF TypeOK
  <1>3. CASE ConnectionEnds \/ ConnectionPanics \/ ConnectionShutdown
    <2>0. DropHandler /\ OthersUnchanged /\ UNCHANGED <<value_sender, aborted, lost>>
      BY <1>3 DEF ConnectionEnds, ConnectionPanics, ConnectionShutdown
    <2>a. value_rx' \in Seq(Batch) /\ Len(value_rx') <= ValueCap
      BY <2>0, ServerAssumption DEF DropHandler
    <2>b. subscribed' \in SUBSET Paths /\ connected' \in BOOLEAN
      BY <2>0 DEF DropHandler, DropGuard, TypeOK, SharedTypeOK
    <2>1. SharedTypeOK'
      BY <2>0, <2>a, <2>b DEF OthersUnchanged, TypeOK, SharedTypeOK
    <2>2. ConnectionTypeOK'
      BY <2>0, BatchOperators, ServerAssumption
         DEF DropHandler, DropGuard, TypeOK, ConnectionTypeOK
    <2>3. PollerTypeOK'
      BY <2>0, Frame DEF OthersUnchanged
    <2>4. RunTypeOK'
      BY <1>3 DEF ConnectionEnds, ConnectionPanics, ConnectionShutdown, TypeOK, RunTypeOK
    <2> QED
      BY <2>1, <2>2, <2>3, <2>4 DEF TypeOK
  <1>4. CASE ClearSender \/ StopPoller
    <2>1. SharedTypeOK'
      BY <1>4 DEF ClearSender, StopPoller, TypeOK, SharedTypeOK
    <2>2. RunTypeOK'
      BY <1>4 DEF ClearSender, StopPoller, TypeOK, RunTypeOK
    <2> QED
      BY <1>4, <2>1, <2>2, Frame DEF ClearSender, StopPoller, TypeOK
  <1> QED
    BY <1>1, <1>2, <1>3, <1>4 DEF RunNext

(* The steps of the handler other than those of dispatch.                  *)
LEMMA SendTypes ==
    ASSUME TypeOK, Send
    PROVE  SharedTypeOK' /\ ConnectionTypeOK'
  <1>0. SharedTypeOK'
    BY Frame DEF Send, SendWelcome, SendMessage
  <1>1. CASE SendWelcome
    <2>1. ServerStatus(conn_status) \in Message
      BY Messages DEF TypeOK, SharedTypeOK
    <2>2. outbox' \in Seq(Message) /\ conn_pc' = "select"
      BY <1>1, <2>1 DEF SendWelcome
    <2> QED
      BY <1>0, <1>1, <2>2 DEF SendWelcome, TypeOK, ConnectionTypeOK
  <1>2. CASE SendMessage
    <2>1. Head(outbox) \in Message /\ Tail(outbox) \in Seq(Message)
      BY <1>2, HeadTail DEF SendMessage, TypeOK, ConnectionTypeOK
    <2>2. view' \in Batch
      BY <1>2, <2>1, MessageFields, BatchOperators DEF SendMessage, TypeOK, ConnectionTypeOK
    <2>3. shown' \in ConnectionStatus \cup {"none"}
      BY <1>2, <2>1, MessageFields DEF SendMessage, TypeOK, ConnectionTypeOK
    <2>4. told' \in Seq(1..MaxWrites)
      <3>1. told \in Seq(1..MaxWrites)
        BY DEF TypeOK, ConnectionTypeOK
      <3>2. Head(outbox).cmd = "write_success"
               => Append(told, Head(outbox).write) \in Seq(1..MaxWrites)
        BY <2>1, <3>1, MessageFields, AppendLast
      <3> QED
        BY <1>2, <3>1, <3>2 DEF SendMessage
    <2> QED
      BY <1>0, <1>2, <2>1, <2>2, <2>3, <2>4 DEF SendMessage, TypeOK, ConnectionTypeOK
  <1> QED
    BY <1>1, <1>2 DEF Send

LEMMA BranchTypes ==
    ASSUME TypeOK, ReceiveEvent \/ PushStatus
    PROVE  SharedTypeOK' /\ ConnectionTypeOK'
  <1>1. CASE ReceiveEvent
    <2> DEFINE updates == Only(Head(value_rx), subs)
    <2>1. /\ Head(value_rx) \in Batch /\ Tail(value_rx) \in Seq(Batch)
          /\ Len(Tail(value_rx)) <= ValueCap
      BY <1>1, HeadTail, ServerAssumption DEF ReceiveEvent, TypeOK, SharedTypeOK
    <2>2. WatchableUpdate(updates, "datasource") \in Message
      BY <2>1, BatchOperators, Messages
    <2>3. outbox' \in Seq(Message)
      BY <1>1, <2>2 DEF ReceiveEvent
    <2>4. SharedTypeOK'
      BY <1>1, <2>1 DEF ReceiveEvent, TypeOK, SharedTypeOK
    <2>5. ConnectionTypeOK'
      BY <1>1, <2>3 DEF ReceiveEvent, TypeOK, ConnectionTypeOK
    <2> QED
      BY <2>4, <2>5
  <1>2. CASE PushStatus
    <2>1. outbox' \in Seq(Message)
      BY <1>2, Messages DEF PushStatus, TypeOK, SharedTypeOK
    <2>2. ConnectionTypeOK'
      BY <1>2, <2>1 DEF PushStatus, TypeOK, ConnectionTypeOK
    <2> QED
      BY <1>2, <2>2, Frame DEF PushStatus
  <1> QED
    BY <1>1, <1>2

-----------------------------------------------------------------------------
LEMMA SubscriptionTypes ==
    ASSUME TypeOK, LoopState,
           SubscribePath \/ SubscribeDone \/ UnsubscribePath \/ UnsubscribeDone
    PROVE  SharedTypeOK' /\ ConnectionTypeOK'
  <1>1. CASE SubscribePath
    <2>1. CASE paths[at] \in Paths
      <3>1. subs' \in SUBSET Paths /\ subscribed' \in SUBSET Paths
        BY <1>1, <2>1
           DEF SubscribePath, GuardSubscribe, TypeOK, SharedTypeOK, ConnectionTypeOK
      <3>2. at' \in 1..(Len(paths') + 1) /\ paths' = paths
        BY <1>1, <2>1 DEF SubscribePath, InLoop, TypeOK, ConnectionTypeOK
      <3>3. SharedTypeOK'
        BY <1>1, <3>1 DEF SubscribePath, TypeOK, SharedTypeOK
      <3> QED
        BY <1>1, <2>1, <3>1, <3>2, <3>3 DEF SubscribePath, TypeOK, ConnectionTypeOK
    <2>2. CASE paths[at] \notin Paths
      <3>1. invalid_request_count' \in 0..MaxInvalid
        BY <1>1, <2>2, ServerAssumption
           DEF SubscribePath, Fail, InLoop, LoopState, TypeOK, ConnectionTypeOK
      <3>2. outbox' \in Seq(Message)
        <4>1. outbox' = <<ErrorResponse>>
          BY <1>1, <2>2 DEF SubscribePath, Fail
        <4> QED
          BY <4>1, Messages
      <3>3. conn_pc' = "select" /\ paths' = <<>> /\ at' = 1
        BY <1>1, <2>2 DEF SubscribePath, EndDispatch
      <3>4. SharedTypeOK'
        BY <1>1, <2>2 DEF SubscribePath, TypeOK, SharedTypeOK
      <3> QED
        BY <1>1, <2>2, <3>1, <3>2, <3>3, <3>4 DEF SubscribePath, TypeOK, ConnectionTypeOK
    <2> QED
      BY <2>1, <2>2
  <1>2. CASE SubscribeDone
    <2>1. \A i \in 1..Len(paths) : paths[i] \in subs
      BY <1>2 DEF SubscribeDone, LoopEnded, LoopState, TypeOK, ConnectionTypeOK
    <2>2. Range(paths) \subseteq Paths
      BY <2>1 DEF Range, TypeOK, ConnectionTypeOK
    <2>3. WatchableUpdate(Only(value_store, Range(paths)), "server") \in Message
      BY BatchOperators, Messages DEF TypeOK, SharedTypeOK
    <2>4. outbox' \in Seq(Message)
      BY <1>2, <2>3, Messages DEF SubscribeDone
    <2>5. conn_pc' = "select" /\ paths' = <<>> /\ at' = 1
      BY <1>2 DEF SubscribeDone, EndDispatch
    <2>6. ConnectionTypeOK'
      BY <1>2, <2>2, <2>4, <2>5 DEF SubscribeDone, TypeOK, ConnectionTypeOK
    <2> QED
      BY <1>2, <2>6, Frame DEF SubscribeDone
  <1>3. CASE UnsubscribePath
    <2>1. subs' \in SUBSET Paths /\ subscribed' \in SUBSET Paths
      BY <1>3
         DEF UnsubscribePath, GuardUnsubscribe, TypeOK, SharedTypeOK, ConnectionTypeOK
    <2>2. at' \in 1..(Len(paths') + 1) /\ paths' = paths
      BY <1>3 DEF UnsubscribePath, InLoop, TypeOK, ConnectionTypeOK
    <2>3. SharedTypeOK'
      BY <1>3, <2>1 DEF UnsubscribePath, TypeOK, SharedTypeOK
    <2> QED
      BY <1>3, <2>1, <2>2, <2>3 DEF UnsubscribePath, TypeOK, ConnectionTypeOK
  <1>4. CASE UnsubscribeDone
    <2>1. outbox' \in Seq(Message)
      BY <1>4, Messages DEF UnsubscribeDone
    <2>2. conn_pc' = "select" /\ paths' = <<>> /\ at' = 1
      BY <1>4 DEF UnsubscribeDone, EndDispatch
    <2>3. ConnectionTypeOK'
      BY <1>4, <2>1, <2>2 DEF UnsubscribeDone, TypeOK, ConnectionTypeOK
    <2> QED
      BY <1>4, <2>3, Frame DEF UnsubscribeDone
  <1> QED
    BY <1>1, <1>2, <1>3, <1>4

LEMMA TrySendWriteTypes ==
    ASSUME TypeOK, NEW w \in 1..MaxWrites, TrySendWrite(w)
    PROVE  /\ write_rx' \in Seq(1..MaxWrites) /\ Len(write_rx') <= WriteCap
           /\ lost_writes' \in SUBSET (1..MaxWrites)
  <1> DEFINE W == 1..MaxWrites
  <1>0. /\ write_rx \in Seq(W) /\ Len(write_rx) <= WriteCap
        /\ lost_writes \in SUBSET W /\ w \in W /\ WriteCap \in Nat
    BY ServerAssumption DEF TypeOK, SharedTypeOK
  <1> SUFFICES write_rx' \in Seq(W) /\ Len(write_rx') <= WriteCap /\ lost_writes' \in SUBSET W
    OBVIOUS
  <1> HIDE DEF W
  <1>1. CASE polling /\ Len(write_rx) < WriteCap
    <2>1. write_rx' = Append(write_rx, w) /\ lost_writes' = lost_writes
      BY <1>1 DEF TrySendWrite
    <2>2. Append(write_rx, w) \in Seq(W) /\ Len(Append(write_rx, w)) <= WriteCap
      BY <1>0, <1>1, AppendLast
    <2> QED
      BY <1>0, <2>1, <2>2
  <1>2. CASE ~(polling /\ Len(write_rx) < WriteCap)
    BY <1>0, <1>2 DEF TrySendWrite
  <1> QED
    BY <1>1, <1>2

LEMMA WriteTypes ==
    ASSUME TypeOK, LoopState, WritePath \/ WriteDone
    PROVE  SharedTypeOK' /\ ConnectionTypeOK'
  <1>1. CASE WritePath
    <2>1. issued + 1 \in 1..MaxWrites
      BY <1>1, ServerAssumption DEF WritePath, InLoop, LoopState, TypeOK, ConnectionTypeOK
    <2>2. /\ write_rx' \in Seq(1..MaxWrites) /\ Len(write_rx') <= WriteCap
          /\ lost_writes' \in SUBSET (1..MaxWrites)
      BY <1>1, <2>1, TrySendWriteTypes DEF WritePath
    <2>3. SharedTypeOK'
      BY <1>1, <2>2 DEF WritePath, TypeOK, SharedTypeOK
    <2>4. at' \in 1..(Len(paths') + 1) /\ issued' \in 0..MaxWrites
      BY <1>1, <2>1 DEF WritePath, InLoop, TypeOK, ConnectionTypeOK
    <2>5. ConnectionTypeOK'
      BY <1>1, <2>4 DEF WritePath, TypeOK, ConnectionTypeOK
    <2> QED
      BY <2>3, <2>5
  <1>2. CASE WriteDone
    <2> DEFINE first == issued - Len(paths)
               done == [i \in 1..Len(paths) |-> WriteSuccess(first + i)]
    <2>1. \A i \in 1..Len(paths) : first + i \in 1..MaxWrites
      BY <1>2, ServerAssumption DEF WriteDone, LoopEnded, LoopState, TypeOK, ConnectionTypeOK
    <2>2. \A i \in 1..Len(paths) : WriteSuccess(first + i) \in Message
      BY <2>1, Messages
    <2>3. Len(paths) \in Nat
      BY DEF TypeOK, ConnectionTypeOK
    <2>4. done \in Seq(Message)
      BY <2>2, <2>3
    <2>5. outbox' = <<Response>> \o done
      BY <1>2 DEF WriteDone
    <2>6. outbox' \in Seq(Message)
      <3> HIDE DEF done
      <3> QED
        BY <2>4, <2>5, Messages
    <2>7. conn_pc' = "select" /\ paths' = <<>> /\ at' = 1
      BY <1>2 DEF WriteDone, EndDispatch
    <2>8. ConnectionTypeOK'
      BY <1>2, <2>6, <2>7 DEF WriteDone, TypeOK, ConnectionTypeOK
    <2> QED
      BY <1>2, <2>8, Frame DEF WriteDone
  <1> QED
    BY <1>1, <1>2

LEMMA RequestTypes ==
    ASSUME TypeOK, NEW r \in Requests, TakeRequest(r)
    PROVE  SharedTypeOK' /\ ConnectionTypeOK'
  <1>1. CASE RefuseRequest(r)
    <2>1. outbox' = <<ErrorResponse>> /\ invalid_request_count' \in 0..MaxInvalid
      BY <1>1, ServerAssumption
         DEF RefuseRequest, Receives, Fail, TypeOK, ConnectionTypeOK
    <2>2. outbox' \in Seq(Message)
      BY <2>1, Messages
    <2>3. ConnectionTypeOK'
      BY <1>1, <2>1, <2>2 DEF RefuseRequest, TypeOK, ConnectionTypeOK
    <2> QED
      BY <1>1, <2>3, Frame DEF RefuseRequest
  <1>2. CASE AnswerRequest(r)
    <2>1. ServerStatus(conn_status) \in Message
      BY Messages DEF TypeOK, SharedTypeOK
    <2>2. \A n \in 1..MaxChunks : [i \in 1..n |-> Response] \in Seq(Message)
      BY Messages DEF MaxChunks
    <2>3. outbox' \in Seq(Message)
      <3> DEFINE One(m) == <<m>>  Two(m, n) == <<m, n>>
      <3>1. \A m, n \in Message : One(m) \in Seq(Message) /\ Two(m, n) \in Seq(Message)
        OBVIOUS
      <3>2. \/ outbox' \in {One(Response), One(ErrorResponse), One(ServerStatus(conn_status)),
                           Two(Response, ServerStatus(conn_status))}
            \/ \E n \in 1..MaxChunks : outbox' = [i \in 1..n |-> Response]
        BY <1>2 DEF AnswerRequest
      <3> HIDE DEF One, Two
      <3> QED
        BY <3>1, <3>2, <2>1, <2>2, Messages
    <2>4. ConnectionTypeOK'
      BY <1>2, <2>3 DEF AnswerRequest, TypeOK, ConnectionTypeOK
    <2> QED
      BY <1>2, <2>4, Frame DEF AnswerRequest
  <1>3. CASE BeginLoop(r)
    <2>1. r.names \in Seq(Names)
      BY ServerAssumption DEF Request
    <2>2. conn_pc' \in {"subscribe", "unsubscribe", "write"}
      BY <1>3 DEF BeginLoop, LoopOf
    <2>3. paths' \in Seq(Names) /\ at' \in 1..(Len(paths') + 1)
      BY <1>3, <2>1 DEF BeginLoop
    <2>4. ConnectionTypeOK'
      BY <1>3, <2>2, <2>3 DEF BeginLoop, TypeOK, ConnectionTypeOK
    <2> QED
      BY <1>3, <2>4, Frame DEF BeginLoop
  <1>4. CASE WriteSingle(r)
    <2>1. issued + 1 \in 1..MaxWrites
      BY <1>4, ServerAssumption DEF WriteSingle, TypeOK, ConnectionTypeOK
    <2>2. /\ write_rx' \in Seq(1..MaxWrites) /\ Len(write_rx') <= WriteCap
          /\ lost_writes' \in SUBSET (1..MaxWrites)
      BY <1>4, <2>1, TrySendWriteTypes DEF WriteSingle
    <2>3. SharedTypeOK'
      BY <1>4, <2>2 DEF WriteSingle, TypeOK, SharedTypeOK
    <2>4. outbox' \in Seq(Message)
      BY <1>4, <2>1, Messages DEF WriteSingle
    <2>5. issued' \in 0..MaxWrites
      BY <1>4, <2>1 DEF WriteSingle
    <2>6. ConnectionTypeOK'
      BY <1>4, <2>4, <2>5 DEF WriteSingle, TypeOK, ConnectionTypeOK
    <2> QED
      BY <2>3, <2>6
  <1> QED
    BY <1>1, <1>2, <1>3, <1>4 DEF TakeRequest

LEMMA HandlerTypes ==
    ASSUME TypeOK, LoopState, HandlerStep
    PROVE  TypeOK'
  <1>1. PollerTypeOK' /\ RunTypeOK'
    BY Frame DEF HandlerStep
  <1>2. SharedTypeOK' /\ ConnectionTypeOK'
    BY SendTypes, BranchTypes, SubscriptionTypes, WriteTypes, RequestTypes
       DEF HandlerStep, ConnectionNext, Dispatch
  <1> QED
    BY <1>1, <1>2 DEF TypeOK

LEMMA TypeStep ==
    ASSUME TypeOK, LoopState, [Next]_vars
    PROVE  TypeOK'
  <1>1. CASE UNCHANGED vars
    BY <1>1, Frame DEF vars, TypeOK
  <1> QED
    BY <1>1, PollerTypes, HandlerTypes, RunTypes DEF Next, Terminated

-----------------------------------------------------------------------------
(* The life cycle of a connection and the loops of dispatch.               *)

LEMMA LifeCycleStep ==
    ASSUME TypeOK, LifeCycle, LoopState, [Next]_vars
    PROVE  LifeCycle'
  <1>1. CASE UNCHANGED vars
    BY <1>1 DEF vars, sharedVars, pollerVars, handlerVars, runVars, LifeCycle
  <1>2. CASE PollerStep
    <2>1. /\ UNCHANGED <<subscribed, value_sender, connected, aborted, handlerVars, runVars>>
          /\ ~connected => UNCHANGED value_rx
      BY <1>2 DEF PollerStep, PollerNext, Tick, TickStatus, TickSubscriptions, TickStore,
                  TickPublish, TrySendEvent, ApplyWrite, PollerAborts, SourcePanics, sharedVars
    <2>2. polling' <=> poll_pc' \notin {"aborted", "panicked"}
      BY <1>2 DEF PollerStep, PollerNext, Tick, TickStatus, TickSubscriptions, TickStore,
                  TickPublish, ApplyWrite, PollerAborts, SourcePanics, DropReceiver, sharedVars,
                  LifeCycle
    <2> QED
      BY <2>1, <2>2 DEF LifeCycle, handlerVars, runVars
  <1>3. CASE HandlerStep
    <2>1. connected /\ UNCHANGED <<value_sender, connected, aborted, polling, pollerVars, runVars>>
      BY <1>3 DEF HandlerStep, ConnectionNext, Send, SendWelcome, SendMessage, ReceiveEvent,
           PushStatus, Waiting, Dispatch, SubscribePath, SubscribeDone, UnsubscribePath,
           UnsubscribeDone, WritePath, WriteDone, InLoop, LoopEnded, TakeRequest,
           RefuseRequest, AnswerRequest, BeginLoop, WriteSingle, Receives, sharedVars, LifeCycle
    <2>2. subscribed' = subs'
      BY <1>3 DEF HandlerStep, ConnectionNext, Send, SendWelcome, SendMessage, ReceiveEvent,
           PushStatus, Dispatch, SubscribePath, SubscribeDone, UnsubscribePath,
           UnsubscribeDone, WritePath, WriteDone, TakeRequest, RefuseRequest, AnswerRequest,
           BeginLoop, WriteSingle, sharedVars, GuardSubscribe, GuardUnsubscribe, LifeCycle
    <2>3. conn_pc' # "none" /\ (conn_pc' # "select" => outbox' = <<>>)
      <3>1. CASE Send \/ ReceiveEvent \/ PushStatus
        BY <3>1 DEF Send, SendWelcome, SendMessage, ReceiveEvent, PushStatus, Waiting
      <3>2. CASE Dispatch
        BY <3>2 DEF Dispatch, SubscribePath, SubscribeDone, UnsubscribePath, UnsubscribeDone,
             WritePath, WriteDone, InLoop, LoopEnded, EndDispatch, LifeCycle
      <3>3. ASSUME NEW r \in Requests, TakeRequest(r)
            PROVE  conn_pc' # "none" /\ (conn_pc' # "select" => outbox' = <<>>)
        BY <3>3 DEF TakeRequest, RefuseRequest, AnswerRequest, BeginLoop, LoopOf, WriteSingle,
             Receives, Waiting
      <3> QED
        BY <1>3, <3>1, <3>2, <3>3 DEF HandlerStep, ConnectionNext
    <2> QED
      BY <2>1, <2>2, <2>3 DEF LifeCycle, pollerVars, runVars
  <1>4. CASE RunNext
    <2>1. CASE Bind \/ ListenerFails \/ AcceptShutdown \/ ShutdownFires
      BY <2>1 DEF Bind, ListenerFails, AcceptShutdown, ShutdownFires, sharedVars, handlerVars,
           pollerVars, LifeCycle
    <2>2. CASE Accept
      BY <2>2 DEF Accept, StartHandler, OthersUnchanged, pollerVars, LifeCycle
    <2>3. CASE ConnectionEnds \/ ConnectionPanics \/ ConnectionShutdown
      <3>1. DropHandler /\ run_pc = "serving" /\ run_pc' \in {"closed", "panicked"}
            /\ UNCHANGED <<value_sender, aborted, shutdown, polling, poll_pc>>
        BY <2>3 DEF ConnectionEnds, ConnectionPanics, ConnectionShutdown, OthersUnchanged,
                    pollerVars
      <3>2. shutting_down' => shutdown /\ run_pc' = "closed"
        BY <2>3 DEF ConnectionEnds, ConnectionPanics, ConnectionShutdown, LifeCycle
      <3>3. ~aborted
        BY <3>1 DEF LifeCycle
      <3>4. subscribed' = {} /\ subs' = {}
        BY <3>1 DEF DropHandler, DropGuard, LifeCycle
      <3> QED
        BY <3>1, <3>2, <3>3, <3>4 DEF DropHandler, LifeCycle
    <2>4. CASE ClearSender \/ StopPoller
      BY <2>4 DEF ClearSender, StopPoller, handlerVars, pollerVars, LifeCycle
    <2> QED
      BY <1>4, <2>1, <2>2, <2>3, <2>4 DEF RunNext
  <1> QED
    BY <1>1, <1>2, <1>3, <1>4 DEF Next, Terminated

LEMMA LoopStateStep ==
    ASSUME TypeOK, LifeCycle, LoopState, [Next]_vars
    PROVE  LoopState'
  <1>1. CASE UNCHANGED handlerVars
    BY <1>1 DEF LoopState, handlerVars
  <1>2. CASE RunNext /\ ~UNCHANGED handlerVars
    BY <1>2 DEF RunNext, Bind, ListenerFails, Accept, AcceptShutdown, ConnectionEnds,
         ConnectionPanics, ConnectionShutdown, ClearSender, StopPoller, ShutdownFires, StartHandler,
         DropHandler, DropGuard, LifeCycle, LoopState
  <1>3. CASE Send \/ ReceiveEvent \/ PushStatus
    BY <1>3 DEF Send, SendWelcome, SendMessage, ReceiveEvent, PushStatus, Waiting, LoopState
  <1>4. CASE SubscribePath
    <2>1. CASE paths[at] \in Paths
      <3>1. /\ subs' = subs \cup {paths[at]} /\ at' = at + 1
            /\ UNCHANGED <<conn_pc, paths, invalid_request_count, confirmed>>
            /\ conn_pc = "subscribe"
        BY <1>4, <2>1 DEF SubscribePath, GuardSubscribe, InLoop
      <3>2. \A i \in 1..(at' - 1) : paths'[i] \in subs'
        BY <3>1 DEF LoopState, TypeOK, ConnectionTypeOK
      <3> QED
        BY <3>1, <3>2 DEF LoopState
    <2>2. CASE paths[at] \notin Paths
      BY <1>4, <2>2 DEF SubscribePath, EndDispatch, LoopState
    <2> QED
      BY <2>1, <2>2
  <1>5. CASE SubscribeDone
    <2>1. Range(paths) \subseteq subs
      BY <1>5 DEF SubscribeDone, LoopEnded, LoopState, TypeOK, ConnectionTypeOK, Range
    <2> QED
      BY <1>5, <2>1 DEF SubscribeDone, EndDispatch, LoopState
  <1>6. CASE UnsubscribePath \/ UnsubscribeDone
    <2>1. confirmed' \subseteq subs' /\ conn_pc' \in {"unsubscribe", "select"}
      BY <1>6 DEF UnsubscribePath, UnsubscribeDone, InLoop, GuardUnsubscribe, EndDispatch,
           LoopState, TypeOK, ConnectionTypeOK
    <2> QED
      BY <2>1 DEF LoopState
  <1>7. CASE WritePath \/ WriteDone
    BY <1>7, ServerAssumption DEF WritePath, WriteDone, InLoop, EndDispatch, LoopState, TypeOK, ConnectionTypeOK
  <1>8. ASSUME NEW r \in Requests, TakeRequest(r)
        PROVE  LoopState'
    <2>1. CASE RefuseRequest(r) \/ AnswerRequest(r) \/ WriteSingle(r)
      BY <2>1 DEF RefuseRequest, AnswerRequest, WriteSingle, Receives, Waiting, LoopState
    <2>2. CASE BeginLoop(r)
      <3>1. Len(r.names) \in Nat
        BY ServerAssumption DEF Request
      <3> QED
        BY <2>2, <3>1, ServerAssumption
           DEF BeginLoop, Receives, LoopOf, LoopState, TypeOK, ConnectionTypeOK
    <2> QED
      BY <1>8, <2>1, <2>2 DEF TakeRequest
  <1> QED
    BY <1>1, <1>2, <1>3, <1>4, <1>5, <1>6, <1>7, <1>8
       DEF Next, PollerStep, HandlerStep, ConnectionNext, Dispatch, Terminated, vars

-----------------------------------------------------------------------------
(* The samples on their way to the client.                                 *)

LEMMA MessageKinds ==
    /\ Response.cmd # "watchable_update" /\ ErrorResponse.cmd # "watchable_update"
    /\ \A s : ServerStatus(s).cmd # "watchable_update"
    /\ \A w : WriteSuccess(w).cmd # "watchable_update"
    /\ \A b, c : /\ WatchableUpdate(b, c).cmd = "watchable_update"
                 /\ WatchableUpdate(b, c).vals = b
  BY DEF Response, ErrorResponse, ServerStatus, WriteSuccess, WatchableUpdate

(* Steps of the handler that have nothing to do with values.               *)
ValueStep == SendMessage \/ ReceiveEvent \/ SubscribeDone

LEMMA PlainStep ==
    ASSUME TypeOK, LifeCycle, HandlerStep, ~ValueStep
    PROVE  /\ Updates = {} /\ Updates' = {} /\ confirmed' \subseteq confirmed
           /\ UNCHANGED <<value_store, value_rx, lost, view, floor, pollerVars>>
  <1>1. /\ outbox = <<>> /\ confirmed' \subseteq confirmed
        /\ UNCHANGED <<value_store, value_rx, lost, view, floor, pollerVars>>
    BY DEF HandlerStep, ConnectionNext, ValueStep, Send, SendWelcome, PushStatus, Waiting,
       Dispatch, SubscribePath, UnsubscribePath, UnsubscribeDone, WritePath, WriteDone,
       InLoop, LoopEnded, TakeRequest, RefuseRequest, AnswerRequest, BeginLoop, WriteSingle,
       Receives, sharedVars, LifeCycle
  <1>2. \A i \in 1..Len(outbox') : outbox'[i].cmd # "watchable_update"
    <2>1. CASE outbox' = outbox
      BY <1>1, <2>1
    <2>2. CASE SendWelcome \/ PushStatus
      BY <2>2, MessageKinds DEF SendWelcome, PushStatus
    <2>3. CASE (SubscribePath \/ UnsubscribePath \/ UnsubscribeDone \/ WritePath)
                 /\ outbox' # outbox
      BY <2>3, MessageKinds DEF SubscribePath, UnsubscribePath, UnsubscribeDone, WritePath, Fail
    <2>4. CASE WriteDone
      <3> DEFINE first == issued - Len(paths)
                 done == [i \in 1..Len(paths) |-> WriteSuccess(first + i)]
      <3>0. Len(paths) \in Nat /\ first \in Int
        BY DEF TypeOK, ConnectionTypeOK
      <3> DEFINE D == {WriteSuccess(w) : w \in Int}
      <3>a. \A i \in 1..Len(paths) : WriteSuccess(first + i) \in D
        BY <3>0
      <3>1. done \in Seq(D) /\ outbox' = <<Response>> \o done
        <4>1. outbox' = <<Response>> \o done
          BY <2>4 DEF WriteDone
        <4> HIDE DEF D
        <4>2. done \in Seq(D)
          BY <3>0, <3>a
        <4> QED
          BY <4>1, <4>2
      <3>2. \A i \in 1..Len(done) : done[i].cmd # "watchable_update"
        BY MessageKinds DEF TypeOK, ConnectionTypeOK
      <3> HIDE DEF done, D
      <3>3. /\ Len(outbox') = 1 + Len(done)
            /\ \A i \in 1..Len(outbox') :
                  outbox'[i] = IF i = 1 THEN Response ELSE done[i - 1]
        BY <3>1
      <3> QED
        BY <3>1, <3>2, <3>3, MessageKinds
    <2>5. ASSUME NEW r \in Requests, TakeRequest(r), outbox' # outbox
          PROVE  \A i \in 1..Len(outbox') : outbox'[i].cmd # "watchable_update"
      <3>1. CASE RefuseRequest(r)
        BY <3>1, MessageKinds DEF RefuseRequest, Fail
      <3>2. CASE AnswerRequest(r)
        BY <3>2, MessageKinds DEF AnswerRequest, MaxChunks
      <3>3. CASE WriteSingle(r)
        BY <3>3, MessageKinds DEF WriteSingle
      <3> QED
        BY <2>5, <3>1, <3>2, <3>3 DEF TakeRequest, BeginLoop
    <2> QED
      BY <2>1, <2>2, <2>3, <2>4, <2>5 DEF HandlerStep, ConnectionNext, ValueStep, Send, Dispatch
  <1> QED
    BY <1>1, <1>2 DEF Updates, IsUpdate

LEMMA BatchStateStep ==
    ASSUME TypeOK, BatchState, [Next]_vars
    PROVE  BatchState'
  <1>1. CASE UNCHANGED <<value_store, pollerVars>>
    BY <1>1 DEF BatchState, pollerVars
  <1>2. CASE PollerStep
    <2>1. CASE TickStatus
      BY <2>1 DEF TickStatus, BatchState, TypeOK, PollerTypeOK
    <2>2. CASE TickSubscriptions
      BY <2>2 DEF TickSubscriptions, BatchState, sharedVars
    <2>3. CASE TickStore
      BY <2>3 DEF TickStore, Merge, BatchState, TypeOK, SharedTypeOK, Batch
    <2>4. CASE TickPublish
      BY <2>4 DEF TickPublish, NoSamples, BatchState
    <2>5. CASE ApplyWrite \/ PollerAborts \/ SourcePanics
      BY <2>5 DEF ApplyWrite, PollerAborts, SourcePanics, BatchState
    <2> QED
      BY <1>2, <2>1, <2>2, <2>3, <2>4, <2>5 DEF PollerStep, PollerNext, Tick
  <1>3. CASE HandlerStep
    <2>1. UNCHANGED <<value_store, pollerVars>>
      BY <1>3 DEF HandlerStep, ConnectionNext, Send, SendWelcome, SendMessage, ReceiveEvent,
           PushStatus, Dispatch, SubscribePath, SubscribeDone, UnsubscribePath,
           UnsubscribeDone, WritePath, WriteDone, TakeRequest, RefuseRequest, AnswerRequest,
           BeginLoop, WriteSingle, sharedVars
    <2> QED
      BY <1>1, <2>1
  <1>4. CASE RunNext
    <2>1. UNCHANGED <<value_store, pollerVars>>
      BY <1>4 DEF RunNext, Bind, ListenerFails, Accept, AcceptShutdown, ConnectionEnds,
           ConnectionPanics, ConnectionShutdown, ClearSender, StopPoller, ShutdownFires, OthersUnchanged, sharedVars
    <2> QED
      BY <1>1, <2>1
  <1> QED
    BY <1>1, <1>2, <1>3, <1>4 DEF Next, Terminated, vars, sharedVars

(* The latest sample of a path never decreases.                            *)
LEMMA StoreGrows ==
    ASSUME TypeOK, BatchState, [Next]_vars
    PROVE  \A p \in Paths : value_store[p] <= value_store'[p]
  <1>1. UNCHANGED value_store \/ TickStore
    BY DEF Next, PollerStep, PollerNext, Tick, TickStatus, TickSubscriptions, TickPublish,
       ApplyWrite, PollerAborts, SourcePanics, HandlerStep, ConnectionNext, Send, SendWelcome,
       SendMessage, ReceiveEvent, PushStatus, Dispatch, SubscribePath, SubscribeDone, UnsubscribePath,
       UnsubscribeDone, WritePath, WriteDone, TakeRequest, RefuseRequest, AnswerRequest,
       BeginLoop, WriteSingle, RunNext, Bind, ListenerFails, Accept, AcceptShutdown,
       ConnectionEnds, ConnectionPanics, ConnectionShutdown, ClearSender, StopPoller, ShutdownFires,
       OthersUnchanged, Terminated, vars, sharedVars
  <1>2. \A p \in Paths : value_store[p] \in Nat
    BY DEF TypeOK, SharedTypeOK, Batch
  <1>3. CASE UNCHANGED value_store
    BY <1>2, <1>3
  <1>4. CASE TickStore
    BY <1>2, <1>4 DEF TickStore, Merge, BatchState
  <1> QED
    BY <1>1, <1>3, <1>4

(* A batch whose samples are of this connection, stored, and of S.         *)
Fresh(b, S) ==
    \A p \in Paths : b[p] # 0 => p \in S /\ floor[p] <= b[p] /\ b[p] <= value_store[p]

LEMMA SamplesInRangeStep ==
    ASSUME TypeOK, LifeCycle, LoopState, BatchState, SamplesInRange, [Next]_vars
    PROVE  SamplesInRange'
  <1> DEFINE Basic == /\ \A p \in Paths : /\ floor[p] <= value_store[p]
                                          /\ view[p] # 0 => floor[p] <= view[p]
                                                             /\ view[p] <= value_store[p]
                      /\ \A i \in 1..Len(value_rx) : Fresh(value_rx[i], Paths)
             Sent == /\ \A i \in Updates : Fresh(outbox[i].vals, subs)
                     /\ \A i, j \in Updates : i = j
  <1>0. SamplesInRange <=> Basic /\ Sent
    BY DEF SamplesInRange, Fresh
  <1>0p. (SamplesInRange <=> Basic /\ Sent)'
    BY DEF SamplesInRange, Fresh
  <1>t. /\ \A p \in Paths : floor[p] \in Nat /\ view[p] \in Nat /\ value_store[p] \in Nat
        /\ value_rx \in Seq(Batch) /\ result \in Batch /\ outbox \in Seq(Message)
    BY DEF TypeOK, SharedTypeOK, PollerTypeOK, ConnectionTypeOK, Batch
  <1>v. \A i \in Updates : outbox[i] \in Message /\ outbox[i].vals \in Batch
    BY <1>t, MessageFields DEF Updates, IsUpdate
  <1>q. \A i \in 1..Len(value_rx) : value_rx[i] \in Batch
    BY <1>t
  <1>g. \A p \in Paths : value_store[p] <= value_store'[p] /\ value_store'[p] \in Nat
    BY StoreGrows, TypeStep DEF TypeOK, SharedTypeOK, Batch
  <1>1. ASSUME UNCHANGED <<floor, view, value_rx, outbox, subs>>
        PROVE  SamplesInRange'
    <2>1. Basic'
      <3>1. \A p \in Paths : /\ floor'[p] <= value_store'[p]
                             /\ view'[p] # 0 => floor'[p] <= view'[p]
                                               /\ view'[p] <= value_store'[p]
        BY <1>0, <1>1, <1>t, <1>g
      <3>2. ASSUME NEW i \in 1..Len(value_rx), NEW p \in Paths, value_rx[i][p] # 0
            PROVE  floor[p] <= value_rx[i][p] /\ value_rx[i][p] <= value_store'[p]
        BY <1>0, <1>t, <1>q, <1>g, <3>2 DEF Fresh, Batch
      <3> QED
        BY <1>1, <3>1, <3>2 DEF Fresh
    <2>2. Sent'
      <3>1. Updates' = Updates
        BY <1>1 DEF Updates, IsUpdate
      <3>2. ASSUME NEW i \in Updates, NEW p \in Paths, outbox[i].vals[p] # 0
            PROVE  /\ p \in subs /\ floor[p] <= outbox[i].vals[p]
                   /\ outbox[i].vals[p] <= value_store'[p]
        <4>1. outbox[i].vals[p] \in Nat
          BY <1>v DEF Batch
        <4>2. /\ p \in subs /\ floor[p] <= outbox[i].vals[p]
              /\ outbox[i].vals[p] <= value_store[p]
          BY <1>0, <3>2 DEF Fresh
        <4> QED
          BY <4>1, <4>2, <1>t, <1>g
      <3> QED
        BY <1>0, <1>1, <3>1, <3>2 DEF Fresh
    <2> QED
      BY <2>1, <2>2, <1>0p
  <1>2. CASE UNCHANGED vars
    BY <1>1, <1>2 DEF vars, sharedVars, handlerVars
  <1>3. CASE PollerStep
    <2>1. CASE ~TickPublish
      <3>1. UNCHANGED <<floor, view, value_rx, outbox, subs>>
        BY <1>3, <2>1 DEF PollerStep, PollerNext, Tick, TickStatus, TickSubscriptions, TickStore,
                          ApplyWrite, PollerAborts, SourcePanics, handlerVars, sharedVars
      <3> QED
        BY <1>1, <3>1
    <2>2. CASE TickPublish
      <3>1. UNCHANGED <<floor, view, value_store, outbox, subs>>
        BY <1>3, <2>2 DEF PollerStep, TickPublish, handlerVars
      <3>2. Sent'
        BY <1>0, <3>1 DEF Fresh, Updates, IsUpdate
      <3>3. value_rx' = value_rx \/ value_rx' = Append(value_rx, result)
        BY <2>2 DEF TickPublish, TrySendEvent
      <3>4. Fresh(result, Paths)
        BY <1>0, <1>t, <2>2 DEF Fresh, BatchState, TickPublish
      <3>5. \A i \in 1..Len(value_rx') : Fresh(value_rx'[i], Paths)
        BY <1>0, <1>t, <3>3, <3>4, AppendLast
      <3>6. Basic'
        BY <1>0, <3>1, <3>5 DEF Fresh
      <3> QED
        BY <3>2, <3>6, <1>0p
    <2> QED
      BY <2>1, <2>2
  <1>4. CASE HandlerStep
    <2>1. CASE ~ValueStep
      <3>1. Updates' = {} /\ UNCHANGED <<value_store, value_rx, view, floor>>
        BY <1>4, <2>1, PlainStep
      <3>2. Basic'
        BY <1>0, <3>1 DEF Fresh
      <3> QED
        BY <3>1, <3>2, <1>0p
    <2>2. CASE SendMessage
      <3>1. /\ UNCHANGED <<value_store, value_rx, floor, subs>> /\ outbox # <<>>
            /\ outbox' = Tail(outbox)
            /\ view' = IF Head(outbox).cmd = "watchable_update"
                        THEN Merge(view, Head(outbox).vals) ELSE view
        BY <2>2 DEF SendMessage, sharedVars
      <3>2. /\ Len(outbox') = Len(outbox) - 1 /\ Len(outbox) \in Nat /\ Len(outbox) > 0
            /\ Head(outbox) = outbox[1]
            /\ \A i \in 1..Len(outbox') : outbox'[i] = outbox[i + 1]
        BY <1>t, <3>1, HeadTail
      <3>3. \A i \in Updates' : i + 1 \in Updates /\ outbox'[i] = outbox[i + 1] /\ i \in Nat
        BY <3>2 DEF Updates, IsUpdate
      <3>4. Sent'
        <4>1. \A i \in Updates' : Fresh(outbox'[i].vals, subs)
          BY <1>0, <3>3
        <4>2. \A i, j \in Updates' : i = j
          BY <1>0, <3>3
        <4> QED
          BY <4>1, <4>2, <3>1 DEF Fresh
      <3>5. \A p \in Paths : view'[p] # 0 => floor[p] <= view'[p] /\ view'[p] <= value_store[p]
        <4>1. CASE Head(outbox).cmd = "watchable_update"
          <5>1. 1 \in Updates
            BY <3>2, <4>1 DEF Updates, IsUpdate
          <5>2. Fresh(Head(outbox).vals, subs)
            BY <1>0, <3>2, <5>1
          <5> QED
            BY <1>0, <3>1, <4>1, <5>2 DEF Fresh, Merge
        <4>2. CASE Head(outbox).cmd # "watchable_update"
          BY <1>0, <3>1, <4>2
        <4> QED
          BY <4>1, <4>2
      <3>6. Basic'
        BY <1>0, <3>1, <3>5 DEF Fresh
      <3> QED
        BY <3>4, <3>6, <1>0p
    <2>3. CASE ReceiveEvent
      <3> DEFINE updates == Only(Head(value_rx), subs)
                 m == WatchableUpdate(updates, "datasource")
      <3>1. /\ UNCHANGED <<value_store, view, floor, subs>> /\ value_rx # <<>>
            /\ value_rx' = Tail(value_rx) /\ (outbox' = <<>> \/ outbox' = <<m>>)
        BY <2>3 DEF ReceiveEvent
      <3>2. /\ Len(value_rx') = Len(value_rx) - 1 /\ Len(value_rx) \in Nat /\ Len(value_rx) > 0
            /\ Head(value_rx) = value_rx[1]
            /\ \A i \in 1..Len(value_rx') : value_rx'[i] = value_rx[i + 1]
        BY <1>t, <3>1, HeadTail
      <3>3. Fresh(updates, subs)
        BY <1>0, <3>2 DEF Fresh, Only
      <3>4. \A i \in Updates' : i = 1 /\ outbox'[i].vals = updates
        BY <3>1, MessageKinds DEF Updates, IsUpdate
      <3>5. Sent'
        <4> HIDE DEF updates
        <4> QED
          BY <3>1, <3>3, <3>4 DEF Fresh
      <3>6. Basic'
        BY <1>0, <3>1, <3>2 DEF Fresh
      <3> QED
        BY <3>5, <3>6, <1>0p
    <2>4. CASE SubscribeDone
      <3> DEFINE updates == Only(value_store, Range(paths))
                 m == WatchableUpdate(updates, "server")
      <3>1. /\ UNCHANGED <<value_store, view, floor, subs, value_rx>>
            /\ outbox' = <<Response>> \/ outbox' = <<Response, m>>
        BY <2>4 DEF SubscribeDone, sharedVars
      <3>2. Range(paths) \subseteq subs
        BY <2>4 DEF SubscribeDone, LoopEnded, LoopState, TypeOK, ConnectionTypeOK, Range
      <3>3. Fresh(updates, subs)
        BY <1>0, <1>t, <3>2 DEF Fresh, Only
      <3>4. \A i \in Updates' : i = 2 /\ outbox'[i].vals = updates
        BY <3>1, MessageKinds DEF Updates, IsUpdate
      <3>5. Sent'
        <4> HIDE DEF updates
        <4> QED
          BY <3>1, <3>3, <3>4 DEF Fresh
      <3>6. Basic'
        BY <1>0, <3>1 DEF Fresh
      <3> QED
        BY <3>5, <3>6, <1>0p
    <2> QED
      BY <2>1, <2>2, <2>3, <2>4 DEF ValueStep
  <1>5. CASE RunNext
    <2>1. CASE UNCHANGED handlerVars /\ UNCHANGED value_rx
      BY <1>1, <2>1 DEF handlerVars
    <2>2. CASE Accept
      <3>1. /\ floor' = value_store /\ UNCHANGED <<value_store, view, outbox, subs>>
            /\ value_rx' = <<>> /\ view = NoSamples /\ outbox = <<>>
        BY <2>2 DEF Accept, StartHandler, OthersUnchanged, LifeCycle
      <3>2. Updates' = {}
        BY <3>1 DEF Updates
      <3>3. Basic'
        BY <1>t, <3>1 DEF NoSamples, Fresh
      <3> QED
        BY <3>2, <3>3, <1>0p
    <2>3. CASE ConnectionEnds \/ ConnectionPanics \/ ConnectionShutdown
      <3>1. /\ floor' = NoSamples /\ view' = NoSamples /\ UNCHANGED value_store
            /\ value_rx' = <<>> /\ outbox' = <<>>
        BY <2>3 DEF ConnectionEnds, ConnectionPanics, ConnectionShutdown, DropHandler, OthersUnchanged
      <3>2. Updates' = {}
        BY <3>1 DEF Updates
      <3>3. Basic'
        BY <1>t, <3>1 DEF NoSamples, Fresh
      <3> QED
        BY <3>2, <3>3, <1>0p
    <2> QED
      BY <1>5, <2>1, <2>2, <2>3 DEF RunNext, Bind, ListenerFails, AcceptShutdown, ClearSender,
         StopPoller, ShutdownFires, sharedVars
  <1> QED
    BY <1>2, <1>3, <1>4, <1>5 DEF Next, Terminated

(* The two parts of LastCarrierIsLatest, for one path.                     *)
QueueEndsLatest(p) ==
    \A i \in 1..Len(value_rx) :
        /\ value_rx[i][p] # 0
        /\ \A j \in (i + 1)..Len(value_rx) : value_rx[j][p] = 0
        => value_rx[i][p] = value_store[p]

ClientLatest(p) ==
    p \in confirmed /\ ~Queued(p) =>
        /\ \A i \in Updates : outbox[i].vals[p] # 0 => outbox[i].vals[p] = value_store[p]
        /\ ~Outgoing(p) => view[p] = value_store[p]

LEMMA LastCarrierStep ==
    ASSUME TypeOK, LifeCycle, LoopState, BatchState, SamplesInRange, LastCarrierIsLatest,
           [Next]_vars
    PROVE  LastCarrierIsLatest'
  <1> SUFFICES ASSUME NEW p \in Paths, p \notin lost', ~InFlight(p)'
               PROVE  QueueEndsLatest(p)' /\ ClientLatest(p)'
    BY DEF LastCarrierIsLatest, QueueEndsLatest, ClientLatest
  <1>h. p \notin lost /\ ~InFlight(p) => QueueEndsLatest(p) /\ ClientLatest(p)
    BY DEF LastCarrierIsLatest, QueueEndsLatest, ClientLatest
  <1>t. /\ view[p] \in Nat /\ value_store[p] \in Nat
        /\ value_rx \in Seq(Batch) /\ result \in Batch /\ outbox \in Seq(Message)
    BY DEF TypeOK, SharedTypeOK, PollerTypeOK, ConnectionTypeOK, Batch
  <1>1. ASSUME UNCHANGED <<value_rx, outbox, view, confirmed>>, value_store'[p] = value_store[p],
               p \notin lost, ~InFlight(p)
        PROVE  QueueEndsLatest(p)' /\ ClientLatest(p)'
    BY <1>1, <1>h DEF QueueEndsLatest, ClientLatest, Queued, Outgoing, Updates, IsUpdate
  <1>2. CASE UNCHANGED vars
    BY <1>1, <1>2 DEF vars, sharedVars, handlerVars, pollerVars, InFlight
  <1>3. CASE PollerStep
    <2>1. CASE TickStatus \/ TickSubscriptions \/ ApplyWrite \/ PollerAborts \/ SourcePanics
      <3>1. UNCHANGED <<value_rx, outbox, view, confirmed, value_store, lost>> /\ ~InFlight(p)
        BY <1>3, <2>1 DEF PollerStep, TickStatus, TickSubscriptions, ApplyWrite, PollerAborts,
                          SourcePanics, handlerVars, sharedVars, InFlight
      <3> QED
        BY <1>1, <3>1
    <2>2. CASE TickStore
      <3>1. /\ UNCHANGED <<value_rx, outbox, view, confirmed, lost>> /\ ~InFlight(p)
            /\ value_store'[p] = value_store[p]
        BY <1>3, <2>2 DEF PollerStep, TickStore, handlerVars, InFlight, Merge
      <3> QED
        BY <1>1, <3>1
    <2>3. CASE TickPublish
      <3>1. /\ UNCHANGED <<outbox, view, confirmed, value_store>> /\ poll_pc = "publish"
            /\ result[p] \in {0, value_store[p]}
        BY <1>3, <2>3 DEF PollerStep, TickPublish, handlerVars, BatchState
      <3>2. CASE ~connected
        <4>1. value_rx' = <<>> /\ confirmed' = {}
          BY <2>3, <3>1, <3>2 DEF TickPublish, TrySendEvent, LifeCycle
        <4> QED
          BY <4>1 DEF QueueEndsLatest, ClientLatest
      <3>3. CASE connected /\ Len(value_rx) < ValueCap
        <4>1. /\ value_rx' = Append(value_rx, result)
              /\ result[p] = 0 => p \notin lost
          BY <2>3, <3>3 DEF TickPublish, TrySendEvent, LifeCycle, Carried
        <4>2. /\ Len(value_rx) \in Nat /\ Len(value_rx') = Len(value_rx) + 1
              /\ value_rx'[Len(value_rx) + 1] = result
              /\ \A i \in 1..Len(value_rx) : value_rx'[i] = value_rx[i]
          BY <1>t, <4>1, AppendLast
        <4>3. CASE result[p] # 0
          BY <3>1, <4>2, <4>3 DEF QueueEndsLatest, ClientLatest, Queued
        <4>4. CASE result[p] = 0
          <5>1. QueueEndsLatest(p) /\ ClientLatest(p)
            BY <1>h, <4>1, <4>4 DEF InFlight
          <5>2. Queued(p)' <=> Queued(p)
            BY <4>2, <4>4 DEF Queued
          <5>3. QueueEndsLatest(p)'
            BY <3>1, <4>2, <4>4, <5>1 DEF QueueEndsLatest
          <5>4. ClientLatest(p)'
            BY <3>1, <5>1, <5>2 DEF ClientLatest, Outgoing, Updates, IsUpdate
          <5> QED
            BY <5>3, <5>4
        <4> QED
          BY <4>3, <4>4
      <3>4. CASE connected /\ ~(Len(value_rx) < ValueCap)
        <4>1. UNCHANGED value_rx /\ p \notin lost /\ result[p] = 0
          BY <2>3, <3>4 DEF TickPublish, TrySendEvent, LifeCycle, Carried
        <4> QED
          BY <1>1, <3>1, <4>1 DEF InFlight
      <3> QED
        BY <3>2, <3>3, <3>4
    <2> QED
      BY <1>3, <2>1, <2>2, <2>3 DEF PollerStep, PollerNext, Tick
  <1>4. CASE HandlerStep
    <2>0. /\ UNCHANGED <<value_store, lost>> /\ p \notin lost /\ ~InFlight(p)
      <3>1. UNCHANGED <<value_store, lost, pollerVars>>
        BY <1>4, PlainStep DEF HandlerStep, ValueStep, SendMessage, ReceiveEvent, SubscribeDone,
                               sharedVars
      <3> QED
        BY <3>1 DEF pollerVars, InFlight
    <2>h. QueueEndsLatest(p) /\ ClientLatest(p)
      BY <1>h, <2>0
    <2>1. CASE ~ValueStep
      <3>1. /\ Updates = {} /\ Updates' = {} /\ confirmed' \subseteq confirmed
            /\ UNCHANGED <<value_rx, view>>
        BY <1>4, <2>1, PlainStep
      <3> QED
        BY <2>0, <2>h, <3>1 DEF QueueEndsLatest, ClientLatest, Queued, Outgoing
    <2>2. CASE SendMessage
      <3>1. /\ UNCHANGED <<value_rx, confirmed>> /\ outbox # <<>>
            /\ outbox' = Tail(outbox)
            /\ view' = IF Head(outbox).cmd = "watchable_update"
                        THEN Merge(view, Head(outbox).vals) ELSE view
        BY <2>2 DEF SendMessage, sharedVars
      <3>2. /\ Len(outbox') = Len(outbox) - 1 /\ Len(outbox) \in Nat /\ Len(outbox) > 0
            /\ Head(outbox) = outbox[1]
            /\ \A i \in 1..Len(outbox') : outbox'[i] = outbox[i + 1]
        BY <1>t, <3>1, HeadTail
      <3>3. \A i \in Updates' : i + 1 \in Updates /\ outbox'[i] = outbox[i + 1] /\ i \in Nat /\ i # 0
        BY <3>2 DEF Updates, IsUpdate
      <3>4. QueueEndsLatest(p)' /\ (Queued(p)' <=> Queued(p))
        BY <2>0, <2>h, <3>1 DEF QueueEndsLatest, Queued
      <3>5. ASSUME p \in confirmed, ~Queued(p)
            PROVE  /\ \A i \in Updates' : outbox'[i].vals[p] # 0 =>
                                             outbox'[i].vals[p] = value_store[p]
                   /\ ~Outgoing(p)' => view'[p] = value_store[p]
        <4>1. \A i \in Updates : outbox[i].vals[p] # 0 => outbox[i].vals[p] = value_store[p]
          BY <2>h, <3>5 DEF ClientLatest
        <4>2. ~Outgoing(p) => view[p] = value_store[p]
          BY <2>h, <3>5 DEF ClientLatest
        <4>3. CASE 1 \in Updates /\ outbox[1].vals[p] # 0
          <5>1. view'[p] = value_store[p]
            BY <3>1, <3>2, <4>1, <4>3 DEF Updates, IsUpdate, Merge
          <5> QED
            BY <3>3, <4>1, <5>1
        <4>4. CASE ~(1 \in Updates /\ outbox[1].vals[p] # 0)
          <5>1. view'[p] = view[p]
            BY <3>1, <3>2, <4>4 DEF Updates, IsUpdate, Merge
          <5>2. ~Outgoing(p)' => ~Outgoing(p)
            <6>1. ASSUME NEW i \in Updates, outbox[i].vals[p] # 0
                  PROVE  i - 1 \in Updates' /\ outbox'[i - 1].vals[p] # 0
              BY <3>2, <4>4, <6>1 DEF Updates, IsUpdate
            <6> QED
              BY <6>1 DEF Outgoing
          <5> QED
            BY <3>3, <4>1, <4>2, <5>1, <5>2
        <4> QED
          BY <4>3, <4>4
      <3>6. ClientLatest(p)'
        BY <2>0, <3>1, <3>4, <3>5 DEF ClientLatest
      <3> QED
        BY <3>4, <3>6
    <2>3. CASE ReceiveEvent
      <3> DEFINE updates == Only(Head(value_rx), subs)
                 m == WatchableUpdate(updates, "datasource")
      <3>1. /\ UNCHANGED <<view, confirmed>> /\ value_rx # <<>> /\ outbox = <<>>
            /\ value_rx' = Tail(value_rx)
            /\ outbox' = IF Carried(updates) = {} THEN <<>> ELSE <<m>>
        BY <2>3 DEF ReceiveEvent, Waiting
      <3>2. /\ Len(value_rx') = Len(value_rx) - 1 /\ Len(value_rx) \in Nat /\ Len(value_rx) > 0
            /\ Head(value_rx) = value_rx[1]
            /\ \A i \in 1..Len(value_rx') : value_rx'[i] = value_rx[i + 1]
        BY <1>t, <3>1, HeadTail
      <3>3. QueueEndsLatest(p)'
        <4> SUFFICES ASSUME NEW i \in 1..Len(value_rx'), value_rx'[i][p] # 0,
                            \A j \in (i + 1)..Len(value_rx') : value_rx'[j][p] = 0
                     PROVE  value_rx'[i][p] = value_store'[p]
          BY DEF QueueEndsLatest
        <4>1. i + 1 \in 1..Len(value_rx) /\ value_rx[i + 1][p] # 0
          BY <3>2
        <4>2. ASSUME NEW j \in (i + 2)..Len(value_rx)
              PROVE  value_rx[j][p] = 0
          <5>1. j - 1 \in (i + 1)..Len(value_rx') /\ value_rx'[j - 1] = value_rx[j]
            BY <3>2
          <5> QED
            BY <5>1
        <4>3. value_rx[i + 1][p] = value_store[p]
          BY <2>h, <4>1, <4>2 DEF QueueEndsLatest
        <4> QED
          BY <2>0, <3>2, <4>3
      <3>4. ASSUME p \in confirmed, ~Queued(p)'
            PROVE  /\ \A i \in Updates' : outbox'[i].vals[p] # 0 =>
                                             outbox'[i].vals[p] = value_store[p]
                   /\ ~Outgoing(p)' => view[p] = value_store[p]
        <4>1. updates[p] = value_rx[1][p]
          BY <3>2, <3>4 DEF Only, LoopState
        <4>2. \A i \in 2..Len(value_rx) : value_rx[i][p] = 0
          <5>1. \A i \in 2..Len(value_rx) : i - 1 \in 1..Len(value_rx') /\ value_rx'[i - 1] = value_rx[i]
            BY <3>2
          <5> QED
            BY <3>4, <5>1 DEF Queued
        <4>3. CASE value_rx[1][p] # 0
          <5>1. updates[p] = value_store[p] /\ updates[p] # 0
            BY <2>h, <3>2, <4>1, <4>2, <4>3 DEF QueueEndsLatest
          <5>2. outbox' = <<m>>
            <6> HIDE DEF m
            <6> QED
              BY <3>1, <5>1 DEF Carried
          <5>3. Updates' = {1} /\ outbox'[1].vals = updates
            BY <5>2, MessageKinds DEF Updates, IsUpdate
          <5> HIDE DEF updates
          <5> QED
            BY <5>1, <5>3 DEF Outgoing
        <4>4. CASE value_rx[1][p] = 0
          <5>1. ~Queued(p)
            BY <3>2, <4>2, <4>4 DEF Queued
          <5>2. ~Outgoing(p)
            BY <3>1 DEF Outgoing, Updates
          <5>3. view[p] = value_store[p]
            BY <2>h, <3>4, <5>1, <5>2 DEF ClientLatest
          <5>4. \A i \in Updates' : outbox'[i].vals = updates
            BY <3>1, MessageKinds DEF Updates, IsUpdate
          <5> HIDE DEF updates
          <5> QED
            BY <4>1, <4>4, <5>3, <5>4
        <4> QED
          BY <4>3, <4>4
      <3>5. ClientLatest(p)'
        BY <2>0, <3>1, <3>4 DEF ClientLatest
      <3> QED
        BY <3>3, <3>5
    <2>4. CASE SubscribeDone
      <3> DEFINE updates == Only(value_store, Range(paths))
                 m == WatchableUpdate(updates, "server")
      <3>1. /\ UNCHANGED <<view, value_rx>> /\ outbox = <<>>
            /\ confirmed' = confirmed \cup Range(paths)
            /\ outbox' = IF Carried(updates) = {} THEN <<Response>> ELSE <<Response, m>>
        BY <2>4 DEF SubscribeDone, sharedVars, LoopEnded, LifeCycle
      <3>2. QueueEndsLatest(p)' /\ (Queued(p)' <=> Queued(p))
        BY <2>0, <2>h, <3>1 DEF QueueEndsLatest, Queued
      <3>3. \A i \in Updates' : i = 2 /\ outbox'[i].vals = updates
        BY <3>1, MessageKinds DEF Updates, IsUpdate
      <3>4. updates[p] \in {0, value_store[p]}
        BY DEF Only
      <3>5. ASSUME p \in confirmed', ~Queued(p), ~Outgoing(p)'
            PROVE  view[p] = value_store[p]
        <4>1. CASE p \in Range(paths) /\ value_store[p] # 0
          <5>1. updates[p] # 0
            BY <4>1 DEF Only
          <5>2. outbox' = <<Response, m>>
            <6> HIDE DEF m
            <6> QED
              BY <3>1, <5>1 DEF Carried
          <5>3. 2 \in Updates' /\ outbox'[2].vals = updates
            BY <5>2, MessageKinds DEF Updates, IsUpdate
          <5> HIDE DEF updates
          <5> QED
            BY <3>5, <5>1, <5>3 DEF Outgoing
        <4>2. CASE value_store[p] = 0
          BY <1>t, <4>2 DEF SamplesInRange
        <4>3. CASE p \notin Range(paths)
          <5>1. p \in confirmed /\ ~Outgoing(p)
            BY <3>1, <3>5, <4>3 DEF Outgoing, Updates
          <5> QED
            BY <2>h, <3>5, <5>1 DEF ClientLatest
        <4> QED
          BY <4>1, <4>2, <4>3
      <3>6. ClientLatest(p)'
        <4> HIDE DEF updates
        <4> QED
          BY <2>0, <3>1, <3>2, <3>3, <3>4, <3>5 DEF ClientLatest
      <3> QED
        BY <3>2, <3>6
    <2> QED
      BY <2>1, <2>2, <2>3, <2>4 DEF ValueStep
  <1>5. CASE RunNext
    <2>1. CASE Accept \/ ConnectionEnds \/ ConnectionPanics \/ ConnectionShutdown
      <3>1. value_rx' = <<>> /\ confirmed' = {}
        BY <2>1 DEF Accept, StartHandler, ConnectionEnds, ConnectionPanics, ConnectionShutdown, DropHandler, LifeCycle
      <3> QED
        BY <3>1 DEF QueueEndsLatest, ClientLatest
    <2>2. CASE ~(Accept \/ ConnectionEnds \/ ConnectionPanics \/ ConnectionShutdown)
      <3>1. UNCHANGED <<value_rx, value_store, lost, pollerVars, handlerVars>>
        BY <1>5, <2>2 DEF RunNext, Bind, ListenerFails, AcceptShutdown, ClearSender, StopPoller,
                          ShutdownFires, sharedVars
      <3> QED
        BY <1>1, <3>1 DEF handlerVars, pollerVars, InFlight
    <2> QED
      BY <2>1, <2>2
  <1> QED
    BY <1>2, <1>3, <1>4, <1>5 DEF Next, Terminated

-----------------------------------------------------------------------------
(* The theorems.                                                           *)

(* The inductive invariant: types, and how the parts of the state that the *)
(* tasks keep are tied together at every step.                             *)
Invariant == TypeOK /\ FeedInvariant

LEMMA InvariantInit ==
    ASSUME Init
    PROVE  Invariant
  <1> USE ServerAssumption DEF Init, SharedInit, PollerInit, ConnectionInit
  <1>1. SharedTypeOK
    <2>1. /\ value_rx \in Seq(Batch) /\ Len(value_rx) <= ValueCap
          /\ write_rx \in Seq(1..MaxWrites) /\ Len(write_rx) <= WriteCap
      OBVIOUS
    <2>2. subscribed \in SUBSET Paths /\ lost \in SUBSET Paths /\ lost_writes \in SUBSET (1..MaxWrites)
      OBVIOUS
    <2>3. value_store \in Batch /\ conn_status \in ConnectionStatus
      BY BatchOperators DEF ConnectionStatus
    <2> QED
      BY <2>1, <2>2, <2>3 DEF SharedTypeOK
  <1>2. PollerTypeOK
    BY BatchOperators DEF PollerTypeOK
  <1>3. ConnectionTypeOK
    BY BatchOperators DEF ConnectionTypeOK
  <1>4. RunTypeOK
    BY DEF RunTypeOK
  <1>5. LifeCycle /\ LoopState
    BY DEF LifeCycle, LoopState
  <1>6. BatchState
    BY DEF BatchState, NoSamples
  <1>7. SamplesInRange /\ LastCarrierIsLatest
    BY DEF SamplesInRange, LastCarrierIsLatest, NoSamples, Updates
  <1> QED
    BY <1>1, <1>2, <1>3, <1>4, <1>5, <1>6, <1>7 DEF Invariant, TypeOK, FeedInvariant

LEMMA InvariantStep ==
    ASSUME Invariant, [Next]_vars
    PROVE  Invariant'
  BY TypeStep, LifeCycleStep, LoopStateStep, BatchStateStep, SamplesInRangeStep, LastCarrierStep
     DEF Invariant, FeedInvariant

THEOREM Invariance == Spec => []Invariant
  <1>1. Init => Invariant
    BY InvariantInit
  <1>2. Invariant /\ [Next]_vars => Invariant'
    BY InvariantStep
  <1> QED
    BY <1>1, <1>2, PTL DEF Spec

(* Every variable keeps to its domain and the two channels never hold more *)
(* than their capacity, in every step of every task.                       *)
THEOREM TypeCorrect == Spec => []TypeOK
  <1>1. Invariant => TypeOK
    BY DEF Invariant
  <1> QED
    BY <1>1, Invariance, PTL

(* FeedInvariant, which TLC checks, holds in every behaviour.              *)
THEOREM FeedInvariantHolds == Spec => []FeedInvariant
  <1>1. Invariant => FeedInvariant
    BY DEF Invariant
  <1> QED
    BY <1>1, Invariance, PTL

(* The poller sees exactly the subscriptions of the client that is         *)
(* connected, and none when there is no client (SubGuard and its Drop).    *)
THEOREM SubscriptionsMirrored == Spec => []SharedSetMirrorsGuard
  <1>1. Invariant => SharedSetMirrorsGuard
    BY DEF Invariant, FeedInvariant, LifeCycle, SharedSetMirrorsGuard
  <1> QED
    BY <1>1, Invariance, PTL

(* The value channel never closes under a handler, and no sender of a      *)
(* client that is gone stays in the slot.                                  *)
THEOREM SenderLives == Spec => []SenderLifetime
  <1>1. Invariant => SenderLifetime
    BY DEF Invariant, TypeOK, SharedTypeOK, FeedInvariant, LifeCycle, SenderLifetime
  <1> QED
    BY <1>1, Invariance, PTL

(* Nothing of the last client is left when run returns.                    *)
THEOREM StopIsClean == Spec => []CleanStop
  <1>1. Invariant => CleanStop
    BY DEF Invariant, TypeOK, SharedTypeOK, FeedInvariant, LifeCycle, CleanStop
  <1> QED
    BY <1>1, Invariance, PTL

(* With nothing in flight, a client holds the latest stored sample of each *)
(* path whose subscription was confirmed, unless its last event was lost.  *)
THEOREM Convergence == Spec => []Converged
  <1>1. Invariant => Converged
    BY DEF Invariant, TypeOK, ConnectionTypeOK, FeedInvariant, LoopState, LastCarrierIsLatest,
           InFlight, Queued, Outgoing, Updates, Converged
  <1> QED
    BY <1>1, Invariance, PTL

(* Once run saw the shutdown it takes no other client, and the poller is   *)
(* never aborted under a handler.                                          *)
THEOREM ShutdownIsFinal == Spec => NoClientAfterShutdown
  <1> DEFINE Step == /\ shutting_down => run_pc' # "serving" /\ run_pc' # "accept"
                     /\ aborted' # aborted => ~connected /\ ~connected'
  <1>1. Invariant /\ [Next]_vars => [Step]_vars
    <2> SUFFICES ASSUME Invariant, Next
                 PROVE  Step
      BY DEF vars
    <2>1. LifeCycle
      BY DEF Invariant, FeedInvariant
    <2>2. CASE PollerStep \/ HandlerStep \/ Terminated
      <3>1. UNCHANGED <<run_pc, shutting_down, aborted>>
        BY <2>2 DEF PollerStep, PollerNext, Tick, TickStatus, TickSubscriptions, TickStore,
             TickPublish, ApplyWrite, PollerAborts, SourcePanics, HandlerStep, ConnectionNext, Send,
             SendWelcome, SendMessage, ReceiveEvent, PushStatus, Dispatch, SubscribePath,
             SubscribeDone, UnsubscribePath, UnsubscribeDone, WritePath, WriteDone,
             TakeRequest, RefuseRequest, AnswerRequest, BeginLoop, WriteSingle, Terminated,
             vars, sharedVars, runVars
      <3> QED
        BY <2>1, <3>1 DEF LifeCycle
    <2>3. CASE RunNext
      BY <2>1, <2>3 DEF RunNext, Bind, ListenerFails, Accept, AcceptShutdown, ConnectionEnds,
           ConnectionPanics, ConnectionShutdown, ClearSender, StopPoller, ShutdownFires, sharedVars, LifeCycle
    <2> QED
      BY <2>2, <2>3 DEF Next
  <1> QED
    BY <1>1, Invariance, PTL DEF Spec, NoClientAfterShutdown

-----------------------------------------------------------------------------
(* Refinement: initial states map to initial states, and a step of the     *)
(* server maps to a step of the feed or leaves its state alone.            *)

LEMMA FeedStep ==
    ASSUME Invariant, [Next]_vars
    PROVE  [Feed!FeedNext]_(Feed!feedVars)
  <1> USE DEF Feed!feedVars
  <1>i. TypeOK /\ LifeCycle /\ BatchState /\ SamplesInRange
    BY DEF Invariant, FeedInvariant
  <1>t. TypeOK'
    BY InvariantStep DEF Invariant
  <1>1. CASE UNCHANGED <<value_store, connected, subs, floor, view>>
    BY <1>1
  <1>2. CASE TickStore /\ PollerStep
    <2>1. value_store' = [p \in Paths |-> IF p \in Carried(result) THEN value_store[p] + 1
                                          ELSE value_store[p]]
      BY <1>2, <1>i DEF TickStore, Merge, Carried, BatchState
    <2>2. UNCHANGED <<connected, subs, floor, view>> /\ Carried(result) \in SUBSET Paths
      BY <1>2 DEF TickStore, PollerStep, handlerVars, Carried
    <2>3. Feed!Publish(Carried(result))
      BY <2>1, <2>2 DEF Feed!Publish
    <2> QED
      BY <2>2, <2>3 DEF Feed!FeedNext
  <1>3. CASE SendMessage
    <2>1. UNCHANGED <<value_store, connected, subs, floor>> /\ connected
      BY <1>3, <1>i DEF SendMessage, sharedVars, LifeCycle
    <2>2. view' \in [Paths -> Nat]
      BY <1>t DEF TypeOK, ConnectionTypeOK, Batch
    <2>3. ASSUME NEW p \in Paths, view'[p] # view[p]
          PROVE  Feed!Deliverable(p, view'[p])
      <3>1. outbox \in Seq(Message) /\ outbox # <<>>
        BY <1>3, <1>i DEF SendMessage, TypeOK, ConnectionTypeOK
      <3>2. /\ Head(outbox).cmd = "watchable_update" /\ Head(outbox).vals[p] # 0
            /\ view'[p] = Head(outbox).vals[p]
        BY <1>3, <2>3 DEF SendMessage, Merge
      <3>3. 1 \in Updates /\ Head(outbox) = outbox[1]
        BY <3>1, <3>2, HeadTail DEF Updates, IsUpdate
      <3>4. p \in subs /\ floor[p] <= view'[p] /\ view'[p] <= value_store[p]
        BY <1>i, <3>2, <3>3 DEF SamplesInRange
      <3>5. 0 < view'[p]
        BY <2>2, <3>2
      <3> QED
        BY <3>4, <3>5 DEF Feed!Deliverable
    <2>4. Feed!Deliver
      BY <2>1, <2>2, <2>3 DEF Feed!Deliver
    <2> QED
      BY <2>4 DEF Feed!FeedNext
  <1>4. CASE SubscribePath \/ UnsubscribePath
    <2>1. UNCHANGED <<value_store, connected, floor, view>> /\ connected
      BY <1>4, <1>i DEF SubscribePath, UnsubscribePath, InLoop, LifeCycle
    <2>2. subs' \in SUBSET Paths
      BY <1>t DEF TypeOK, ConnectionTypeOK
    <2>3. Feed!Choose(subs')
      BY <2>1 DEF Feed!Choose
    <2> QED
      BY <2>2, <2>3 DEF Feed!FeedNext
  <1>5. CASE Accept
    <2>1. /\ ~connected /\ connected' = TRUE /\ floor' = value_store
          /\ UNCHANGED <<value_store, subs, view>>
      BY <1>5, <1>i DEF Accept, StartHandler, OthersUnchanged, LifeCycle
    <2>2. Feed!Connect
      BY <2>1 DEF Feed!Connect
    <2> QED
      BY <2>2 DEF Feed!FeedNext
  <1>6. CASE ConnectionEnds \/ ConnectionPanics \/ ConnectionShutdown
    <2>1. /\ connected /\ connected' = FALSE /\ subs' = {} /\ floor' = NoSamples
          /\ view' = NoSamples /\ UNCHANGED value_store
      BY <1>6 DEF ConnectionEnds, ConnectionPanics, ConnectionShutdown, AtAwait, DropHandler, DropGuard,
                  OthersUnchanged
    <2>2. Feed!Disconnect
      BY <2>1 DEF Feed!Disconnect, Feed!Nothing, NoSamples
    <2> QED
      BY <2>2 DEF Feed!FeedNext
  <1>7. CASE PollerStep /\ ~TickStore
    <2>1. UNCHANGED <<value_store, connected, subs, floor, view>>
      BY <1>7 DEF PollerStep, PollerNext, Tick, TickStatus, TickSubscriptions, TickPublish,
                  ApplyWrite, PollerAborts, SourcePanics, sharedVars, handlerVars
    <2> QED
      BY <1>1, <2>1
  <1>8. CASE HandlerStep /\ ~(SendMessage \/ SubscribePath \/ UnsubscribePath)
    <2>1. UNCHANGED <<value_store, connected, subs, floor, view>>
      BY <1>8 DEF HandlerStep, ConnectionNext, Send, SendWelcome, ReceiveEvent, PushStatus,
           Dispatch, SubscribeDone, UnsubscribeDone, WritePath, WriteDone, TakeRequest,
           RefuseRequest, AnswerRequest, BeginLoop, WriteSingle, sharedVars
    <2> QED
      BY <1>1, <2>1
  <1>9. CASE RunNext /\ ~(Accept \/ ConnectionEnds \/ ConnectionPanics \/ ConnectionShutdown)
    <2>1. UNCHANGED <<value_store, connected, subs, floor, view>>
      BY <1>9 DEF RunNext, Bind, ListenerFails, AcceptShutdown, ClearSender, StopPoller,
                  ShutdownFires, sharedVars, handlerVars
    <2> QED
      BY <1>1, <2>1
  <1>10. CASE UNCHANGED vars
    BY <1>1, <1>10 DEF vars, sharedVars, handlerVars
  <1> QED
    BY <1>2, <1>3, <1>4, <1>5, <1>6, <1>7, <1>8, <1>9, <1>10 DEF Next, Terminated

(* The server implements the abstract feed.                                *)
THEOREM FeedRefinement == Spec => RefinesValueFeed
  <1>1. Init => Feed!FeedInit
    BY DEF Init, SharedInit, ConnectionInit, NoSamples, Feed!FeedInit, Feed!Nothing
  <1>2. Invariant /\ [Next]_vars => [Feed!FeedNext]_(Feed!feedVars)
    BY FeedStep
  <1> QED
    BY <1>1, <1>2, Invariance, PTL DEF Spec, RefinesValueFeed, Feed!FeedSpec

=============================================================================
