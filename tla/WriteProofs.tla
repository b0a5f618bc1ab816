----------------------------- MODULE WriteProofs ----------------------------
(***************************************************************************)
(* Proofs that no write is applied twice, out of order or unaccounted for, *)
(* and that each client is told of its own writes, in order, none missing. *)
(***************************************************************************)
EXTENDS ServerProofs

LEMMA Concatenation ==
    ASSUME NEW S, NEW s \in Seq(S), NEW t \in Seq(S)
    PROVE  /\ s \o t \in Seq(S) /\ Len(s \o t) = Len(s) + Len(t)
           /\ \A i \in 1..Len(s) : (s \o t)[i] = s[i]
           /\ \A i \in 1..Len(t) : (s \o t)[Len(s) + i] = t[i]
  OBVIOUS

LEMMA SameSequence ==
    ASSUME NEW S, NEW s \in Seq(S), NEW t \in Seq(S), Len(s) = Len(t),
           \A i \in 1..Len(s) : s[i] = t[i]
    PROVE  s = t
  OBVIOUS

LEMMA RangeOfSequence ==
    ASSUME NEW S, NEW s \in Seq(S)
    PROVE  Range(s) = {s[i] : i \in 1..Len(s)}
  BY DEF Range

(* Taking the head of the second sequence to the end of the first, and     *)
(* appending to the second, seen on their concatenation.                   *)
LEMMA MoveHead ==
    ASSUME NEW S, NEW s \in Seq(S), NEW t \in Seq(S), t # <<>>
    PROVE  Append(s, Head(t)) \o Tail(t) = s \o t
  <1>1. /\ Head(t) \in S /\ Tail(t) \in Seq(S) /\ Len(Tail(t)) = Len(t) - 1 /\ Head(t) = t[1]
        /\ \A i \in 1..Len(Tail(t)) : Tail(t)[i] = t[i + 1]
        /\ Len(t) > 0 /\ Len(t) \in Nat /\ Len(s) \in Nat
    BY HeadTail
  <1> DEFINE a == Append(s, Head(t))
             b == Tail(t)
             l == a \o b
             r == s \o t
  <1>2. /\ a \in Seq(S) /\ Len(a) = Len(s) + 1 /\ a[Len(s) + 1] = t[1]
        /\ \A i \in 1..Len(s) : a[i] = s[i]
    BY <1>1, AppendLast
  <1>b. b \in Seq(S) /\ Len(b) = Len(t) - 1 /\ \A i \in 1..Len(b) : b[i] = t[i + 1]
    BY <1>1
  <1> HIDE DEF a, b
  <1>3. /\ l \in Seq(S) /\ Len(l) = Len(a) + Len(b)
        /\ \A i \in 1..Len(a) : l[i] = a[i]
        /\ \A i \in 1..Len(b) : l[Len(a) + i] = b[i]
    <2>1. a \in Seq(S) /\ b \in Seq(S)
      BY <1>2, <1>b
    <2> QED
      BY ONLY <2>1, Concatenation
  <1>4. /\ r \in Seq(S) /\ Len(r) = Len(s) + Len(t)
        /\ \A i \in 1..Len(s) : r[i] = s[i]
        /\ \A i \in 1..Len(t) : r[Len(s) + i] = t[i]
    BY Concatenation
  <1> HIDE DEF l, r
  <1>5. Len(l) = Len(r) /\ Len(l) \in Nat
    BY <1>1, <1>2, <1>b, <1>3, <1>4
  <1>6. ASSUME NEW i \in 1..Len(l)
        PROVE  l[i] = r[i]
    <2>1. CASE i <= Len(s)
      BY <1>1, <1>2, <1>3, <1>4, <2>1
    <2>2. CASE i = Len(s) + 1
      <3>1. 1 \in 1..Len(t) /\ i \in 1..Len(a)
        BY <1>1, <1>2, <2>2
      <3> QED
        BY <1>2, <1>3, <1>4, <2>2, <3>1
    <2>3. CASE i > Len(s) + 1
      <3>1. /\ i - Len(a) \in 1..Len(b) /\ i = Len(a) + (i - Len(a))
            /\ i - Len(s) \in 1..Len(t) /\ i = Len(s) + (i - Len(s))
            /\ (i - Len(a)) + 1 = i - Len(s)
        BY <1>1, <1>2, <1>b, <1>5, <1>4, <2>3
      <3>2. l[i] = b[i - Len(a)]
        BY <1>3, <3>1
      <3>3. r[i] = t[i - Len(s)]
        BY <1>4, <3>1
      <3> QED
        BY <1>b, <3>1, <3>2, <3>3
    <2> QED
      BY <1>1, <2>1, <2>2, <2>3
  <1>7. l = r
    BY <1>3, <1>4, <1>5, <1>6, SameSequence
  <1> QED
    BY <1>7 DEF l, r, a, b

LEMMA RangeOfConcatenation ==
    ASSUME NEW S, NEW s \in Seq(S), NEW t \in Seq(S)
    PROVE  Range(s \o t) = Range(s) \cup Range(t)
  <1> DEFINE c == s \o t
  <1>1. /\ c \in Seq(S) /\ Len(c) = Len(s) + Len(t) /\ Len(s) \in Nat /\ Len(t) \in Nat
        /\ \A i \in 1..Len(s) : c[i] = s[i]
        /\ \A i \in 1..Len(t) : c[Len(s) + i] = t[i]
    BY Concatenation
  <1> HIDE DEF c
  <1>r. /\ Range(s) = {s[i] : i \in 1..Len(s)} /\ Range(t) = {t[i] : i \in 1..Len(t)}
        /\ Range(c) = {c[i] : i \in 1..Len(c)}
    BY <1>1, RangeOfSequence
  <1>2. ASSUME NEW i \in 1..Len(c)
        PROVE  c[i] \in Range(s) \cup Range(t)
    <2>1. CASE i <= Len(s)
      <3>1. i \in 1..Len(s) /\ c[i] = s[i]
        BY <1>1, <2>1
      <3> QED
        BY <3>1, <1>r
    <2>2. CASE i > Len(s)
      <3>1. i - Len(s) \in 1..Len(t) /\ i = Len(s) + (i - Len(s))
        BY <1>1, <2>2
      <3>2. c[i] = t[i - Len(s)]
        BY <1>1, <3>1
      <3> QED
        BY <3>1, <3>2, <1>r
    <2> QED
      BY <1>1, <2>1, <2>2
  <1>3. \A i \in 1..Len(s) : i \in 1..Len(c) /\ c[i] = s[i]
    BY <1>1
  <1>4. \A i \in 1..Len(t) : Len(s) + i \in 1..Len(c) /\ c[Len(s) + i] = t[i]
    BY <1>1
  <1>5. Range(c) \subseteq Range(s) \cup Range(t)
    BY <1>r, <1>2
  <1>6. Range(s) \subseteq Range(c) /\ Range(t) \subseteq Range(c)
    BY <1>r, <1>3, <1>4
  <1> QED
    BY <1>5, <1>6 DEF c

-----------------------------------------------------------------------------
Increasing(s) == \A i, j \in 1..Len(s) : i < j => s[i] < s[j]

LEMMA IncreasingPrefix ==
    ASSUME NEW s \in Seq(Nat), NEW t \in Seq(Nat), Increasing(s \o t)
    PROVE  Increasing(s) /\ Range(s) \cap Range(t) = {}
  <1>1. /\ Len(s \o t) = Len(s) + Len(t) /\ Len(s) \in Nat /\ Len(t) \in Nat
        /\ \A i \in 1..Len(s) : (s \o t)[i] = s[i]
        /\ \A i \in 1..Len(t) : (s \o t)[Len(s) + i] = t[i]
    BY Concatenation
  <1>2. Increasing(s)
    <2> SUFFICES ASSUME NEW i \in 1..Len(s), NEW j \in 1..Len(s), i < j
                 PROVE  s[i] < s[j]
      BY DEF Increasing
    <2>1. i \in 1..Len(s \o t) /\ j \in 1..Len(s \o t)
      BY <1>1
    <2>2. (s \o t)[i] < (s \o t)[j]
      BY <2>1 DEF Increasing
    <2> QED
      BY <1>1, <2>2
  <1>3. ASSUME NEW i \in 1..Len(s), NEW j \in 1..Len(t)
        PROVE  s[i] # t[j]
    <2>1. i \in 1..Len(s \o t) /\ Len(s) + j \in 1..Len(s \o t) /\ i < Len(s) + j
      BY <1>1
    <2>2. (s \o t)[i] < (s \o t)[Len(s) + j]
      BY <2>1 DEF Increasing
    <2>3. s[i] \in Nat /\ t[j] \in Nat
      OBVIOUS
    <2> QED
      BY <1>1, <2>2, <2>3
  <1>4. Range(s) \cap Range(t) = {}
    BY <1>3, RangeOfSequence
  <1> QED
    BY <1>2, <1>4

(* A write with the next number joins what was seen, or is lost.           *)
LEMMA IncreasingAppend ==
    ASSUME NEW s \in Seq(Nat), NEW n \in Nat, Increasing(s), Range(s) \subseteq 1..n
    PROVE  Increasing(Append(s, n + 1)) /\ Range(Append(s, n + 1)) = Range(s) \cup {n + 1}
  <1> DEFINE a == Append(s, n + 1)
  <1>1. /\ a \in Seq(Nat) /\ Len(s) \in Nat /\ Len(a) = Len(s) + 1 /\ a[Len(s) + 1] = n + 1
        /\ \A i \in 1..Len(s) : a[i] = s[i]
    BY AppendLast
  <1> HIDE DEF a
  <1>2. \A i \in 1..Len(s) : s[i] \in 1..n
    BY DEF Range
  <1>3. Increasing(a)
    <2> SUFFICES ASSUME NEW i \in 1..Len(a), NEW j \in 1..Len(a), i < j
                 PROVE  a[i] < a[j]
      BY DEF Increasing
    <2>1. i \in 1..Len(s) /\ a[i] = s[i]
      BY <1>1
    <2>2. CASE j \in 1..Len(s)
      BY <1>1, <2>1, <2>2 DEF Increasing
    <2>3. CASE j = Len(s) + 1
      BY <1>1, <1>2, <2>1, <2>3
    <2>4. Len(s) \in Nat /\ j \in 1..(Len(s) + 1)
      BY <1>1
    <2>5. j \in 1..Len(s) \/ j = Len(s) + 1
      BY <2>4
    <2> QED
      BY <2>2, <2>3, <2>5
  <1>4. Range(a) = Range(s) \cup {n + 1}
    <2>1. \A i \in 1..Len(a) : i \in 1..Len(s) \/ i = Len(s) + 1
      BY <1>1
    <2>2. 1..Len(s) \subseteq 1..Len(a) /\ Len(s) + 1 \in 1..Len(a)
      BY <1>1
    <2>3. Range(s) = {s[i] : i \in 1..Len(s)} /\ Range(a) = {a[i] : i \in 1..Len(a)}
      BY <1>1, RangeOfSequence
    <2>4. Range(a) \subseteq Range(s) \cup {n + 1}
      BY <1>1, <2>1, <2>3
    <2>5. Range(s) \cup {n + 1} \subseteq Range(a)
      BY <1>1, <2>2, <2>3
    <2> QED
      BY <2>4, <2>5
  <1> QED
    BY <1>3, <1>4 DEF a

-----------------------------------------------------------------------------
(* What a step does to the writes: nothing, or one of these.               *)
LEMMA WriteEffects ==
    ASSUME [Next]_vars
    PROVE  \/ UNCHANGED <<applied, write_rx, lost_writes, issued>>
           \/ ApplyWrite /\ UNCHANGED issued
           \/ DropReceiver /\ UNCHANGED <<applied, issued>>
           \/ TrySendWrite(issued + 1) /\ issued' = issued + 1 /\ UNCHANGED applied
  <1>1. CASE PollerStep
    BY <1>1 DEF PollerStep, PollerNext, Tick, TickStatus, TickSubscriptions, TickStore,
       TickPublish, PollerAborts, SourcePanics, sharedVars, handlerVars
  <1>2. CASE HandlerStep
    <2>1. CASE ~(WritePath \/ \E r \in Requests : WriteSingle(r))
      BY <1>2, <2>1 DEF HandlerStep, ConnectionNext, Send, SendWelcome, SendMessage,
         ReceiveEvent, PushStatus, Dispatch, SubscribePath, SubscribeDone, UnsubscribePath,
         UnsubscribeDone, WriteDone, TakeRequest, RefuseRequest, AnswerRequest, BeginLoop,
         sharedVars, pollerVars
    <2>2. CASE WritePath \/ \E r \in Requests : WriteSingle(r)
      BY <1>2, <2>2 DEF HandlerStep, WritePath, WriteSingle, pollerVars
    <2> QED
      BY <2>1, <2>2
  <1>3. CASE RunNext
    BY <1>3 DEF RunNext, Bind, ListenerFails, Accept, AcceptShutdown, ConnectionEnds,
       ConnectionPanics, ConnectionShutdown, ClearSender, StopPoller, ShutdownFires, StartHandler, DropHandler,
       OthersUnchanged, sharedVars, pollerVars, handlerVars
  <1> QED
    BY <1>1, <1>2, <1>3 DEF Next, Terminated, vars, sharedVars, pollerVars, handlerVars

LEMMA WriteSequence ==
    ASSUME NEW n \in Nat, NEW s \in Seq(1..n)
    PROVE  s \in Seq(Nat)
  <1>1. \A i \in 1..Len(s) : s[i] \in Nat
    OBVIOUS
  <1>2. Len(s) \in Nat /\ s = [i \in 1..Len(s) |-> s[i]]
    OBVIOUS
  <1> QED
    BY <1>1, <1>2

LEMMA WritesStep ==
    ASSUME TypeOK, TypeOK', WritesAccountedFor, [Next]_vars
    PROVE  WritesAccountedFor'
  <1> DEFINE W == 1..MaxWrites
             seen == applied \o write_rx
             Accounted == /\ Increasing(seen)
                          /\ Range(seen) \cap lost_writes = {}
                          /\ Range(seen) \cup lost_writes = 1..issued
  <1>a. Accounted /\ (Accounted' => WritesAccountedFor')
    BY DEF WritesAccountedFor, Increasing
  <1> SUFFICES Accounted'
    BY <1>a
  <1>t. /\ applied \in Seq(Nat) /\ write_rx \in Seq(Nat) /\ seen \in Seq(Nat)
        /\ applied' \in Seq(Nat) /\ write_rx' \in Seq(Nat)
        /\ issued \in Nat
    <2>1. /\ applied \in Seq(1..MaxWrites) /\ write_rx \in Seq(1..MaxWrites)
          /\ applied' \in Seq(1..MaxWrites) /\ write_rx' \in Seq(1..MaxWrites)
          /\ issued \in 0..MaxWrites /\ MaxWrites \in Nat
      BY ServerAssumption DEF TypeOK, SharedTypeOK, PollerTypeOK, ConnectionTypeOK
    <2>2. /\ applied \in Seq(Nat) /\ write_rx \in Seq(Nat)
          /\ applied' \in Seq(Nat) /\ write_rx' \in Seq(Nat)
      BY <2>1, WriteSequence
    <2>3. seen \in Seq(Nat)
      BY <2>2, Concatenation
    <2> QED
      BY <2>1, <2>2, <2>3
  <1>r. Range(seen) = Range(applied) \cup Range(write_rx)
    BY <1>t, RangeOfConcatenation
  <1>1. CASE UNCHANGED <<applied, write_rx, lost_writes, issued>>
    BY <1>a, <1>1
  <1>2. CASE ApplyWrite /\ UNCHANGED issued
    <2>1. /\ write_rx # <<>> /\ applied' = Append(applied, Head(write_rx))
          /\ write_rx' = Tail(write_rx) /\ UNCHANGED <<lost_writes, issued>>
      BY <1>2 DEF ApplyWrite
    <2>2. seen' = seen
      BY <1>t, <2>1, MoveHead
    <2> HIDE DEF seen
    <2> QED
      BY <1>a, <2>1, <2>2
  <1>3. CASE DropReceiver /\ UNCHANGED <<applied, issued>>
    <2>1. /\ write_rx' = <<>> /\ lost_writes' = lost_writes \cup Range(write_rx)
          /\ UNCHANGED <<applied, issued>>
      BY <1>3 DEF DropReceiver
    <2>2. seen' = applied
      BY <1>t, <2>1
    <2>3. Increasing(applied) /\ Range(applied) \cap Range(write_rx) = {}
      BY <1>a, <1>t, IncreasingPrefix
    <2>4. Range(applied) \cap lost_writes' = {} /\ Range(applied) \cup lost_writes' = 1..issued
      BY <1>a, <1>r, <2>1, <2>3
    <2> HIDE DEF seen
    <2> QED
      BY <2>1, <2>2, <2>3, <2>4
  <1>4. ASSUME TrySendWrite(issued + 1), issued' = issued + 1, UNCHANGED applied
        PROVE  Accounted'
    <2>0. Range(seen) \subseteq 1..issued /\ lost_writes \subseteq 1..issued
          /\ 1..(issued + 1) = (1..issued) \cup {issued + 1} /\ issued + 1 \notin 1..issued
      BY <1>a, <1>t
    <2>1. CASE write_rx' = Append(write_rx, issued + 1) /\ UNCHANGED lost_writes
      <3>1. seen' = Append(seen, issued + 1)
        <4>1. applied \o Append(write_rx, issued + 1) = Append(applied \o write_rx, issued + 1)
          BY <1>t
        <4> QED
          BY <1>4, <2>1, <4>1
      <3> HIDE DEF seen
      <3>2. /\ Increasing(Append(seen, issued + 1))
            /\ Range(Append(seen, issued + 1)) = Range(seen) \cup {issued + 1}
        BY <1>a, <1>t, <2>0, IncreasingAppend
      <3>3. /\ (Range(seen) \cup {issued + 1}) \cap lost_writes = {}
            /\ (Range(seen) \cup {issued + 1}) \cup lost_writes = 1..(issued + 1)
        BY <1>a, <2>0
      <3> QED
        BY <1>4, <2>1, <3>1, <3>2, <3>3
    <2>2. CASE UNCHANGED write_rx /\ lost_writes' = lost_writes \cup {issued + 1}
      <3>1. seen' = seen
        BY <1>4, <2>2
      <3> HIDE DEF seen
      <3>2. /\ Range(seen) \cap (lost_writes \cup {issued + 1}) = {}
            /\ Range(seen) \cup (lost_writes \cup {issued + 1}) = 1..(issued + 1)
        BY <1>a, <2>0
      <3> QED
        BY <1>a, <1>4, <2>2, <3>1, <3>2
    <2> QED
      BY <1>4, <2>1, <2>2 DEF TrySendWrite
  <1> HIDE DEF Accounted
  <1> QED
    BY <1>1, <1>2, <1>3, <1>4, WriteEffects

LEMMA WritesInit ==
    ASSUME Init
    PROVE  WritesAccountedFor
  <1>1. /\ applied \o write_rx = <<>> /\ Range(applied \o write_rx) = {}
        /\ Len(applied \o write_rx) = 0 /\ lost_writes = {} /\ 1..issued = {}
    BY DEF Init, SharedInit, PollerInit, ConnectionInit, Range
  <1>2. \A i, j \in 1..Len(applied \o write_rx) : FALSE
    BY <1>1
  <1> QED
    BY <1>1, <1>2, Zenon DEF WritesAccountedFor

(* Every write is applied in its order and at most once, or it is still    *)
(* queued, or it is among the lost ones.                                   *)
THEOREM WritesAreAccountedFor == Spec => []WritesAccountedFor
  <1>1. Init => WritesAccountedFor
    BY WritesInit
  <1>2. TypeOK /\ TypeOK' /\ WritesAccountedFor /\ [Next]_vars => WritesAccountedFor'
    BY WritesStep
  <1> QED
    BY <1>1, <1>2, TypeCorrect, PTL DEF Spec

-----------------------------------------------------------------------------
(* Completions.                                                            *)

Completions == {i \in 1..Len(outbox) : outbox[i].cmd = "write_success"}

(* The next write to be reported.                                          *)
Due == since + Len(told) + 1

(* The completions in the outbox are those of the writes from Due up to    *)
(* the last one that may be reported, in increasing order: the one that is *)
(* sent first is then the next in the order of the writes.  Without a      *)
(* client nothing is reported.                                             *)
CompletionOrder ==
    /\ ~connected => told = <<>>
    /\ connected =>
          /\ Due <= Reportable + 1
          /\ told = [i \in 1..Len(told) |-> since + i]
          /\ \A i \in Completions : outbox[i].write \in Due..Reportable
          /\ \A w \in Due..Reportable : \E i \in Completions : outbox[i].write = w
          /\ \A i, j \in Completions : i < j => outbox[i].write < outbox[j].write

LEMMA CompletionKinds ==
    /\ Response.cmd # "write_success" /\ ErrorResponse.cmd # "write_success"
    /\ \A s : ServerStatus(s).cmd # "write_success"
    /\ \A b, c : WatchableUpdate(b, c).cmd # "write_success"
    /\ \A w : WriteSuccess(w).cmd = "write_success" /\ WriteSuccess(w).write = w
  BY DEF Response, ErrorResponse, ServerStatus, WriteSuccess, WatchableUpdate

(* The answer to a batch: the response, then the completions.              *)
Answer(n, first) == <<Response>> \o [i \in 1..n |-> WriteSuccess(first + i)]

LEMMA BatchAnswer ==
    ASSUME NEW n \in Nat, NEW first \in Nat
    PROVE  /\ Len(Answer(n, first)) = n + 1
           /\ \A i \in 1..(n + 1) :
                 /\ Answer(n, first)[i].cmd = "write_success" <=> i > 1
                 /\ i > 1 => Answer(n, first)[i].write = first + i - 1
  <1> DEFINE box == Answer(n, first)
             done == [i \in 1..n |-> WriteSuccess(first + i)]
             D == {WriteSuccess(w) : w \in Nat} \cup {Response}
  <1>1. \A i \in 1..n : WriteSuccess(first + i) \in D
    OBVIOUS
  <1>2. /\ Len(done) = n /\ \A i \in 1..n : done[i] = WriteSuccess(first + i)
        /\ Response \in D
    OBVIOUS
  <1> HIDE DEF D
  <1>3. done \in Seq(D)
    BY <1>1
  <1> HIDE DEF done
  <1>4. /\ Len(box) = n + 1
        /\ \A i \in 1..Len(box) : box[i] = IF i = 1 THEN Response ELSE done[i - 1]
    BY <1>2, <1>3 DEF done, Answer
  <1> HIDE DEF box
  <1>5. ASSUME NEW i \in 1..Len(box)
        PROVE  /\ box[i].cmd = "write_success" <=> i > 1
               /\ i > 1 => box[i].write = first + i - 1
    <2>1. CASE i = 1
      BY <1>4, <2>1, CompletionKinds
    <2>2. CASE i > 1
      <3>1. i - 1 \in 1..n /\ first + (i - 1) = first + i - 1
        BY <1>4, <2>2
      <3>2. box[i] = WriteSuccess(first + i - 1)
        BY <1>2, <1>4, <2>2, <3>1
      <3> QED
        BY <2>2, <3>2, CompletionKinds
    <2> QED
      BY <1>4, <2>1, <2>2
  <1> QED
    BY <1>4, <1>5 DEF box

(* A sequence that counts up goes on counting with the next number.        *)
LEMMA CountsOn ==
    ASSUME NEW S, NEW s \in Seq(S), NEW n \in Nat, NEW w \in S,
           s = [i \in 1..Len(s) |-> n + i], w = n + Len(s) + 1
    PROVE  LET t == Append(s, w) IN t = [i \in 1..Len(t) |-> n + i]
  <1> DEFINE t == Append(s, w)
  <1>1. /\ t \in Seq(S) /\ Len(s) \in Nat /\ Len(t) = Len(s) + 1 /\ t[Len(s) + 1] = w
        /\ \A i \in 1..Len(s) : t[i] = s[i]
    BY AppendLast
  <1> HIDE DEF t
  <1>2. \A i \in 1..Len(t) : t[i] = n + i
    <2> SUFFICES ASSUME NEW i \in 1..Len(t)
                 PROVE  t[i] = n + i
      OBVIOUS
    <2>1. CASE i \in 1..Len(s)
      <3>1. s[i] = n + i
        BY <2>1
      <3> QED
        BY <1>1, <2>1, <3>1
    <2>2. CASE i = Len(s) + 1
      BY <1>1, <2>2
    <2>3. i \in 1..Len(s) \/ i = Len(s) + 1
      BY <1>1
    <2> QED
      BY <2>1, <2>2, <2>3
  <1>3. DOMAIN t = 1..Len(t) /\ t = [i \in DOMAIN t |-> t[i]]
    BY <1>1
  <1>4. t = [i \in 1..Len(t) |-> n + i]
    BY <1>2, <1>3
  <1> QED
    BY <1>4 DEF t

(* A message that was taken leaves the others in the outbox; a completion  *)
(* among them was the one of the write that is due.                        *)
LEMMA CompletionSent ==
    ASSUME TypeOK, LifeCycle, CompletionOrder, SendMessage
    PROVE  CompletionOrder'
  <1>1. /\ outbox' = Tail(outbox) /\ outbox # <<>> /\ outbox \in Seq(Message)
        /\ told' = IF Head(outbox).cmd = "write_success"
                   THEN Append(told, Head(outbox).write) ELSE told
        /\ UNCHANGED <<since, issued, conn_pc, at, connected>> /\ conn_pc = "select"
        /\ issued \in Nat /\ since \in Nat /\ connected
        /\ told \in Seq(1..MaxWrites)
    BY ServerAssumption DEF SendMessage, sharedVars, TypeOK, ConnectionTypeOK, LifeCycle
  <1>2. /\ Len(outbox') = Len(outbox) - 1 /\ Len(outbox) \in Nat \ {0}
        /\ Head(outbox) = outbox[1] /\ Head(outbox) \in Message
        /\ \A i \in 1..Len(outbox') : outbox'[i] = outbox[i + 1]
    BY <1>1, HeadTail
  <1>3. \A i \in Completions' : /\ i \in Nat \ {0} /\ i + 1 \in Completions
                                /\ outbox'[i] = outbox[i + 1]
    BY <1>2 DEF Completions
  <1>4. \A i \in Completions : i \in Nat \ {0} /\ (i # 1 => i - 1 \in Completions' /\ outbox'[i - 1] = outbox[i])
    BY <1>2 DEF Completions
  <1>5. /\ Reportable = issued /\ Reportable' = issued' /\ issued' = issued
        /\ Due \in Nat /\ Len(told) \in Nat
    BY <1>1 DEF Reportable, Due
  <1>o. /\ Due <= issued + 1
        /\ told = [i \in 1..Len(told) |-> since + i]
        /\ \A i \in Completions : outbox[i].write \in Due..issued
        /\ \A w \in Due..issued : \E i \in Completions : outbox[i].write = w
        /\ \A i, j \in Completions : i < j => outbox[i].write < outbox[j].write
    BY <1>1, <1>5 DEF CompletionOrder
  <1>6. \A i, j \in Completions' : i < j => outbox'[i].write < outbox'[j].write
    BY <1>3, <1>o
  <1>7. CASE Head(outbox).cmd # "write_success"
    <2>1. told' = told /\ Due' = Due /\ 1 \notin Completions
      BY <1>1, <1>2, <1>7 DEF Due, Completions
    <2>2. \A i \in Completions' : outbox'[i].write \in Due'..issued'
      BY <1>3, <1>5, <1>o, <2>1
    <2>3. ASSUME NEW w \in Due'..issued'
          PROVE  \E i \in Completions' : outbox'[i].write = w
      <3>1. PICK i \in Completions : outbox[i].write = w
        BY <1>5, <1>o, <2>1, <2>3
      <3>2. i - 1 \in Completions' /\ outbox'[i - 1] = outbox[i]
        BY <1>4, <2>1, <3>1
      <3> QED
        BY <3>1, <3>2
    <2> QED
      BY <1>1, <1>5, <1>o, <1>6, <2>1, <2>2, <2>3 DEF CompletionOrder
  <1>8. CASE Head(outbox).cmd = "write_success"
    <2>1. 1 \in Completions /\ told' = Append(told, outbox[1].write)
      BY <1>1, <1>2, <1>8 DEF Completions
    <2>2. outbox[1].write = Due
      <3>0. outbox[1].write \in Due..issued /\ issued \in Nat /\ Due \in Nat
        BY <1>1, <1>5, <1>o, <2>1
      <3>1. Due \in Due..issued
        BY <3>0
      <3>2. PICK i \in Completions : outbox[i].write = Due
        BY <1>o, <3>1
      <3>3. i # 1 => 1 < i
        BY <1>4, <3>2
      <3>4. i # 1 => outbox[1].write < outbox[i].write
        BY <1>o, <2>1, <3>2, <3>3
      <3> QED
        BY <3>0, <3>2, <3>4
    <2>3. /\ Len(told') = Len(told) + 1 /\ Due' = Due + 1
          /\ told' = [i \in 1..Len(told') |-> since + i]
      <3>1. told \in Seq(Nat) /\ Due \in Nat
        <4>1. MaxWrites \in Nat /\ told \in Seq(1..MaxWrites)
          BY <1>1, ServerAssumption
        <4> QED
          BY <1>5, <4>1, WriteSequence
      <3>2. told' = Append(told, Due) /\ Due = since + Len(told) + 1
        BY <2>1, <2>2 DEF Due
      <3>3. told' = [i \in 1..Len(told') |-> since + i]
        BY <1>1, <1>o, <3>1, <3>2, CountsOn
      <3>4. Len(told') = Len(told) + 1
        BY <3>1, <3>2
      <3> QED
        BY <1>1, <1>5, <3>3, <3>4 DEF Due
    <2>4. ASSUME NEW i \in Completions'
          PROVE  outbox'[i].write \in Due'..issued'
      <3>1. /\ i + 1 \in Completions /\ 1 < i + 1 /\ outbox'[i] = outbox[i + 1]
        BY <1>3, <2>4
      <3>2. outbox[1].write < outbox[i + 1].write /\ outbox[i + 1].write \in Due..issued
        BY <1>o, <2>1, <3>1
      <3> QED
        BY <1>5, <2>2, <2>3, <3>1, <3>2
    <2>5. ASSUME NEW w \in Due'..issued'
          PROVE  \E i \in Completions' : outbox'[i].write = w
      <3>1. w \in Due..issued /\ w # Due
        BY <1>5, <2>3, <2>5
      <3>2. PICK i \in Completions : outbox[i].write = w
        BY <1>o, <3>1
      <3>3. i # 1
        BY <2>2, <3>1, <3>2
      <3>4. i - 1 \in Completions' /\ outbox'[i - 1] = outbox[i]
        BY <1>4, <3>2, <3>3
      <3> QED
        BY <3>2, <3>4
    <2>6. Due' <= issued' + 1
      <3>1. Due \in Due..issued /\ issued \in Nat /\ Due \in Nat
        BY <1>1, <1>5, <1>o, <2>1, <2>2
      <3>2. Due <= issued
        BY <3>1
      <3> QED
        BY <1>5, <2>3, <3>1, <3>2
    <2> QED
      BY <1>1, <1>5, <1>6, <2>3, <2>4, <2>5, <2>6 DEF CompletionOrder
  <1> QED
    BY <1>7, <1>8

(* A step that neither issues nor reports a write and leaves no completion *)
(* in the outbox, when there was none.                                     *)
LEMMA NoCompletion ==
    ASSUME CompletionOrder, UNCHANGED <<connected, told, since>>, Reportable' = Reportable,
           Completions = {}, Completions' = {}
    PROVE  CompletionOrder'
  <1>1. Due' = Due
    BY DEF Due
  <1> QED
    BY <1>1 DEF CompletionOrder

LEMMA CompletionStep ==
    ASSUME TypeOK, LifeCycle, LoopState, CompletionOrder, [Next]_vars
    PROVE  CompletionOrder'
  <1>t. /\ issued \in Nat /\ since \in Nat /\ at \in Nat \ {0} /\ Len(paths) \in Nat
        /\ at <= Len(paths) + 1 /\ outbox \in Seq(Message) /\ connected \in BOOLEAN
        /\ told \in Seq(1..MaxWrites) /\ Len(told) \in Nat
    BY ServerAssumption DEF TypeOK, ConnectionTypeOK, SharedTypeOK
  <1>e. outbox = <<>> => Completions = {}
    BY DEF Completions
  <1>1. CASE UNCHANGED <<connected, handlerVars>>
    BY <1>1 DEF CompletionOrder, Reportable, Due, Completions, handlerVars
  <1>2. CASE RunNext
    <2>1. CASE UNCHANGED <<connected, handlerVars>>
      BY <1>1, <2>1
    <2>2. CASE Accept
      <3>1. ~connected
        BY <2>2 DEF Accept, LifeCycle
      <3>2. /\ connected' /\ since' = issued /\ UNCHANGED <<issued, told, outbox>>
            /\ conn_pc' = "welcome" /\ told = <<>> /\ outbox = <<>>
        BY <2>2, <3>1 DEF Accept, StartHandler, LifeCycle, CompletionOrder
      <3>3. Len(told') = 0 /\ Due' = issued + 1 /\ Reportable' = issued /\ Completions' = {}
        BY <1>t, <3>2 DEF Due, Reportable, Completions
      <3>4. told' = [i \in 1..Len(told') |-> since' + i]
        BY <3>2, <3>3
      <3> QED
        BY <1>t, <3>2, <3>3, <3>4 DEF CompletionOrder
    <2>3. CASE ConnectionEnds \/ ConnectionPanics \/ ConnectionShutdown
      BY <2>3 DEF ConnectionEnds, ConnectionPanics, ConnectionShutdown, DropHandler, CompletionOrder
    <2> QED
      BY <1>2, <2>1, <2>2, <2>3 DEF RunNext, Bind, ListenerFails, AcceptShutdown, ClearSender,
         StopPoller, ShutdownFires, sharedVars
  <1>3. CASE SendMessage
    BY <1>3, CompletionSent
  <1>4. CASE SendWelcome \/ ReceiveEvent \/ PushStatus
    <2>1. /\ UNCHANGED <<connected, told, since, issued>> /\ conn_pc # "write" /\ conn_pc' # "write"
          /\ outbox = <<>>
      BY <1>4 DEF SendWelcome, ReceiveEvent, PushStatus, Waiting, LifeCycle, sharedVars
    <2>2. Completions' = {}
      BY <1>4, CompletionKinds DEF SendWelcome, ReceiveEvent, PushStatus, Completions
    <2>3. Reportable' = Reportable
      BY <2>1 DEF Reportable
    <2> QED
      BY <1>e, <2>1, <2>2, <2>3, NoCompletion
  <1>5. CASE SubscribePath \/ SubscribeDone \/ UnsubscribePath \/ UnsubscribeDone
    <2>1. /\ UNCHANGED <<connected, told, since, issued>> /\ conn_pc # "write" /\ conn_pc' # "write"
          /\ outbox = <<>>
      BY <1>5 DEF SubscribePath, SubscribeDone, UnsubscribePath, UnsubscribeDone, InLoop,
         LoopEnded, EndDispatch, LifeCycle, sharedVars
    <2>2. Completions' = {}
      BY <1>5, <2>1, CompletionKinds DEF SubscribePath, SubscribeDone, UnsubscribePath,
         UnsubscribeDone, Fail, Completions
    <2>3. Reportable' = Reportable
      BY <2>1 DEF Reportable
    <2> QED
      BY <1>e, <2>1, <2>2, <2>3, NoCompletion
  <1>6. CASE WritePath
    <2>1. /\ conn_pc = "write" /\ conn_pc' = "write" /\ outbox = <<>> /\ outbox' = outbox
          /\ issued' = issued + 1 /\ at' = at + 1 /\ UNCHANGED <<connected, told, since>>
      BY <1>6 DEF WritePath, InLoop, LifeCycle
    <2>2. Reportable' = Reportable
      BY <1>t, <2>1 DEF Reportable
    <2>3. Completions' = {}
      BY <2>1 DEF Completions
    <2> QED
      BY <1>e, <2>1, <2>2, <2>3, NoCompletion
  <1>7. CASE WriteDone
    <2> DEFINE first == issued - Len(paths)
    <2>1. /\ conn_pc = "write" /\ conn_pc' = "select" /\ UNCHANGED <<issued, told, since, connected>>
          /\ at = Len(paths) + 1 /\ outbox = <<>> /\ connected
          /\ outbox' = <<Response>> \o [i \in 1..Len(paths) |-> WriteSuccess(first + i)]
      BY <1>7 DEF WriteDone, LoopEnded, EndDispatch, LifeCycle, sharedVars
    <2>2. /\ Reportable = first /\ Reportable' = issued' /\ issued' = first + Len(paths)
          /\ first \in Nat
      BY <1>t, <2>1 DEF Reportable, LoopState
    <2>3. Due = first + 1 /\ Due' = first + 1
      <3>0. Due \in Nat /\ Due' = Due
        BY <1>t, <2>1 DEF Due
      <3>1. Due <= first + 1
        BY <2>1, <2>2 DEF CompletionOrder
      <3>2. ~(Due \in Due..first)
        BY <1>e, <2>1, <2>2 DEF CompletionOrder
      <3> HIDE DEF first
      <3> QED
        BY <2>2, <3>0, <3>1, <3>2
    <2>4. /\ Len(outbox') = Len(paths) + 1
          /\ \A i \in 1..Len(outbox') :
                /\ outbox'[i].cmd = "write_success" <=> i > 1
                /\ i > 1 => outbox'[i].write = first + i - 1
      <3>1. outbox' = Answer(Len(paths), first)
        BY <2>1 DEF Answer
      <3> HIDE DEF first
      <3>2. Len(paths) \in Nat /\ first \in Nat
        BY <1>t, <2>2
      <3> DEFINE box == Answer(Len(paths), first)
      <3>3. /\ Len(box) = Len(paths) + 1
            /\ \A i \in 1..(Len(paths) + 1) :
                  /\ box[i].cmd = "write_success" <=> i > 1
                  /\ i > 1 => box[i].write = first + i - 1
        BY <3>2, BatchAnswer
      <3> HIDE DEF box
      <3>4. outbox' = box
        BY <3>1 DEF box
      <3> QED
        BY <3>3, <3>4
    <2> HIDE DEF first
    <2>5. /\ \A i \in Completions' : /\ i \in 2..(Len(paths) + 1)
                                     /\ outbox'[i].write = first + i - 1
          /\ \A i \in 2..(Len(paths) + 1) : i \in Completions'
      BY <1>t, <2>4 DEF Completions
    <2>6. \A i \in Completions' : outbox'[i].write \in Due'..Reportable'
      BY <1>t, <2>2, <2>3, <2>5
    <2>7. \A i, j \in Completions' : i < j => outbox'[i].write < outbox'[j].write
      BY <2>2, <2>5
    <2>8. ASSUME NEW w \in Due'..Reportable'
          PROVE  \E i \in Completions' : outbox'[i].write = w
      <3>1. w - first + 1 \in 2..(Len(paths) + 1) /\ first + (w - first + 1) - 1 = w
        BY <1>t, <2>2, <2>3, <2>8
      <3>2. w - first + 1 \in Completions' /\ outbox'[w - first + 1].write = w
        BY <2>5, <3>1
      <3> QED
        BY <3>2
    <2>9. Due' <= Reportable' + 1
      BY <1>t, <2>2, <2>3
    <2> QED
      BY <2>1, <2>6, <2>7, <2>8, <2>9 DEF CompletionOrder
  <1>8. ASSUME NEW r \in Requests, TakeRequest(r)
        PROVE  CompletionOrder'
    <2>a. conn_pc = "select" /\ outbox = <<>> /\ UNCHANGED <<told, since, connected>>
      BY <1>8 DEF TakeRequest, RefuseRequest, AnswerRequest, BeginLoop, WriteSingle, Receives,
         Waiting, sharedVars
    <2>b. connected /\ Reportable = issued
      BY <1>t, <2>a DEF LifeCycle, Reportable
    <2>0. /\ conn_pc = "select" /\ outbox = <<>> /\ UNCHANGED <<told, since, connected>>
          /\ connected /\ Reportable = issued
      BY <2>a, <2>b
    <2>1. CASE RefuseRequest(r) \/ AnswerRequest(r) \/ BeginLoop(r)
      <3>1. UNCHANGED issued /\ (conn_pc' = "write" => at' = 1)
        BY <2>0, <2>1 DEF RefuseRequest, AnswerRequest, BeginLoop
      <3>2. Completions' = {}
        <4>1. CASE RefuseRequest(r)
          BY <4>1, CompletionKinds DEF RefuseRequest, Fail, Completions
        <4>2. CASE AnswerRequest(r)
          BY <4>2, CompletionKinds DEF AnswerRequest, MaxChunks, Completions
        <4>3. CASE BeginLoop(r)
          BY <2>0, <4>3 DEF BeginLoop, Completions
        <4> QED
          BY <2>1, <4>1, <4>2, <4>3
      <3>3. Reportable' = Reportable
        BY <1>t, <2>0, <3>1 DEF Reportable
      <3> QED
        BY <1>e, <2>0, <3>2, <3>3, NoCompletion
    <2>2. CASE WriteSingle(r)
      <3>1. /\ outbox' = <<WriteSuccess(issued + 1)>> /\ issued' = issued + 1
            /\ conn_pc' = "select"
        BY <2>0, <2>2 DEF WriteSingle
      <3>2. Completions' = {1} /\ outbox'[1].write = issued + 1
        BY <3>1, CompletionKinds DEF Completions
      <3>3. Due = issued + 1 /\ Due' = issued + 1 /\ Reportable' = issued + 1
        <4>1. Due <= issued + 1 /\ ~(Due \in Due..issued) /\ Due \in Nat
          BY <1>e, <1>t, <2>0 DEF CompletionOrder, Due
        <4> QED
          BY <1>t, <2>0, <3>1, <4>1 DEF Due, Reportable
      <3>4. /\ \A i \in Completions' : outbox'[i].write \in Due'..Reportable'
            /\ \A w \in Due'..Reportable' : \E i \in Completions' : outbox'[i].write = w
        BY <1>t, <3>2, <3>3
      <3>5. Due' <= Reportable' + 1 /\ \A i, j \in Completions' : ~(i < j)
        BY <1>t, <3>2, <3>3
      <3> QED
        BY <2>0, <3>4, <3>5 DEF CompletionOrder
    <2> QED
      BY <1>8, <2>1, <2>2 DEF TakeRequest
  <1>9. CASE PollerStep
    BY <1>1, <1>9 DEF PollerStep, PollerNext, Tick, TickStatus, TickSubscriptions, TickStore,
       TickPublish, ApplyWrite, PollerAborts, SourcePanics, DropReceiver, sharedVars
  <1> QED
    BY <1>1, <1>2, <1>3, <1>4, <1>5, <1>6, <1>7, <1>8, <1>9
       DEF Next, HandlerStep, ConnectionNext, Send, Dispatch, Terminated, vars, sharedVars

(* A client is told of each of its own writes, in the order they were      *)
(* issued and once; none is left out, but for those whose completions wait *)
(* in the outbox in that same order.                                       *)
THEOREM CompletionsFollow == Spec => []CompletionsFollowWrites
  <1>1. Init => CompletionOrder
    BY DEF Init, ConnectionInit, SharedInit, CompletionOrder
  <1>2. Invariant /\ CompletionOrder /\ [Next]_vars => CompletionOrder'
    BY CompletionStep DEF Invariant, FeedInvariant
  <1>3. CompletionOrder => CompletionsFollowWrites
    <2> SUFFICES ASSUME CompletionOrder, connected
                 PROVE  /\ told = [i \in 1..Len(told) |-> since + i]
                        /\ \A i, j \in Completions : i < j => outbox[i].write < outbox[j].write
                        /\ {outbox[i].write : i \in Completions} = Due..Reportable
      BY DEF CompletionsFollowWrites, Completions, Due
    <2> QED
      BY DEF CompletionOrder
  <1> QED
    BY <1>1, <1>2, <1>3, Invariance, PTL DEF Spec

=============================================================================
