----------------------------- MODULE Connection -----------------------------
(***************************************************************************)
(* The connection handler (handle_connection, dispatch and SubGuard,       *)
(* src/server.rs): it greets the client, then repeatedly waits in select!  *)
(* for a request, for an event of the value channel or for its status      *)
(* timer, and sends what the chosen branch produced, message by message.   *)
(*                                                                         *)
(* "outbox" holds the messages the current branch has still to send: while *)
(* it is not empty the handler is suspended in send(..).await, until the   *)
(* client takes the message.  dispatch never awaits; it is cut only where  *)
(* the poller can observe or change what it touches.                       *)
(***************************************************************************)
EXTENDS ServerShared

VARIABLES
    conn_pc,      \* where the handler is; "none" when there is no connection
    paths,        \* the names of the request in dispatch
    at,           \* the index of the loop over them
    subs,         \* SubGuard::subs
    outbox,       \* the messages the current branch has still to send
    invalid_request_count,
    view,         \* history: the last sample of each path the client received
    shown,        \* history: the last status the client received
    floor,        \* history: value_store when the client connected
    confirmed,    \* history: paths whose subscription was answered with success
    told,         \* history: the writes that were reported done to the client, in order
    since,        \* history: how many writes were issued when the client connected
    issued        \* history: how many writes were issued

handlerVars == <<conn_pc, paths, at, subs, outbox, invalid_request_count,
                 view, shown, floor, confirmed, told, since, issued>>

ConnectionTypeOK ==
    /\ conn_pc \in {"none", "welcome", "select", "subscribe", "unsubscribe", "write"}
    /\ paths \in Seq(Names)
    /\ at \in 1..(Len(paths) + 1)
    /\ subs \in SUBSET Paths
    /\ outbox \in Seq(Message)
    /\ invalid_request_count \in 0..MaxInvalid
    /\ view \in Batch
    /\ shown \in ConnectionStatus \cup {"none"}
    /\ floor \in Batch
    /\ confirmed \in SUBSET Paths
    /\ told \in Seq(1..MaxWrites)
    /\ since \in 0..MaxWrites
    /\ issued \in 0..MaxWrites

ConnectionInit ==
    /\ conn_pc = "none"
    /\ paths = <<>>
    /\ at = 1
    /\ subs = {}
    /\ outbox = <<>>
    /\ invalid_request_count = 0
    /\ view = NoSamples
    /\ shown = "none"
    /\ floor = NoSamples
    /\ confirmed = {}
    /\ told = <<>>
    /\ since = 0
    /\ issued = 0

-----------------------------------------------------------------------------
(* Life and death of the handler's future; both are steps of run.          *)

(* The future is created with a fresh guard and a fresh channel.           *)
StartHandler ==
    /\ connected' = TRUE
    /\ conn_pc' = "welcome"
    /\ value_rx' = <<>>
    /\ lost' = {}
    /\ floor' = value_store
    /\ since' = issued
    /\ UNCHANGED <<subs, subscribed, outbox, paths, at, invalid_request_count,
                   view, shown, confirmed, told, issued>>

(* The points where the handler awaits: only there can its future return,  *)
(* or be dropped by run.                                                   *)
AtAwait == connected /\ conn_pc \in {"welcome", "select"}

(* Mutant: the guard has no Drop.                                          *)
ForgetGuard == subs' = {} /\ UNCHANGED subscribed

(* impl Drop for SubGuard.                                                 *)
DropGuard ==
    /\ subscribed' = subscribed \ subs
    /\ subs' = {}

(* The future is gone, and with it the guard, the receiver of the value    *)
(* channel and all that it had queued, and the stream.                     *)
DropHandler ==
    /\ DropGuard
    /\ connected' = FALSE
    /\ value_rx' = <<>>
    /\ conn_pc' = "none"
    /\ outbox' = <<>>
    /\ invalid_request_count' = 0
    /\ view' = NoSamples
    /\ shown' = "none"
    /\ floor' = NoSamples
    /\ confirmed' = {}
    /\ told' = <<>>
    /\ since' = 0
    /\ UNCHANGED <<paths, at, issued>>

-----------------------------------------------------------------------------
(* Sending.  Each action is the completion of one send(..).await, which    *)
(* needs the client to read.                                               *)

(* The welcome is out; the status is read only now.                        *)
SendWelcome ==
    /\ conn_pc = "welcome"
    /\ conn_pc' = "select"
    /\ outbox' = <<ServerStatus(conn_status)>>
    /\ UNCHANGED sharedVars
    /\ UNCHANGED <<paths, at, subs, invalid_request_count, view, shown, floor,
                   confirmed, told, since, issued>>

SendMessage ==
    /\ conn_pc = "select"
    /\ outbox # <<>>
    /\ LET m == Head(outbox)
       IN  /\ view' = IF m.cmd = "watchable_update" THEN Merge(view, m.vals) ELSE view
           /\ shown' = IF m.cmd = "inform_server_status" THEN m.status ELSE shown
           /\ told' = IF m.cmd = "write_success" THEN Append(told, m.write) ELSE told
    /\ outbox' = Tail(outbox)
    /\ UNCHANGED sharedVars
    /\ UNCHANGED <<conn_pc, paths, at, subs, invalid_request_count, floor,
                   confirmed, since, issued>>

-----------------------------------------------------------------------------
(* The branches of select! other than a request.                           *)

Waiting == conn_pc = "select" /\ outbox = <<>>

(* Mutant: events are passed on without the filter.                        *)
ReceiveUnfiltered ==
    /\ Waiting
    /\ value_rx # <<>>
    /\ outbox' = <<WatchableUpdate(Head(value_rx), "datasource")>>
    /\ value_rx' = Tail(value_rx)
    /\ UNCHANGED <<subscribed, value_store, value_sender, write_rx, conn_status,
                   connected, polling, aborted, lost, lost_writes>>
    /\ UNCHANGED <<conn_pc, paths, at, subs, invalid_request_count, view, shown,
                   floor, confirmed, told, since, issued>>

(* An event of the poller: what the client is not subscribed to is dropped,*)
(* and nothing is sent when nothing is left.                               *)
ReceiveEvent ==
    /\ Waiting
    /\ value_rx # <<>>
    /\ LET updates == Only(Head(value_rx), subs)
       IN  outbox' = IF Carried(updates) = {} THEN <<>>
                     ELSE <<WatchableUpdate(updates, "datasource")>>
    /\ value_rx' = Tail(value_rx)
    /\ UNCHANGED <<subscribed, value_store, value_sender, write_rx, conn_status,
                   connected, polling, aborted, lost, lost_writes>>
    /\ UNCHANGED <<conn_pc, paths, at, subs, invalid_request_count, view, shown,
                   floor, confirmed, told, since, issued>>

(* Mutant: the status is the one the server started with.                  *)
PushInitialStatus ==
    /\ Waiting
    /\ outbox' = <<ServerStatus("Connected")>>
    /\ UNCHANGED sharedVars
    /\ UNCHANGED <<conn_pc, paths, at, subs, invalid_request_count, view, shown,
                   floor, confirmed, told, since, issued>>

(* status_interval.tick().                                                 *)
PushStatus ==
    /\ Waiting
    /\ outbox' = <<ServerStatus(conn_status)>>
    /\ UNCHANGED sharedVars
    /\ UNCHANGED <<conn_pc, paths, at, subs, invalid_request_count, view, shown,
                   floor, confirmed, told, since, issued>>

-----------------------------------------------------------------------------
(* Requests.                                                               *)

(* The handler takes a request; MaxInvalid bounds the refused ones.        *)
Receives(r) == Waiting /\ r \in Requests /\ invalid_request_count < MaxInvalid

AllRegistered(r) == Range(r.names) \subseteq Paths

Malformed(r) == r.cmd \in NeedsFields /\ ~r.wellformed

(* dispatch returns Err before it changes anything: the command is unknown,*)
(* a field is missing, or one of the names it checks first is unknown.     *)
Refused(r) ==
    \/ r.cmd = "unknown"
    \/ Malformed(r)
    \/ /\ r.cmd \in {"get_watchable_info", "write_watchable", "write_single_watchable"}
       /\ ~AllRegistered(r)

(* The list is cut with slice::chunks, which panics on chunks of size zero.*)
ZeroChunks(r) == r.cmd = "get_watchable_list" /\ ~r.wellformed

(* What panics inside the handler's future: that, and the codec when the   *)
(* frame announces a size that overflows (FrameStream).                    *)
Panics(r) == ZeroChunks(r) \/ r.cmd = "oversized"

(* Err(..): counted, and answered with an error.                           *)
Fail ==
    /\ invalid_request_count' = invalid_request_count + 1
    /\ outbox' = <<ErrorResponse>>

RefuseRequest(r) ==
    /\ Receives(r)
    /\ Refused(r)
    /\ Fail
    /\ UNCHANGED sharedVars
    /\ UNCHANGED <<conn_pc, paths, at, subs, view, shown, floor, confirmed, told,
                   since, issued>>

(* The answers of the commands that have no effect on the server.  A list  *)
(* comes in one or more chunks (MaxChunks bounds them here).  A datalogging*)
(* request is answered by an error that is not counted.                    *)
MaxChunks == 2

AnswerRequest(r) ==
    /\ Receives(r)
    /\ ~Refused(r)
    /\ \/ /\ r.cmd \in QueryCmd \cup {"get_watchable_info"}
          /\ outbox' = <<Response>>
       \/ /\ r.cmd \in DataloggingCmd
          /\ outbox' = <<ErrorResponse>>
       \/ /\ r.cmd = "get_server_status"
          /\ outbox' = <<ServerStatus(conn_status)>>
       \/ /\ r.cmd = "set_link_config"
          /\ outbox' = <<Response, ServerStatus(conn_status)>>
       \/ /\ r.cmd = "get_watchable_list"
          /\ ~ZeroChunks(r)
          /\ \E n \in 1..MaxChunks : outbox' = [i \in 1..n |-> Response]
    /\ UNCHANGED sharedVars
    /\ UNCHANGED <<conn_pc, paths, at, subs, invalid_request_count, view, shown,
                   floor, confirmed, told, since, issued>>

(* The arms that loop over the names of the request.  The bound on writes  *)
(* leaves room for the whole batch.                                        *)
LoopOf == [subscribe_watchable |-> "subscribe", unsubscribe_watchable |-> "unsubscribe",
           write_watchable |-> "write"]

BeginLoop(r) ==
    /\ Receives(r)
    /\ ~Refused(r)
    /\ r.cmd \in DOMAIN LoopOf
    /\ r.cmd = "write_watchable" => issued + Len(r.names) <= MaxWrites
    /\ conn_pc' = LoopOf[r.cmd]
    /\ paths' = r.names
    /\ at' = 1
    /\ UNCHANGED sharedVars
    /\ UNCHANGED <<subs, outbox, invalid_request_count, view, shown, floor,
                   confirmed, told, since, issued>>

InLoop(pc) == conn_pc = pc /\ at <= Len(paths)
LoopEnded(pc) == conn_pc = pc /\ at = Len(paths) + 1

EndDispatch ==
    /\ conn_pc' = "select"
    /\ paths' = <<>>
    /\ at' = 1

-----------------------------------------------------------------------------
(* SUBSCRIBE_WATCHABLE.                                                    *)

(* SubGuard::subscribe.                                                    *)
GuardSubscribe(p) ==
    /\ subs' = subs \cup {p}
    /\ subscribed' = IF p \in subs THEN subscribed ELSE subscribed \cup {p}

(* One iteration.  An unknown name ends the request with an error; the     *)
(* names before it stay subscribed.                                        *)
SubscribePath ==
    /\ InLoop("subscribe")
    /\ IF paths[at] \in Paths
       THEN /\ GuardSubscribe(paths[at])
            /\ at' = at + 1
            /\ UNCHANGED <<conn_pc, paths, outbox, invalid_request_count>>
       ELSE /\ Fail
            /\ EndDispatch
            /\ UNCHANGED <<subs, subscribed>>
    /\ UNCHANGED <<value_store, value_sender, value_rx, write_rx, conn_status,
                   connected, polling, aborted, lost, lost_writes>>
    /\ UNCHANGED <<view, shown, floor, confirmed, told, since, issued>>

(* Mutants: the values sent are none, those of the first path only, or     *)
(* those of every path.                                                    *)
SubscribeDoneWith(S) ==
    /\ LoopEnded("subscribe")
    /\ outbox' = IF Carried(Only(value_store, S)) = {} THEN <<Response>>
                 ELSE <<Response, WatchableUpdate(Only(value_store, S), "server")>>
    /\ confirmed' = confirmed \cup Range(paths)
    /\ EndDispatch
    /\ UNCHANGED sharedVars
    /\ UNCHANGED <<subs, invalid_request_count, view, shown, floor, told, since, issued>>

SubscribeNoValues == SubscribeDoneWith({})
SubscribeFirstValue == SubscribeDoneWith({paths[i] : i \in (1..Len(paths)) \cap {1}})
SubscribeAllValues == SubscribeDoneWith(Paths)

(* The response, followed by the stored values of the subscribed paths,    *)
(* which are read under the lock and stamped with the server's clock.      *)
SubscribeDone ==
    /\ LoopEnded("subscribe")
    /\ LET updates == Only(value_store, Range(paths))
       IN  outbox' = IF Carried(updates) = {} THEN <<Response>>
                     ELSE <<Response, WatchableUpdate(updates, "server")>>
    /\ confirmed' = confirmed \cup Range(paths)
    /\ EndDispatch
    /\ UNCHANGED sharedVars
    /\ UNCHANGED <<subs, invalid_request_count, view, shown, floor, told, since, issued>>

-----------------------------------------------------------------------------
(* UNSUBSCRIBE_WATCHABLE.                                                  *)

(* SubGuard::unsubscribe.                                                  *)
GuardUnsubscribe(p) ==
    /\ subs' = subs \ {p}
    /\ subscribed' = IF p \in subs THEN subscribed \ {p} ELSE subscribed

(* One iteration; an unknown name is skipped.                              *)
UnsubscribePath ==
    /\ InLoop("unsubscribe")
    /\ IF paths[at] \in Paths
       THEN GuardUnsubscribe(paths[at])
       ELSE UNCHANGED <<subs, subscribed>>
    /\ confirmed' = confirmed \ {paths[at]}
    /\ at' = at + 1
    /\ UNCHANGED <<value_store, value_sender, value_rx, write_rx, conn_status,
                   connected, polling, aborted, lost, lost_writes>>
    /\ UNCHANGED <<conn_pc, paths, outbox, invalid_request_count, view, shown,
                   floor, told, since, issued>>

UnsubscribeDone ==
    /\ LoopEnded("unsubscribe")
    /\ outbox' = <<Response>>
    /\ EndDispatch
    /\ UNCHANGED sharedVars
    /\ UNCHANGED <<subs, invalid_request_count, view, shown, floor, confirmed,
                   told, since, issued>>

-----------------------------------------------------------------------------
(* WRITE_WATCHABLE and WRITE_SINGLE_WATCHABLE.                             *)

(* Mutant: a full channel drops its oldest command, not the newest.        *)
TrySendWriteDropOldest(w) ==
    /\ write_rx' = Append(IF Len(write_rx) < WriteCap THEN write_rx ELSE Tail(write_rx), w)
    /\ UNCHANGED lost_writes

(* write_tx.try_send; its result is ignored.  A full channel refuses the   *)
(* command, and so does one whose receiver is gone.                        *)
TrySendWrite(w) ==
    IF polling /\ Len(write_rx) < WriteCap
    THEN /\ write_rx' = Append(write_rx, w)
         /\ UNCHANGED lost_writes
    ELSE /\ lost_writes' = lost_writes \cup {w}
         /\ UNCHANGED write_rx

(* One iteration of the batch.                                             *)
WritePath ==
    /\ InLoop("write")
    /\ TrySendWrite(issued + 1)
    /\ issued' = issued + 1
    /\ at' = at + 1
    /\ UNCHANGED <<subscribed, value_store, value_sender, value_rx, conn_status,
                   connected, polling, aborted, lost>>
    /\ UNCHANGED <<conn_pc, paths, subs, outbox, invalid_request_count, view,
                   shown, floor, confirmed, told, since>>

(* Mutant: the completions of the batch come in the order of a stack.      *)
WriteDoneReversed ==
    /\ LoopEnded("write")
    /\ outbox' = <<Response>> \o [i \in 1..Len(paths) |-> WriteSuccess(issued + 1 - i)]
    /\ EndDispatch
    /\ UNCHANGED sharedVars
    /\ UNCHANGED <<subs, invalid_request_count, view, shown, floor, confirmed,
                   told, since, issued>>

(* The response, then one completion with success = true for each write.   *)
WriteDone ==
    /\ LoopEnded("write")
    /\ LET first == issued - Len(paths)
       IN  outbox' = <<Response>> \o
                     [i \in 1..Len(paths) |-> WriteSuccess(first + i)]
    /\ EndDispatch
    /\ UNCHANGED sharedVars
    /\ UNCHANGED <<subs, invalid_request_count, view, shown, floor, confirmed,
                   told, since, issued>>

WriteSingle(r) ==
    /\ Receives(r)
    /\ ~Refused(r)
    /\ r.cmd = "write_single_watchable"
    /\ issued < MaxWrites
    /\ TrySendWrite(issued + 1)
    /\ issued' = issued + 1
    /\ outbox' = <<WriteSuccess(issued + 1)>>
    /\ UNCHANGED <<subscribed, value_store, value_sender, value_rx, conn_status,
                   connected, polling, aborted, lost>>
    /\ UNCHANGED <<conn_pc, paths, at, subs, invalid_request_count, view, shown,
                   floor, confirmed, told, since>>

-----------------------------------------------------------------------------
Send == SendWelcome \/ SendMessage

(* The steps of dispatch after it took a request: they wait for nothing.   *)
Dispatch == SubscribePath \/ SubscribeDone \/ UnsubscribePath \/ UnsubscribeDone
              \/ WritePath \/ WriteDone

TakeRequest(r) == RefuseRequest(r) \/ AnswerRequest(r) \/ BeginLoop(r) \/ WriteSingle(r)

ConnectionNext ==
    \/ Send
    \/ ReceiveEvent
    \/ PushStatus
    \/ Dispatch
    \/ \E r \in Requests : TakeRequest(r)

=============================================================================
