------------------------------- MODULE Server -------------------------------
(***************************************************************************)
(* The whole server (run, src/server.rs): it starts the poller task, then  *)
(* accepts one client at a time and drives that client's handler inside a  *)
(* select! against the shutdown future.  The handler lives inside run's    *)
(* own task; only the poller runs in parallel with it.                     *)
(***************************************************************************)
EXTENDS Poller, Connection

VARIABLES
    run_pc,         \* where run is
    shutdown,       \* the shutdown future given to run has completed
    shutting_down

runVars == <<run_pc, shutdown, shutting_down>>
vars == <<sharedVars, pollerVars, handlerVars, runVars>>

RunTypeOK ==
    /\ run_pc \in {"bind", "accept", "serving", "closed", "stopping",
                   "returned", "failed", "panicked"}
    /\ shutdown \in BOOLEAN
    /\ shutting_down \in BOOLEAN

(* Every variable keeps to its domain, and the channels to their capacity. *)
TypeOK == SharedTypeOK /\ PollerTypeOK /\ ConnectionTypeOK /\ RunTypeOK

Init ==
    /\ SharedInit
    /\ PollerInit
    /\ ConnectionInit
    /\ run_pc = "bind"
    /\ shutdown = FALSE
    /\ shutting_down = FALSE

(* What no step of run touches, except through the handler's life cycle.   *)
OthersUnchanged ==
    /\ UNCHANGED <<value_store, write_rx, conn_status, polling, lost_writes>>
    /\ UNCHANGED pollerVars

-----------------------------------------------------------------------------
(* The poller is already running when run binds its listener.              *)
Bind ==
    /\ run_pc = "bind"
    /\ run_pc' = "accept"
    /\ UNCHANGED <<shutdown, shutting_down>>
    /\ UNCHANGED <<sharedVars, pollerVars, handlerVars>>

(* bind or accept fails: run returns the error; nobody aborts the poller.  *)
ListenerFails ==
    /\ run_pc \in {"bind", "accept"}
    /\ run_pc' = "failed"
    /\ UNCHANGED <<shutdown, shutting_down>>
    /\ UNCHANGED <<sharedVars, pollerVars, handlerVars>>

(* A client connects.  select! may take it though shutdown is ready too.   *)
Accept ==
    /\ run_pc = "accept"
    /\ run_pc' = "serving"
    /\ value_sender' = "Some"
    /\ StartHandler
    /\ UNCHANGED <<shutdown, shutting_down, aborted>>
    /\ OthersUnchanged

AcceptShutdown ==
    /\ run_pc = "accept"
    /\ shutdown
    /\ ~shutting_down
    /\ run_pc' = "stopping"
    /\ UNCHANGED <<shutdown, shutting_down>>
    /\ UNCHANGED <<sharedVars, pollerVars, handlerVars>>

(* The handler returns: end of stream, framing error, or a failed send.    *)
ConnectionEnds ==
    /\ run_pc = "serving"
    /\ AtAwait
    /\ run_pc' = "closed"
    /\ DropHandler
    /\ UNCHANGED <<shutdown, shutting_down, value_sender, aborted, lost>>
    /\ OthersUnchanged

(* The handler panics.  It lives in run's task, so that run is unwound with *)
(* it: the slot is not cleared and the poller not aborted.                 *)
ConnectionPanics ==
    /\ run_pc = "serving"
    /\ AtAwait
    /\ \E r \in Requests : Receives(r) /\ Panics(r)
    /\ run_pc' = "panicked"
    /\ DropHandler
    /\ UNCHANGED <<shutdown, shutting_down, value_sender, aborted, lost>>
    /\ OthersUnchanged

(* Mutant: the branch breaks out of the loop before the slot is cleared.   *)
ShutdownLeavesSender ==
    /\ run_pc = "serving"
    /\ AtAwait
    /\ shutdown
    /\ ~shutting_down
    /\ shutting_down' = TRUE
    /\ run_pc' = "stopping"
    /\ DropHandler
    /\ UNCHANGED <<shutdown, value_sender, aborted, lost>>
    /\ OthersUnchanged

(* The other branch: the handler's future is dropped where it awaits.      *)
ConnectionShutdown ==
    /\ run_pc = "serving"
    /\ AtAwait
    /\ shutdown
    /\ ~shutting_down
    /\ shutting_down' = TRUE
    /\ run_pc' = "closed"
    /\ DropHandler
    /\ UNCHANGED <<shutdown, value_sender, aborted, lost>>
    /\ OthersUnchanged

(* Mutants: the slot keeps the sender of the client that is gone; the loop *)
(* does not look at shutting_down.                                         *)
KeepSender ==
    /\ run_pc = "closed"
    /\ run_pc' = IF shutting_down THEN "stopping" ELSE "accept"
    /\ UNCHANGED <<shutdown, shutting_down, sharedVars, pollerVars, handlerVars>>

AcceptAgain ==
    /\ run_pc = "closed"
    /\ value_sender' = "None"
    /\ run_pc' = "accept"
    /\ UNCHANGED <<shutdown, shutting_down>>
    /\ UNCHANGED <<subscribed, value_store, value_rx, write_rx, conn_status,
                   connected, polling, aborted, lost, lost_writes>>
    /\ UNCHANGED <<pollerVars, handlerVars>>

(* The slot is emptied; the loop ends if the shutdown was seen.            *)
ClearSender ==
    /\ run_pc = "closed"
    /\ value_sender' = "None"
    /\ run_pc' = IF shutting_down THEN "stopping" ELSE "accept"
    /\ UNCHANGED <<shutdown, shutting_down>>
    /\ UNCHANGED <<subscribed, value_store, value_rx, write_rx, conn_status,
                   connected, polling, aborted, lost, lost_writes>>
    /\ UNCHANGED <<pollerVars, handlerVars>>

(* Mutant: run returns without aborting the poller.                        *)
ReturnOnly ==
    /\ run_pc = "stopping"
    /\ run_pc' = "returned"
    /\ UNCHANGED <<shutdown, shutting_down, sharedVars, pollerVars, handlerVars>>

(* poller.abort(), and run returns.                                        *)
StopPoller ==
    /\ run_pc = "stopping"
    /\ run_pc' = "returned"
    /\ aborted' = TRUE
    /\ UNCHANGED <<shutdown, shutting_down>>
    /\ UNCHANGED <<subscribed, value_store, value_sender, value_rx, write_rx,
                   conn_status, connected, polling, lost, lost_writes>>
    /\ UNCHANGED <<pollerVars, handlerVars>>

(* The environment completes the shutdown future.                          *)
ShutdownFires ==
    /\ ~shutdown
    /\ shutdown' = TRUE
    /\ UNCHANGED <<run_pc, shutting_down>>
    /\ UNCHANGED <<sharedVars, pollerVars, handlerVars>>

RunNext == Bind \/ ListenerFails \/ Accept \/ AcceptShutdown \/ ConnectionEnds
             \/ ConnectionPanics \/ ConnectionShutdown \/ ClearSender \/ StopPoller \/ ShutdownFires

(* run and the poller have ended: nothing happens any more.                *)
Terminated ==
    /\ run_pc \in {"returned", "failed", "panicked"}
    /\ ~polling
    /\ UNCHANGED vars

PollerStep == PollerNext /\ UNCHANGED <<handlerVars, runVars>>
HandlerStep == ConnectionNext /\ UNCHANGED <<pollerVars, runVars>>

Next == RunNext \/ PollerStep \/ HandlerStep \/ Terminated

Spec == Init /\ [][Next]_vars

-----------------------------------------------------------------------------
(* Fairness.  The tasks run when they are ready (WF); where select! picks  *)
(* at random among the branches that are ready at an await, a branch that  *)
(* is ready again and again is picked (SF).  Nothing is assumed of clients *)
(* (their requests, their reading, their leaving) nor of the listener.     *)

TickStep == Tick /\ UNCHANGED <<handlerVars, runVars>>
ApplyStep == ApplyWrite /\ UNCHANGED <<handlerVars, runVars>>
AbortStep == PollerAborts /\ UNCHANGED <<handlerVars, runVars>>
DispatchStep == Dispatch /\ UNCHANGED <<pollerVars, runVars>>
EventStep == ReceiveEvent /\ UNCHANGED <<pollerVars, runVars>>
StatusStep == PushStatus /\ UNCHANGED <<pollerVars, runVars>>
SendStep == Send /\ UNCHANGED <<pollerVars, runVars>>

Fairness ==
    /\ WF_vars(TickStep) /\ SF_vars(ApplyStep) /\ SF_vars(AbortStep)
    /\ WF_vars(DispatchStep) /\ SF_vars(EventStep) /\ SF_vars(StatusStep)
    /\ WF_vars(Bind \/ ListenerFails) /\ WF_vars(ClearSender) /\ WF_vars(StopPoller)
    /\ SF_vars(AcceptShutdown) /\ SF_vars(ConnectionShutdown)

FairSpec == Spec /\ Fairness

(* The client that is connected takes what it is sent.                     *)
ReadingSpec == FairSpec /\ WF_vars(SendStep)

-----------------------------------------------------------------------------
(* Safety.                                                                 *)

(* The set that the poller snapshots (ServerShared::subscribed) is the one *)
(* that the handler's guard keeps: on every way the handler can end, and   *)
(* between any two steps of dispatch, no path is left behind or taken out. *)
SharedSetMirrorsGuard == subscribed = subs /\ (~connected => subscribed = {})

(* The slot holds a sender during the whole life of a handler, so that its *)
(* value channel never closes under it (value_rx.recv() is never None); it *)
(* is empty whenever run waits for a client or has stopped (a panic of the *)
(* handler leaves it as it was).                                           *)
SenderLifetime ==
    /\ connected => value_sender = "Some"
    /\ run_pc \notin {"serving", "closed", "panicked"} => value_sender = "None" /\ ~connected

(* The initial snapshot, the queued events and the filter of the handler   *)
(* leave no gap: once nothing is in flight, the client holds the latest    *)
(* stored sample of each path whose subscription was confirmed, unless the *)
(* last event for that path met a full channel.                            *)
Converged ==
    connected /\ outbox = <<>> /\ value_rx = <<>> /\ poll_pc # "publish"
        => \A p \in confirmed \ lost : view[p] = value_store[p]

(* DataSource::write sees the writes in the order the client issued them,  *)
(* each at most once, and a write is applied, queued or lost, never two of *)
(* these and never none, whatever the crossings of dispatch, the poller    *)
(* that drains the channel meanwhile, a full channel and an abort.         *)
WritesAccountedFor ==
    LET seen == applied \o write_rx
    IN  /\ \A i, j \in 1..Len(seen) : i < j => seen[i] < seen[j]
        /\ Range(seen) \cap lost_writes = {}
        /\ Range(seen) \cup lost_writes = 1..issued

(* The writes that a client may be told of: of a batch in progress, only   *)
(* those that came before it.                                              *)
Reportable == issued - (IF conn_pc = "write" THEN at - 1 ELSE 0)

(* What the client was told is done, followed by the completions that wait *)
(* in the outbox, are its own writes: each of them once, in the order they *)
(* were issued, none missing and none of an earlier client's, whatever     *)
(* became of the command in the write channel and wherever a batch stands. *)
CompletionsFollowWrites ==
    LET due == {i \in 1..Len(outbox) : outbox[i].cmd = "write_success"}
        next == since + Len(told) + 1
    IN  connected =>
            /\ told = [i \in 1..Len(told) |-> since + i]
            /\ \A i, j \in due : i < j => outbox[i].write < outbox[j].write
            /\ {outbox[i].write : i \in due} = next..Reportable

(* When run has returned or is about to, nothing of the last client is     *)
(* left in the shared state.                                               *)
CleanStop ==
    run_pc \in {"stopping", "returned"} =>
        /\ shutdown /\ ~connected
        /\ subscribed = {} /\ value_rx = <<>> /\ value_sender = "None"

(* Once run saw the shutdown while serving, it takes no other client; and  *)
(* the poller is aborted only then or from the accept loop, never under a  *)
(* handler.                                                                *)
NoClientAfterShutdown ==
    [][/\ shutting_down => run_pc' # "serving" /\ run_pc' # "accept"
       /\ aborted' # aborted => ~connected /\ ~connected']_vars

-----------------------------------------------------------------------------
(* What the comments and the README say, and the code does not do.         *)


(* server.rs:63: the status is the latest one that the datasource reported;*)
(* a client that connects before the first tick is shown another one.      *)
ShownStatusWasReported == shown # "none" => shown \in Reports

(* README.md:108: run blocks until the shutdown signal fires; a request    *)
(* for a list in chunks of zero entries ends it with a panic.              *)
ServesUntilShutdown ==
    [][run_pc = "serving" /\ run_pc' \notin {"serving", "closed"} => shutdown]_vars

-----------------------------------------------------------------------------
(* Refinement.  The tasks, the channel, the initial snapshot, the stored   *)
(* values and the guard together implement the abstract feed.              *)

Feed == INSTANCE ValueFeed WITH
    latest <- value_store, online <- connected, wanted <- subs, base <- floor

(* Every behaviour of the server, seen through the mapping of Feed, is one *)
(* of the abstract feed: no client is ever sent a path it is not subscribed*)
(* to, a sample older than its connection, or one not yet stored.          *)
RefinesValueFeed == Feed!FeedSpec

-----------------------------------------------------------------------------
(* Liveness.                                                               *)

(* A shutdown is honoured however the client behaves: a client that never  *)
(* reads, that floods the server with requests or that reconnects in a     *)
(* loop cannot keep run from returning, and the poller then dies, if the   *)
(* datasource has not killed it with a panic before.                       *)
ShutdownStops ==
    shutdown ~> (run_pc \in {"failed", "panicked"} \/ (run_pc = "returned" /\ ~polling))

(* The datasource ends up acquiring exactly what the client wants: a path  *)
(* that stays subscribed gets acquired, one that stays unsubscribed (its   *)
(* client left, for instance) gets released, unless the poller ends.       *)
AcquisitionFollows ==
    \A p \in Paths :
        /\ (p \in subscribed) ~> (p \in acquiring \/ p \notin subscribed \/ aborted \/ ~polling)
        /\ (p \notin subscribed) ~> (p \notin acquiring \/ p \in subscribed \/ aborted \/ ~polling)

(* A queued write reaches the datasource, or dies with the poller.         *)
QueuedWritesApplied ==
    \A w \in 1..MaxWrites :
        (w \in Range(write_rx)) ~> (w \in Range(applied) \/ w \in lost_writes)

(* A client that reads gets, for each path it stays subscribed to, a       *)
(* sample at least as recent as any stored one, unless an event was lost.  *)
SamplesReachReader ==
    \A p \in Paths, n \in 1..MaxSamples :
        (connected /\ p \in confirmed /\ value_store[p] = n)
            ~> (view[p] >= n \/ p \in lost \/ p \notin confirmed \/ ~connected)

(* A status that the datasource keeps reporting is the one that a client   *)
(* that stays connected and reads ends up with.                            *)
StatusReachesReader ==
    \A s \in ConnectionStatus :
        <>[](connected /\ conn_status = s) => <>[](shown = s)

=============================================================================
