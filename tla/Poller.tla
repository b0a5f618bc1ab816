------------------------------- MODULE Poller -------------------------------
(***************************************************************************)
(* The poller task (spawn_poller, src/server.rs): it owns the datasource,  *)
(* polls it at every tick of its interval, stores and publishes what it    *)
(* returned, and between ticks applies the writes that clients queued.     *)
(*                                                                         *)
(* A tick is cut where another task can observe or change what it touches: *)
(* at each Mutex it locks.  The datasource is the trait's implementor,     *)
(* outside this crate: poll may return updates for any set of registered   *)
(* paths, and connection_status any status in Reports.                     *)
(***************************************************************************)
EXTENDS ServerShared

VARIABLES
    poll_pc,          \* where the poller task is
    prev_subscribed,  \* the set handed to the previous poll
    result,           \* the updates of the poll in progress
    acquiring,        \* history: paths the datasource was told to acquire
    applied           \* history: the writes DataSource::write was called with

pollerVars == <<poll_pc, prev_subscribed, result, acquiring, applied>>

PollerTypeOK ==
    /\ poll_pc \in {"select", "subscriptions", "store", "publish",
                   "aborted", "panicked"}
    /\ prev_subscribed \in SUBSET Paths
    /\ result \in Batch
    /\ acquiring \in SUBSET Paths
    /\ applied \in Seq(1..MaxWrites)

PollerInit ==
    /\ poll_pc = "select"
    /\ prev_subscribed = {}
    /\ result = NoSamples
    /\ acquiring = {}
    /\ applied = <<>>

-----------------------------------------------------------------------------
(* poll_interval.tick() fires; the datasource's status is published.       *)
TickStatus ==
    /\ poll_pc = "select"
    /\ conn_status' \in Reports
    /\ poll_pc' = "subscriptions"
    /\ UNCHANGED <<subscribed, value_store, value_sender, value_rx, write_rx,
                   connected, polling, aborted, lost, lost_writes>>
    /\ UNCHANGED <<prev_subscribed, result, acquiring, applied>>

(* Mutant: the datasource is never told of the paths that are gone.        *)
NotifiedOfNewOnly(current) == acquiring \cup (current \ prev_subscribed)

(* The effect of on_subscribed(new_subs), then on_unsubscribed(gone_subs), *)
(* on what the datasource acquires.                                        *)
Notified(current) ==
    LET new_subs  == current \ prev_subscribed
        gone_subs == prev_subscribed \ current
    IN  (acquiring \cup new_subs) \ gone_subs

(* The subscriptions are snapshotted under their lock; then, without it,   *)
(* the datasource is told what changed and is polled.  Its updates are the *)
(* next samples of the paths it chose; with none the tick is over.         *)
TickSubscriptions ==
    /\ poll_pc = "subscriptions"
    /\ acquiring' = Notified(subscribed)
    /\ prev_subscribed' = subscribed
    /\ \E U \in SUBSET {p \in Paths : value_store[p] < MaxSamples} :
          /\ result' = [p \in Paths |-> IF p \in U THEN value_store[p] + 1 ELSE 0]
          /\ poll_pc' = IF U = {} THEN "select" ELSE "store"
    /\ UNCHANGED sharedVars
    /\ UNCHANGED applied

(* All updates of the batch are stored under one lock.                     *)
TickStore ==
    /\ poll_pc = "store"
    /\ value_store' = Merge(value_store, result)
    /\ poll_pc' = "publish"
    /\ UNCHANGED <<subscribed, value_sender, value_rx, write_rx, conn_status,
                   connected, polling, aborted, lost, lost_writes>>
    /\ UNCHANGED <<prev_subscribed, result, acquiring, applied>>

(* Mutant: the value channel is unbounded.                                 *)
TrySendUnbounded(b) ==
    IF ~connected
    THEN UNCHANGED <<value_rx, lost>>
    ELSE value_rx' = Append(value_rx, b) /\ lost' = lost \ Carried(b)

(* Mutant: tx.send(..).await, which waits for a place in a full channel.   *)
SendEvent(b) ==
    IF ~connected
    THEN UNCHANGED <<value_rx, lost>>
    ELSE /\ Len(value_rx) < ValueCap
         /\ value_rx' = Append(value_rx, b)
         /\ lost' = lost \ Carried(b)

(* tx.try_send on the value channel; its result is ignored.  A full        *)
(* channel refuses the newest event, a dropped receiver refuses any.       *)
TrySendEvent(b) ==
    IF ~connected
    THEN UNCHANGED <<value_rx, lost>>
    ELSE IF Len(value_rx) < ValueCap
    THEN /\ value_rx' = Append(value_rx, b)
         /\ lost' = lost \ Carried(b)
    ELSE /\ lost' = lost \cup Carried(b)
         /\ UNCHANGED value_rx

(* The batch goes to the connection, if the slot holds its sender.         *)
TickPublish ==
    /\ poll_pc = "publish"
    /\ IF value_sender = "Some"
       THEN TrySendEvent(result)
       ELSE UNCHANGED <<value_rx, lost>>
    /\ poll_pc' = "select"
    /\ result' = NoSamples
    /\ UNCHANGED <<subscribed, value_store, value_sender, write_rx, conn_status,
                   connected, polling, aborted, lost_writes>>
    /\ UNCHANGED <<prev_subscribed, acquiring, applied>>

(* Mutant: the command is looked at and left in the channel.               *)
PeekWrite ==
    /\ poll_pc = "select"
    /\ write_rx # <<>>
    /\ applied' = Append(applied, Head(write_rx))
    /\ UNCHANGED sharedVars
    /\ UNCHANGED <<poll_pc, prev_subscribed, result, acquiring>>

(* write_rx.recv() yields a command, which is handed to the datasource.    *)
(* The outcome of the write is logged and goes nowhere else.               *)
ApplyWrite ==
    /\ poll_pc = "select"
    /\ write_rx # <<>>
    /\ applied' = Append(applied, Head(write_rx))
    /\ write_rx' = Tail(write_rx)
    /\ UNCHANGED <<subscribed, value_store, value_sender, value_rx, conn_status,
                   connected, polling, aborted, lost, lost_writes>>
    /\ UNCHANGED <<poll_pc, prev_subscribed, result, acquiring>>

(* The task ends, and the receiver of the write channel dies with it.      *)
DropReceiver ==
    /\ polling' = FALSE
    /\ write_rx' = <<>>
    /\ lost_writes' = lost_writes \cup Range(write_rx)

(* An abort takes effect where the task awaits.  It need not take effect   *)
(* at the first such point: select! does not suspend the task while one of *)
(* its branches is ready.                                                  *)
PollerAborts ==
    /\ aborted
    /\ poll_pc = "select"
    /\ poll_pc' = "aborted"
    /\ DropReceiver
    /\ UNCHANGED <<subscribed, value_store, value_sender, value_rx, conn_status,
                   connected, aborted, lost>>
    /\ UNCHANGED <<prev_subscribed, result, acquiring, applied>>

(* A method of the datasource panics: connection_status or write in        *)
(* "select", on_subscribed, on_unsubscribed or poll in "subscriptions".    *)
(* No lock is held, so that none is poisoned; run does not notice.         *)
SourcePanics ==
    /\ poll_pc \in {"select", "subscriptions"}
    /\ poll_pc' = "panicked"
    /\ DropReceiver
    /\ UNCHANGED <<subscribed, value_store, value_sender, value_rx, conn_status,
                   connected, aborted, lost>>
    /\ UNCHANGED <<prev_subscribed, result, acquiring, applied>>

Tick == TickStatus \/ TickSubscriptions \/ TickStore \/ TickPublish

PollerNext == Tick \/ ApplyWrite \/ PollerAborts \/ SourcePanics

=============================================================================
