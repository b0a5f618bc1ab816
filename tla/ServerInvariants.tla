-------------------------- MODULE ServerInvariants --------------------------
(***************************************************************************)
(* The inductive invariants behind the properties of Server: what relates  *)
(* the program counters of run, handler and poller to the shared state.    *)
(* TLC checks them on the instances of MCServer; ServerProofs proves them. *)
(***************************************************************************)
EXTENDS Server

(* Where run, the handler and the slot of the sender are goes together, so *)
(* that nothing of a client outlives its handler.                          *)
LifeCycle ==
    /\ connected <=> run_pc = "serving"
    /\ connected <=> conn_pc # "none"
    /\ value_sender = "Some" <=> run_pc \in {"serving", "closed", "panicked"}
    /\ ~connected =>
        /\ value_rx = <<>> /\ subs = {} /\ confirmed = {}
        /\ view = NoSamples /\ floor = NoSamples
    /\ subscribed = subs
    /\ conn_pc # "select" => outbox = <<>>
    /\ shutting_down => shutdown /\ run_pc \in {"closed", "stopping", "returned"}
    /\ run_pc \in {"stopping", "returned"} => shutdown
    /\ aborted => run_pc = "returned"
    /\ polling <=> poll_pc \notin {"aborted", "panicked"}

(* The loops of dispatch: a batch of writes fits in the bound, a subscribe *)
(* request that can still be refused can be counted, and the paths it has  *)
(* gone through are subscribed.                                            *)
LoopState ==
    /\ conn_pc = "write" =>
        /\ issued + Len(paths) + 1 - at <= MaxWrites
        /\ at - 1 <= issued
    /\ conn_pc = "subscribe" =>
        /\ invalid_request_count < MaxInvalid
        /\ \A i \in 1..(at - 1) : paths[i] \in subs
    /\ confirmed \subseteq subs

(* The poller's batch: the next samples until they are stored, the latest  *)
(* stored ones until they are published, nothing otherwise.                *)
BatchState ==
    \A p \in Paths :
        /\ poll_pc = "store" => result[p] \in {0, value_store[p] + 1}
        /\ poll_pc = "publish" => result[p] \in {0, value_store[p]}
        /\ poll_pc \notin {"store", "publish"} => result[p] = 0

IsUpdate(i) == outbox[i].cmd = "watchable_update"
Updates == {i \in 1..Len(outbox) : IsUpdate(i)}

(* Every sample on its way to the client, and every one it holds, is of    *)
(* the time of its connection and stored; one that is being sent is of a   *)
(* path that it is subscribed to.  A branch sends at most one update.      *)
SamplesInRange ==
    /\ \A p \in Paths :
        /\ floor[p] <= value_store[p]
        /\ view[p] # 0 => floor[p] <= view[p] /\ view[p] <= value_store[p]
        /\ \A i \in 1..Len(value_rx) : value_rx[i][p] # 0 =>
              floor[p] <= value_rx[i][p] /\ value_rx[i][p] <= value_store[p]
        /\ \A i \in Updates : outbox[i].vals[p] # 0 =>
              /\ p \in subs
              /\ floor[p] <= outbox[i].vals[p] /\ outbox[i].vals[p] <= value_store[p]
    /\ \A i, j \in Updates : i = j

(* The latest sample of a path is on its way to the handler ...            *)
InFlight(p) == poll_pc = "publish" /\ result[p] # 0
Queued(p) == \E i \in 1..Len(value_rx) : value_rx[i][p] # 0
Outgoing(p) == \E i \in Updates : outbox[i].vals[p] # 0

(* ... in the batch to publish, else in the last event that carries it,    *)
(* else in the update being sent, else the client has it.                  *)
LastCarrierIsLatest ==
    \A p \in Paths \ lost : ~InFlight(p) =>
        /\ \A i \in 1..Len(value_rx) :
              /\ value_rx[i][p] # 0
              /\ \A j \in (i + 1)..Len(value_rx) : value_rx[j][p] = 0
              => value_rx[i][p] = value_store[p]
        /\ p \in confirmed /\ ~Queued(p) =>
              /\ \A i \in Updates : outbox[i].vals[p] # 0 =>
                    outbox[i].vals[p] = value_store[p]
              /\ ~Outgoing(p) => view[p] = value_store[p]

FeedInvariant == LifeCycle /\ LoopState /\ BatchState /\ SamplesInRange /\ LastCarrierIsLatest

=============================================================================
