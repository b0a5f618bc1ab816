---------------------------- MODULE ServerShared ----------------------------
(***************************************************************************)
(* What the tasks of the server share: struct ServerShared of              *)
(* src/server.rs, the slot that holds the event sender, the two bounded    *)
(* channels, and the vocabulary of requests and messages.                  *)
(*                                                                         *)
(* Values are abstracted to sample numbers: the n-th value that the        *)
(* datasource emits for a path is the number n, and 0 stands for a missing *)
(* entry.  Two emissions of equal values are thereby told apart, which is  *)
(* what "fresh", "stale" and "older" mean in the properties.  A batch of   *)
(* updates (Vec<(String, WatchableValue)>) is a function from paths to     *)
(* sample numbers.  A write is identified by the order in which it was     *)
(* issued, which stands for its (request_token, batch_index).              *)
(***************************************************************************)
EXTENDS Integers, Sequences, FiniteSets, Functions

CONSTANTS
    Names,        \* the watchable names a client may put in a request
    Paths,        \* the registered ones: the keys of Datastore::entries
    Reports,      \* what DataSource::connection_status may return
    Requests,     \* the requests the client sends in this instance
    ValueCap,     \* capacity of the value channel (512 in run)
    WriteCap,     \* capacity of the write channel (256 in run)
    MaxSamples,   \* bound: samples the datasource emits per path
    MaxWrites,    \* bound: writes issued in a behaviour
    MaxInvalid    \* bound: refused requests per connection

ConnectionStatus == {"Connected", "Connecting", "Disconnected"}

(* Commands that dispatch answers with one response and no other effect.   *)
QueryCmd == {"echo", "get_device_info", "get_watchable_count",
    "change_subscription_update_rate", "get_installed_sfd", "get_loaded_sfd",
    "get_server_stats", "set_throttling", "list_datalogging_acquisitions"}

DataloggingCmd == {"request_datalogging_acquisition",
    "read_datalogging_acquisition_content", "update_datalogging_acquisition",
    "delete_datalogging_acquisition", "delete_all_datalogging_acquisition"}

WatchableCmd == {"get_watchable_info", "subscribe_watchable",
    "unsubscribe_watchable", "write_watchable", "write_single_watchable"}

KnownCmd == QueryCmd \cup DataloggingCmd \cup WatchableCmd
              \cup {"get_server_status", "set_link_config", "get_watchable_list"}

(* Commands whose arm returns Err when a field it needs is missing.        *)
NeedsFields == WatchableCmd \cup {"echo", "change_subscription_update_rate"}

(* "wellformed" says that every field the arm needs is there, and of a      *)
(* get_watchable_list that its max_per_response is not zero.  "oversized"  *)
(* is a frame whose header announces a size that overflows.                *)
Request == [cmd : KnownCmd \cup {"unknown", "oversized"}, names : Seq(Names),
            wellformed : BOOLEAN]

ASSUME ServerAssumption ==
    /\ Paths \subseteq Names
    /\ Reports \in (SUBSET ConnectionStatus) \ {{}}
    /\ Requests \subseteq Request
    /\ ValueCap \in Nat \ {0}
    /\ WriteCap \in Nat \ {0}
    /\ MaxSamples \in Nat
    /\ MaxWrites \in Nat
    /\ MaxInvalid \in Nat

-----------------------------------------------------------------------------
(* Batches of samples.                                                     *)

Batch == [Paths -> Nat]
NoSamples == [p \in Paths |-> 0]
Carried(b) == {p \in Paths : b[p] # 0}
Only(b, S) == [p \in Paths |-> IF p \in S THEN b[p] ELSE 0]
Merge(base, b) == [p \in Paths |-> IF b[p] # 0 THEN b[p] ELSE base[p]]

(* Messages to the client.  "clock" tells where the t field of an update   *)
(* comes from; "write" is the write that the message reports as done.      *)
Welcome == [cmd |-> "welcome"]
Response == [cmd |-> "response"]
ErrorResponse == [cmd |-> "error"]
ServerStatus(s) == [cmd |-> "inform_server_status", status |-> s]
WatchableUpdate(b, c) == [cmd |-> "watchable_update", vals |-> b, clock |-> c]
WriteSuccess(w) == [cmd |-> "write_success", write |-> w]

Message == {Welcome, Response, ErrorResponse}
    \cup [cmd : {"inform_server_status"}, status : ConnectionStatus]
    \cup [cmd : {"watchable_update"}, vals : Batch,
          clock : {"datasource", "server"}]
    \cup [cmd : {"write_success"}, write : 1..MaxWrites]

-----------------------------------------------------------------------------
VARIABLES
    subscribed,    \* Mutex<HashSet<String>>: paths the client subscribed to
    value_store,   \* Mutex<ValueStore>: latest sample of each path
    value_sender,  \* Mutex<Option<Sender>>: "Some" or "None"
    value_rx,      \* contents of the value channel
    write_rx,      \* contents of the write channel
    conn_status,   \* Mutex<ConnectionStatus>
    connected,     \* the future handle_connection(..) exists
    polling,       \* the poller task lives, and with it the receiver of write_rx
    aborted,       \* poller.abort() has been called
    lost,          \* history: paths whose last published sample found the channel full
    lost_writes    \* history: writes that will never reach DataSource::write

sharedVars == <<subscribed, value_store, value_sender, value_rx, write_rx,
                conn_status, connected, polling, aborted, lost, lost_writes>>

SharedTypeOK ==
    /\ subscribed \in SUBSET Paths
    /\ value_store \in Batch
    /\ value_sender \in {"Some", "None"}
    /\ value_rx \in Seq(Batch) /\ Len(value_rx) <= ValueCap
    /\ write_rx \in Seq(1..MaxWrites) /\ Len(write_rx) <= WriteCap
    /\ conn_status \in ConnectionStatus
    /\ connected \in BOOLEAN
    /\ polling \in BOOLEAN
    /\ aborted \in BOOLEAN
    /\ lost \in SUBSET Paths
    /\ lost_writes \in SUBSET (1..MaxWrites)

SharedInit ==
    /\ subscribed = {}
    /\ value_store = NoSamples
    /\ value_sender = "None"
    /\ value_rx = <<>>
    /\ write_rx = <<>>
    /\ conn_status = "Connected"
    /\ connected = FALSE
    /\ polling = TRUE
    /\ aborted = FALSE
    /\ lost = {}
    /\ lost_writes = {}

=============================================================================
