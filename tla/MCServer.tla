------------------------------ MODULE MCServer ------------------------------
(* The requests that the runs of Server let the client send.               *)
EXTENDS ServerInvariants

CONSTANTS p, q, u   \* two registered paths, a name that is not registered

FeedRequests ==
    {[cmd |-> "subscribe_watchable", names |-> <<p, q>>, wellformed |-> TRUE],
     [cmd |-> "subscribe_watchable", names |-> <<q>>, wellformed |-> TRUE],
     [cmd |-> "subscribe_watchable", names |-> <<q, u>>, wellformed |-> TRUE],
     [cmd |-> "unsubscribe_watchable", names |-> <<u, p>>, wellformed |-> TRUE],
     [cmd |-> "get_watchable_list", names |-> <<>>, wellformed |-> FALSE]}

WriteRequests ==
    {[cmd |-> "write_watchable", names |-> <<p, q>>, wellformed |-> TRUE],
     [cmd |-> "write_watchable", names |-> <<>>, wellformed |-> TRUE],
     [cmd |-> "write_watchable", names |-> <<p, u>>, wellformed |-> TRUE],
     [cmd |-> "write_single_watchable", names |-> <<q>>, wellformed |-> TRUE],
     [cmd |-> "write_single_watchable", names |-> <<q>>, wellformed |-> FALSE]}

LivenessRequests ==
    {[cmd |-> "subscribe_watchable", names |-> <<p>>, wellformed |-> TRUE],
     [cmd |-> "unsubscribe_watchable", names |-> <<p>>, wellformed |-> TRUE],
     [cmd |-> "write_single_watchable", names |-> <<p>>, wellformed |-> TRUE]}

(* Subscriptions, one request of every command that has no loop, and a     *)
(* malformed one of every command that can be malformed.                   *)
ReaderRequests ==
    {[cmd |-> c, names |-> <<p>>, wellformed |-> TRUE] : c \in
        (KnownCmd \cup {"unknown", "oversized"}) \ {"write_watchable", "write_single_watchable"}}
    \cup {[cmd |-> c, names |-> <<>>, wellformed |-> FALSE] :
             c \in NeedsFields \cup {"get_watchable_list"}}
    \cup {[cmd |-> "get_watchable_info", names |-> <<u>>, wellformed |-> TRUE]}

=============================================================================
