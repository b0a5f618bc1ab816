------------------------------- MODULE MCDemo -------------------------------
(* The writes of the runs of DemoServer: batches and single ones, of the   *)
(* counter and of a name that is not registered.                           *)
EXTENDS DemoServer

CONSTANT u   \* a name that is not registered

DemoPathSet == {counter}
DemoNames == {counter, u}

DemoRequests ==
    {[cmd |-> "write_watchable", names |-> <<counter, counter>>, wellformed |-> TRUE],
     [cmd |-> "write_watchable", names |-> <<>>, wellformed |-> TRUE],
     [cmd |-> "write_watchable", names |-> <<counter, u>>, wellformed |-> TRUE],
     [cmd |-> "write_single_watchable", names |-> <<counter>>, wellformed |-> TRUE],
     [cmd |-> "write_single_watchable", names |-> <<counter>>, wellformed |-> FALSE]}

(* The top of i64, an integer beyond it, a small float and no value at all.*)
DemoJson ==
    {[type |-> "integer", v |-> MaxInt], [type |-> "integer", v |-> MaxInt + 1],
     [type |-> "text_number", v |-> 1], [type |-> "text", v |-> 0]}

=============================================================================
