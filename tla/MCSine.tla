------------------------------- MODULE MCSine -------------------------------
(* The requests of the runs of SineServer, and what it writes.             *)
EXTENDS SineServer

Subscribe == [cmd |-> "subscribe_watchable", names |-> <<amplitude>>, wellformed |-> TRUE]
Unsubscribe == [cmd |-> "unsubscribe_watchable", names |-> <<amplitude>>, wellformed |-> TRUE]
Write == [cmd |-> "write_watchable", names |-> <<amplitude>>, wellformed |-> TRUE]
WriteOne == [cmd |-> "write_single_watchable", names |-> <<amplitude>>, wellformed |-> TRUE]
ZeroPerResponse == [cmd |-> "get_watchable_list", names |-> <<>>, wellformed |-> FALSE]

(* The last one makes run panic.                                           *)
SineRequests == {Subscribe, Write, ZeroPerResponse}

SnapshotRequests == {Subscribe, Unsubscribe, WriteOne}

SnapshotJson == {[type |-> "integer", v |-> 2]}

(* An integer, where the amplitude is a float, and a string that spells a  *)
(* float that is not finite.                                               *)
SineJson == {[type |-> "integer", v |-> 2], [type |-> "text_nonfinite", v |-> 0]}

=============================================================================
