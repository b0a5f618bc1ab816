----------------------------- MODULE DemoSource -----------------------------
(***************************************************************************)
(* The counter that the server's own binary serves (DemoSource,            *)
(* src/main.rs).  Its state is the counter, an i64: the increment of poll  *)
(* overflows at i64::MAX, where a debug build panics and a release build   *)
(* goes on with i64::MIN.                                                  *)
(***************************************************************************)
EXTENDS Values

counter == "/demo/counter"

DemoWatchables == [p \in {counter} |-> "sint64"]

DemoInitial == 0

DemoOverflows(n) == n = MaxInt

Successor(n) == IF n = MaxInt THEN MinInt ELSE n + 1

(* The counter is returned at every poll, subscribed or not.               *)
DemoPoll(n, subscribed_paths) ==
    [state |-> Successor(n),
     updates |-> [p \in {counter} |-> SignedInt(Successor(n))]]

(* Mutant: a float is accepted, and cast with `as i64`, which saturates.   *)
DemoWriteCast(n, path, value) ==
    CASE path = counter /\ value.kind = "Int" -> value.v
      [] path = counter /\ value.kind = "Float" ->
            IF value.v > MaxInt THEN MaxInt ELSE IF value.v < MinInt THEN MinInt ELSE value.v
      [] OTHER -> n

(* Anything but an Int is refused, and leaves the counter alone.           *)
DemoWrite(n, path, value) ==
    IF path = counter /\ value.kind = "Int" THEN value.v ELSE n

=============================================================================
