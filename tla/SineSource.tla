----------------------------- MODULE SineSource -----------------------------
(***************************************************************************)
(* The datasource of the example (SineSource, examples/sine_source.rs).    *)
(* Its poll returns only subscribed paths, the cosine at every second poll *)
(* and the amplitude at every tenth, counted by a u32 that counts all the  *)
(* polls and overflows at MaxU32.                                          *)
(*                                                                         *)
(* The wave is abstracted to its amplitude and the clock to the number of  *)
(* polls: sine and cosine are the amplitude that scales them.              *)
(***************************************************************************)
EXTENDS Values

CONSTANT MaxU32

ASSUME CounterAssumption == MaxU32 \in Nat

sine == "/signals/sine"
cosine == "/signals/cosine"
amplitude == "/params/amplitude"
poll_counter == "/meta/poll_counter"
clocks == {"/meta/server_time", "/meta/poll_time"}

SinePaths == {sine, cosine, amplitude, poll_counter} \cup clocks

SineWatchables ==
    [p \in SinePaths |-> IF p = poll_counter THEN "uint32" ELSE "float64"]

SineInitial == [amplitude |-> Float(1), poll_counter |-> 0]

SineOverflows(s) == s.poll_counter = MaxU32

Period(p) ==
    CASE p = cosine -> 2
      [] p = amplitude -> 10
      [] OTHER -> 1

Reading(s, p) ==
    CASE p = poll_counter -> Uint(s.poll_counter)
      [] p \in clocks -> Float(s.poll_counter)
      [] OTHER -> s.amplitude

(* Mutant: only the polls that return something are counted.               *)
SinePollCountsUpdates(s, subscribed_paths) ==
    LET due == {p \in SinePaths \cap subscribed_paths : s.poll_counter % Period(p) = 0}
    IN  [state |-> IF due = {} THEN s
                   ELSE [s EXCEPT !.poll_counter = (@ + 1) % (MaxU32 + 1)],
         updates |-> [p \in due |-> Reading(s, p)]]

(* The values are read before the counter moves on.                        *)
SinePoll(s, subscribed_paths) ==
    LET due == {p \in SinePaths \cap subscribed_paths : s.poll_counter % Period(p) = 0}
    IN  [state |-> [s EXCEPT !.poll_counter = (@ + 1) % (MaxU32 + 1)],
         updates |-> [p \in due |-> Reading(s, p)]]

(* Mutant: an Int is stored as it is.                                      *)
SineWriteRaw(s, path, value) ==
    IF path = amplitude /\ value.kind \in {"Float", "NonFinite", "Int"}
    THEN [s EXCEPT !.amplitude = value]
    ELSE s

(* Only the amplitude can be written; an Int is converted to a float, a    *)
(* truth value is refused.                                                 *)
SineWrite(s, path, value) ==
    IF path # amplitude \/ value.kind \notin {"Float", "NonFinite", "Int"} THEN s
    ELSE [s EXCEPT !.amplitude = IF value.kind = "Int" THEN Float(value.v) ELSE value]

=============================================================================
