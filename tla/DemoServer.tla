----------------------------- MODULE DemoServer -----------------------------
(***************************************************************************)
(* The binary (main, src/main.rs): the server with DemoSource, run in the  *)
(* main task with a shutdown future that never completes.                  *)
(***************************************************************************)
EXTENDS DemoSource, SourceServer

(* The datasource of the server is DemoSource; its counter is an i64.      *)
I64 == MinInt..MaxInt

ASSUME DemoAssumption ==
    /\ Watchables = DemoWatchables
    /\ InitialState = DemoInitial
    /\ \A n \in I64 :
          /\ Overflows(n) <=> DemoOverflows(n)
          /\ \A S \in SUBSET Paths : Poll(n, S) = DemoPoll(n, S)
          /\ \A p \in Names, j \in Json :
                LET v == parse_write_value(j)
                IN  v # Unparsed => WriteValue(n, p, v) = DemoWrite(n, p, v)

(* Counting from zero up to the bound on samples does not reach the top.   *)
ASSUME CountingAssumption == MaxSamples < MaxInt

VARIABLE main_pc   \* "awaiting" run, or "exited"

demoVars == <<allVars, main_pc>>

DemoInit == SourceInit /\ main_pc = "awaiting"

Serve ==
    /\ main_pc = "awaiting"
    /\ SourceNext
    /\ shutdown' = shutdown
    /\ UNCHANGED main_pc

(* run returned an error, or main is unwound with it: the process ends,    *)
(* and the poller with it.                                                 *)
MainReturns ==
    /\ main_pc = "awaiting"
    /\ run_pc \in {"returned", "failed", "panicked"}
    /\ main_pc' = "exited"
    /\ UNCHANGED allVars

Exited == main_pc = "exited" /\ UNCHANGED demoVars

DemoNext == Serve \/ MainReturns \/ Exited

DemoSpec == DemoInit /\ [][DemoNext]_demoVars

-----------------------------------------------------------------------------
(* A write that brings the counter so near to i64::MAX that the polls of   *)
(* this instance can carry it over.                                        *)
NearTheTop(w) ==
    w.path = counter /\ w.value.kind = "Int" /\ w.value.v > MaxInt - MaxSamples - 1

(* The poller can die of the counter's overflow only after such a write:   *)
(* no other value that the server accepts (a float beyond the range of     *)
(* i64, a truth value, a string), no batch and no write that was lost      *)
(* brings it there, and counting alone does not.                           *)
OnlyWritesOverflow ==
    poll_pc = "panicked" => \E i \in 1..Len(applied) : NearTheTop(content[applied[i]])

=============================================================================
