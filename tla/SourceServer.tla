---------------------------- MODULE SourceServer ----------------------------
(***************************************************************************)
(* The server and the datasource it owns, composed: an implementor of the  *)
(* DataSource trait (src/datasource.rs) is a state and operators on it,    *)
(* given as constants, and the poller's calls move that state.  Server by  *)
(* itself leaves the datasource open and knows samples only by number;     *)
(* here the n-th sample of a path has a value, and so has the n-th write.  *)
(***************************************************************************)
EXTENDS Server, Values

CONSTANTS
    Watchables,       \* watchables(): the data type of each path
    InitialState,     \* the state the datasource is built in
    Poll(_, _),       \* poll(subscribed): the next state and the updates
    Overflows(_),     \* the states where poll overflows: it panics or wraps around
    WriteValue(_, _, _),  \* write(path, value): the next state, the same after an Err
    Json              \* the values a client may put into a write

(* write_single_watchable names one watchable.                             *)
ASSUME SourceAssumption ==
    /\ Watchables \in [Paths -> DataType]
    /\ Json \subseteq JsonValue
    /\ \A r \in Requests : r.cmd = "write_single_watchable" => Len(r.names) = 1

VARIABLES
    source,    \* the state of the datasource
    polled,    \* history: poll was called after the latest call of write
    emitted,   \* history: the values of the samples of each path
    content    \* history: path and value of each issued write

sourceVars == <<source, polled, emitted, content>>
serverVars == <<sharedVars, pollerVars, handlerVars, runVars>>
allVars == <<serverVars, sourceVars>>

SourceInit ==
    /\ Init
    /\ source = InitialState
    /\ polled = FALSE
    /\ emitted = [p \in Paths |-> <<>>]
    /\ content = <<>>

-----------------------------------------------------------------------------
(* Bound: the interval ticks until some path has MaxSamples samples.       *)
Exhausted == \E p \in Paths : value_store[p] = MaxSamples

PollStep ==
    /\ TickSubscriptions
    /\ LET polling_result == Poll(source, subscribed)
           updates == polling_result.updates
       IN  /\ Carried(result') = DOMAIN updates
           /\ source' = polling_result.state
           /\ emitted' = [p \in Paths |-> IF p \in DOMAIN updates
                                          THEN Append(emitted[p], updates[p])
                                          ELSE emitted[p]]
    /\ polled' = TRUE
    /\ UNCHANGED content
    /\ UNCHANGED <<handlerVars, runVars>>

OverflowStep ==
    /\ poll_pc = "subscriptions"
    /\ Overflows(source)
    /\ SourcePanics
    /\ UNCHANGED <<handlerVars, runVars, sourceVars>>

WriteStep ==
    /\ ApplyWrite
    /\ LET w == content[Head(write_rx)]
       IN  source' = WriteValue(source, w.path, w.value)
    /\ polled' = FALSE
    /\ UNCHANGED <<emitted, content>>
    /\ UNCHANGED <<handlerVars, runVars>>

(* A write whose value does not parse is refused before it is issued.      *)
Issue(path) ==
    /\ \E j \in Json :
          /\ parse_write_value(j) # Unparsed
          /\ content' = Append(content, [path |-> path, value |-> parse_write_value(j)])
    /\ UNCHANGED <<source, polled, emitted>>
    /\ UNCHANGED <<pollerVars, runVars>>

BatchStep == WritePath /\ Issue(paths[at])

IssueStep ==
    \/ BatchStep
    \/ \E r \in Requests : WriteSingle(r) /\ Issue(r.names[1])

(* The other steps of the poller.                                          *)
BareTick ==
    /\ \/ TickStatus /\ ~Exhausted
       \/ TickStore
       \/ TickPublish
    /\ UNCHANGED <<handlerVars, runVars, sourceVars>>

AbortPoller == PollerAborts /\ UNCHANGED <<handlerVars, runVars, sourceVars>>

ClientStep == HandlerStep /\ issued' = issued /\ UNCHANGED sourceVars

MainStep == (RunNext \/ Terminated) /\ UNCHANGED sourceVars

SourceNext ==
    PollStep \/ OverflowStep \/ WriteStep \/ IssueStep \/ BareTick \/ AbortPoller
        \/ ClientStep \/ MainStep

SourceSpec == SourceInit /\ [][SourceNext]_allVars

-----------------------------------------------------------------------------
(* What the client was last given for a path, as the JSON it got.          *)
Displayed(p) == to_json(emitted[p][view[p]])

(* Every value a client can be given for a path, as the JSON it gets, is   *)
(* of the type that the definition of the path declared, whatever was      *)
(* written to it before and in whatever JSON, but for the one a client     *)
(* brings about: JSON has no number for a float that is not finite, so     *)
(* once such a float was applied, a float64 may be given as null.  And     *)
(* each sample that was stored has its value.                              *)
NonFiniteApplied == \E i \in 1..Len(applied) : content[applied[i]].value = NonFinite

ValuesAreAsDeclared ==
    \A p \in Paths :
        /\ value_store[p] <= Len(emitted[p])
        /\ \A i \in 1..Len(emitted[p]) :
              \/ to_json(emitted[p][i]).type = JsonTypeOf(Watchables[p])
              \/ /\ to_json(emitted[p][i]).type = "null"
                 /\ Watchables[p] = "float64" /\ NonFiniteApplied

=============================================================================
