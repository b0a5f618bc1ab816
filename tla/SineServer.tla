----------------------------- MODULE SineServer -----------------------------
(***************************************************************************)
(* The example program (main, examples/sine_source.rs): the server with    *)
(* SineSource runs as a task of its own; the main task waits for Ctrl-C,   *)
(* completes the shutdown future and waits for the server's task.          *)
(***************************************************************************)
EXTENDS SineSource, SourceServer, SequencesExt

(* The datasource of the server is SineSource; its counter is a u32, its    *)
(* amplitude what it started with or what a write made of it.              *)
Amplitudes == {SineInitial.amplitude, NonFinite} \cup {Float(j.v) : j \in Json}
SineStates == [amplitude : Amplitudes, poll_counter : 0..MaxU32]

ASSUME SineAssumption ==
    /\ Watchables = SineWatchables
    /\ InitialState = SineInitial
    /\ \A s \in SineStates :
          /\ Overflows(s) <=> SineOverflows(s)
          /\ \A S \in SUBSET Paths : Poll(s, S) = SinePoll(s, S)
          /\ \A p \in Names, j \in Json :
                LET v == parse_write_value(j)
                IN  v # Unparsed => WriteValue(s, p, v) = SineWrite(s, p, v)

VARIABLE main_pc   \* "running", "stopping" (after Ctrl-C), or "exited"

sineVars == <<allVars, main_pc>>

SineInit == SourceInit /\ main_pc = "running"

Serve ==
    /\ main_pc # "exited"
    /\ SourceNext
    /\ shutdown' = shutdown
    /\ UNCHANGED main_pc

(* ctrl_c() completes, which SIGINT makes it do once, and the shutdown     *)
(* signal is sent; nobody receives it if run has already ended.            *)
CtrlC ==
    /\ main_pc = "running"
    /\ main_pc' = "stopping"
    /\ ShutdownFires
    /\ UNCHANGED sourceVars

(* The join: the server's task has ended, in whatever way.  The process    *)
(* ends, and the poller with it.                                           *)
MainReturns ==
    /\ main_pc = "stopping"
    /\ run_pc \in {"returned", "failed", "panicked"}
    /\ main_pc' = "exited"
    /\ UNCHANGED allVars

Exited == main_pc = "exited" /\ UNCHANGED sineVars

SineNext == Serve \/ CtrlC \/ MainReturns \/ Exited

SineSpec == SineInit /\ [][SineNext]_sineVars

-----------------------------------------------------------------------------
(* Fairness: that of Server, for the steps of the composition: the tasks   *)
(* run when they are ready, a batch that was taken is gone through, and    *)
(* the process runs.  Nothing is assumed of a client, be it that it reads. *)
Alive(A) == main_pc # "exited" /\ A /\ UNCHANGED main_pc
ClientStepOf(A) == A /\ UNCHANGED <<pollerVars, runVars, sourceVars>>

SineFairness ==
    /\ WF_sineVars(Alive(BareTick \/ PollStep \/ OverflowStep))
    /\ SF_sineVars(Alive(WriteStep))
    /\ SF_sineVars(Alive(AbortPoller))
    /\ WF_sineVars(Alive(BatchStep \/ ClientStepOf(Dispatch)))
    /\ SF_sineVars(Alive(ClientStepOf(ReceiveEvent)))
    /\ WF_sineVars(Alive((Bind \/ ListenerFails) /\ UNCHANGED sourceVars))
    /\ WF_sineVars(Alive(ClearSender /\ UNCHANGED sourceVars))
    /\ WF_sineVars(Alive(StopPoller /\ UNCHANGED sourceVars))
    /\ SF_sineVars(Alive(AcceptShutdown /\ UNCHANGED sourceVars))
    /\ SF_sineVars(Alive(ConnectionShutdown /\ UNCHANGED sourceVars))
    /\ WF_sineVars(MainReturns)

FairSineSpec == SineSpec /\ SineFairness

(* A client that is connected takes what it is sent.                       *)
ClientReads == WF_sineVars(Alive(ClientStepOf(Send)))

-----------------------------------------------------------------------------
(* The bound on samples stopped the polls before the amplitude was read.   *)
NeverSampled ==
    Exhausted /\ (emitted[amplitude] # <<>> => Last(emitted[amplitude]) # source.amplitude)

(* A client that reads and stays subscribed to the amplitude is again and  *)
(* again shown the one the datasource has, so in the end the one that was  *)
(* written: the write goes through the write channel to the datasource,    *)
(* which returns the path at its next tenth poll only, and from there      *)
(* through the store, the value channel and the filter, while other polls, *)
(* a wrap of the u32 and other requests go on.                             *)
WriteShows ==
    ClientReads =>
        (amplitude \in confirmed
            ~> \/ view[amplitude] > 0 /\ Displayed(amplitude) = to_json(source.amplitude)
               \/ amplitude \notin confirmed \/ amplitude \in lost
               \/ ~polling \/ NeverSampled \/ main_pc = "exited")

(* Ctrl-C ends the process wherever the server is: before it listens,      *)
(* between the steps of a write_watchable request, while it waits for a    *)
(* client that does not read, with a write still queued, after it failed,  *)
(* after a request made it panic or the datasource panicked.               *)
CtrlCStops == main_pc = "stopping" ~> main_pc = "exited"

(* The latest poll was after the latest write, and at a turn of the        *)
(* amplitude: it would have been returned to a subscriber.                 *)
JustDue == polled /\ source.poll_counter % Period(amplitude) = 1

(* server.rs:496: current values are sent after a subscription.  What is   *)
(* sent is what was stored, and it is stamped with the server's clock, not *)
(* with the time of the sample (server.rs:50): a datasource that skips the *)
(* paths nobody is subscribed to, as datasource.rs:177 lets it, left there *)
(* what it returned for an earlier subscription, and the client is told    *)
(* that this is the value of now, though the datasource was polled since.  *)
SnapshotIsCurrent ==
    [][conn_pc = "subscribe" /\ conn_pc' = "select" /\ poll_pc = "select" /\ JustDue
        => \A i \in 1..Len(outbox') :
              /\ outbox'[i].cmd = "watchable_update" /\ outbox'[i].clock = "server"
              /\ outbox'[i].vals[amplitude] # 0
              => emitted[amplitude][outbox'[i].vals[amplitude]] = source.amplitude]_sineVars

=============================================================================
