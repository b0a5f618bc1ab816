# Verification of scrutiny-server-rs

`scrutiny-server-rs` is a server that exposes the values of a data source (an implementation
of the `DataSource` trait by the embedding program) to one GUI client at a time, over TCP, in
the Scrutiny protocol. This directory holds TLA+ models of it, the TLC runs that check them on
small instances, and proofs of what matters most that TLAPS checks for every instance. All
paths below are relative to the repository; `server.rs` is `src/server.rs`, and so on.

Run everything from this directory: `tlc -config Feed.cfg MCServer.tla` for a run (the table
below names module and configuration), `tlapm ServerProofs.tla` for a module of proofs.
`PROJECT.json` lists components, runs, the source lines of every definition (`map`), the
hazards and the properties that cover them, and, for every property, a *mutant*: a plausible
bug, defined next to the operator that it replaces, under which TLC finds the property violated.

## 1. The system

### Components

| component | code | state | operations |
|---|---|---|---|
| `run`, the accept loop | server.rs:80-162 | the listener, `shutting_down`, the slot `value_sender`, the poller's `JoinHandle` | populate, start the poller, bind, accept, create and drop a handler, clear the slot, abort the poller |
| poller task | server.rs:166-223 | the data source, `prev_subscribed`, the receiver of the write channel | one tick (status, subscriptions, poll, store, publish), apply one write |
| connection handler | server.rs:265-347 | `framed`, `ConnState`, `SubGuard`, the receiver of the value channel | greet, `select!` over request, event and status timer, send |
| `dispatch` | server.rs:351-665 | that of the handler and the shared state | 22 commands and the unknown one |
| `SubGuard` | server.rs:226-258 | the paths of this connection | subscribe, unsubscribe, `Drop` |
| shared state | server.rs:57-69 | `subscribed`, `value_store`, `conn_status`, the write channel's sender | locked for single statements |
| framing codec | framing.rs | `pending`; the buffer belongs to `Framed` | `decode`, `encode` |
| datastore | datastore.rs:13-73 | `entries` | `populate` once, then read only |
| watchable queries | server.rs:375-475, 763-814, 845-861 | none | count by kind; filter, glob, chunk; details |
| wire types | api_types.rs, server.rs:667-786 | none | construction of messages |
| data source trait | datasource.rs | that of the implementor | called by the poller |
| demo source and binary | main.rs | the counter (i64) | `poll`, `write`; `main` around `run`, with no shutdown |
| sine source and example | examples/sine_source.rs | amplitude, poll counter (u32) | `poll`, `write`; `main`: `run` in a task, Ctrl-C, join |

### How they interact

`run` is one task. It drives the handler's future *inside itself*, in a `select!` against the
shutdown future: the handler and `run` never run in parallel, the handler can be dropped at any
of its awaits, and a panic of the handler unwinds `run`. The poller is a second, spawned task.
The two tasks meet at

- the value channel (512 events, one channel per connection), filled by the poller with
  `try_send`, whose result is ignored; its sender is in the slot `value_sender`;
- the write channel (256 commands, one for the life of the server), filled by `dispatch` with
  `try_send`, whose result is ignored; its receiver dies with the poller;
- the mutexes around `value_store`, `subscribed`, `conn_status` and the slot.

The client sees frames. It may leave, stop reading or ask anything at any time.

### What is hard here

- *Snapshot and stream.* The answer to a subscription is a snapshot of the store; later values
  come as events. The poller may be between storing and publishing, older events may still be
  queued, and the queue may be full. Is there a gap? Which value does the client end up with?
- *Half-done requests.* `subscribe` fails at an unknown name after it subscribed the names before.
- *Two copies of the subscriptions.* The guard's set and the shared set must agree however the
  handler ends, or the data source goes on acquiring for nobody.
- *Notification by difference.* The data source learns of subscriptions once per tick.
- *Ends.* A shutdown while accepting, serving, sending; `accept` failing; an abort with writes
  still queued; a panic of the handler; a panic of the data source, which `run` does not notice.
- *Writes.* A batch is queued while the poller drains the queue; a full queue drops writes.
- *Framing.* Reads cut frames anywhere; damaged and malformed input comes between frames.
- *Written values.* A value goes from the client's JSON through the write queue into the data
  source, and comes back, if at all, from a later `poll`, at the cadence of the source, whose own
  counters overflow.
- *Widths.* The lengths that a header announces may add up to more than a `usize`.
- *Identifiers.* 16 bits, assigned in one pass over definitions that may repeat a path.

What makes each component correct: `run` ends exactly when it should and leaves nothing behind;
the poller stores before it publishes and applies each write once and in order; the handler
passes on subscribed values only and loses none that the queue had room for; the guard mirrors
the shared set; the codec returns the frames that were written, in order, and promptly; the
registry follows the definitions and gives RPVs distinct identifiers; a list is complete, its end
is marked, and counts and details agree with it; a client is told once of each of its writes, in order; a
data source emits values of the types it declared and dies of nothing but what it was told; the programs
end when they are told to. `PROJECT.json` lists the hazards line by line.

## 2. The modules

```
ServerShared          shared state, channels, requests, messages
  Poller              the poller task
  Connection          handler, dispatch, SubGuard
    Server            run; composes the two; properties, fairness
      ServerInvariants    inductive invariants
        MCServer          requests for TLC
        ServerProofs      proofs
          WriteProofs     proofs about writes
      SourceServer        Server with the data source it owns (uses Values)
        SourceProofs        it implements Server; the contract of a source (uses WriteProofs)
        DemoServer          the binary: SourceServer with DemoSource
          MCDemo              writes for TLC
          DemoProofs          proofs: it keeps the contract; the counter
        SineServer          the example program: SourceServer with SineSource
          MCSine              requests and writes for TLC
          SineProofs          proofs: it keeps the contract
Values                runtime values, to and from JSON
  DemoSource            the counter
  SineSource            the sine source
ValueFeed             abstract specification that Server implements
Framing               the codec, as functions of the buffer
  FrameStream         the read loop, the network, the client; properties
    MCFraming         scripts for TLC
    FramingProofs     proofs
Datastore             populate; properties
  WatchableList       count, list and info requests; properties
    MCWatchables      definitions and requests for TLC
    WatchableProofs   proofs
Induction             induction on sets, least numbers, flattened sequences and sums (lemmas)
```

### Server (ServerShared, Poller, Connection, Server)

Each step of the model is a stretch of code between two points where another task can see or
change what it touches: an await, or a lock.

- **Values are sample numbers.** The n-th value that the source emits for a path is n, 0 means
  no entry. A batch maps paths to numbers. This tells fresh from stale and says nothing else.
- **Poller.** A tick is `TickStatus` (server.rs:181-184), `TickSubscriptions` (snapshot,
  `on_subscribed` and `on_unsubscribed`, `poll`), `TickStore`, `TickPublish`; `ApplyWrite` is the other
  branch. The data source is nondeterministic: any set of registered paths, any status in
  `Reports`. `acquiring` records what it was told to acquire, `applied` the writes it was given.
  `SourcePanics` is a panic of any of its methods: the task ends (`polling`), the receiver of the
  write channel goes with it, and nothing else changes. No lock is held at those calls, so none is
  poisoned.
- **Handler.** `conn_pc` is "select" at the `select!`; `outbox` is what the chosen branch has
  still to send, each message a step that needs the client. `dispatch` has no await: the arms
  with one effect are one step, and those that lock once per name are one step per name.
  `StartHandler` and `DropHandler` are the birth of the future (fresh guard, fresh channel) and
  its end (guard dropped, channel and stream gone).
- **run.** `run_pc` goes through "bind", "accept", "serving", "closed" (the handler is gone, the
  slot not yet cleared), "stopping", "returned"; "failed" is an error of `bind` or `accept`, and
  "panicked" a handler's panic. `select!` picks any branch that is ready, so `Accept` may win over
  a shutdown that has fired.
- **History variables** (`lost`, `lost_writes`, `acquiring`, `applied`, `view`, `shown`,
  `floor`, `confirmed`, `told`, `since`, `issued`) are read by no guard of the code; `issued` is
  bounded.
- Requests that have no effect on the server (echo, counts, statistics, datalogging and so on)
  are the disjuncts of `AnswerRequest`, one for each shape of answer. A `get_watchable_list`
  that is not well formed asks for chunks of zero entries; an "oversized" request is a frame on
  which `decode` panics. Both are `ConnectionPanics`.
- `PollerAborts` may come later than the first await after `abort()`, since `select!` does not
  suspend while a branch is ready.

`ValueFeed` is what a client may rely on: it is given samples of paths it wants, each really
stored, none older than its connection. It does *not* say that samples only get newer: the
snapshot overtakes queued events (server.rs:502), so a client may briefly go back; `Converged`
says that it then ends up with the latest.

### Data sources (Values, SourceServer, DemoSource, DemoServer, SineSource, SineServer)

In Server the data source may do anything and a value is the number of a sample. `SourceServer` gives
it a state and its methods, as constants (`Watchables`, `InitialState`, `Poll`, `Overflows`,
`WriteValue`), and records what the n-th sample of a path and the n-th write were (`emitted`,
`content`); its steps are those of Server, and those in which the poller calls the source move `source` as
well. `Values` has the runtime values, `parse_write_value` and `to_json`; a float is an integer, or not
finite, since the conversions tell only that apart, and i64 is `MinInt..MaxInt`.

`DemoSource` and `SineSource` are the two implementors of the repository. The increments at i64::MAX
and u32::MAX can both panic (`OverflowStep`, a debug build) and wrap around (`PollStep`, a release
build). The wave is represented by its amplitude and the clocks by the poll counter. `DemoServer` is
`main` of main.rs, which awaits `run` with a shutdown that never comes; `SineServer` is `main` of the
example: the server is a task, Ctrl-C completes the shutdown future once, and `main` ends when the
task has ended, in whatever way.

### Framing (Framing, FrameStream)

Bytes are symbols; the text of a header between prefix and `>` is one symbol, and `Fields` gives
what `parse_header` reads in it. `decode` is a function of buffer and pending header to buffer,
pending header and outcome. `FrameStream` is the loop of tokio_util's `Framed` around it (external
code: after `Ok(None)` it reads, after a frame it decodes again, at the end of the stream a
non-empty rest is an error), over a network that cuts the client's bytes anywhere. Dropping the
future of `framed.next()` when another branch wins loses nothing, because the state is in `framed`.
The encoder is modelled too: the client's intact frames are made by it. Lengths are as wide as
`usize` (`MaxUsize`): their sum wraps around in a release build, and then a slice of the buffer may
panic; a debug build panics at once. `DecodePanics` has both.

### Registry and queries (Datastore, WatchableList)

`populate` is one step per definition, with the panic at the RPV whose successor does not fit in
16 bits. The list request is one step: the registry is a `HashMap`, so the order of its entries is
any. Paths and patterns are sequences of characters; `glob_match` is a recursive function of a pair of
positions, with the code's recursion, compared with `Fits`, which says what a pattern means. Counts and details are
answers to requests of their own, kept until the next one, so that the properties can compare what a
client was told by three arms that compute it apart.

## 3. Runs

All bounds are CONSTANTS that a `.cfg` sets; every passing run is exhaustive.

| run | module, configuration | checks |
|---|---|---|
| Feed | MCServer, Feed.cfg | `TypeOK`, `SharedSetMirrorsGuard`, `SenderLifetime`, `Converged`, `CleanStop`, `FeedInvariant`, `NoClientAfterShutdown`, `RefinesValueFeed` |
| Demo | MCDemo, Demo.cfg | `WritesAccountedFor`, `CompletionsFollowWrites`, `OnlyWritesOverflow` |
| Live | MCServer, Live.cfg | `ShutdownStops`, `AcquisitionFollows`, `QueuedWritesApplied` |
| LiveReader | MCServer, LiveReader.cfg | `SamplesReachReader`, `StatusReachesReader` |
| Sine | MCSine, Sine.cfg | `ValuesAreAsDeclared`, `WritesAccountedFor`, `WriteShows`, `CtrlCStops` |
| Framing | MCFraming, Framing.cfg | `TypeOK`, `LeadingFrames`, `FramesInOrder`, `FramesArePrompt`, `PendingIsInBuffer`, `PanicsOnlyOnOverflow` |
| Watchables | MCWatchables, Watchables.cfg | `TypeOK`, `RpvIdsAreUnique`, `LastDefinitionWins`, `ListIsComplete`, `CountsAgreeWithList`, `DetailsAgreeWithList`, `LastResponseIsMarked` |
| ReportedWrites, EarlyStatus, ZeroChunk | MCServer | violated: see Findings |
| StaleSnapshot | MCSine | violated: see Findings |
| MalformedHeader | MCFraming | violated: see Findings |

Bounds, and why they are enough:

- *Feed* has two paths, two samples of each and a value channel of two: batches carry one path and
  not the other, the second path of a request is subscribed while the first is queued, the channel
  gets full, an event is lost and a later one makes up for it or does not. A request with an unknown
  name after a known one fails half way. One refused request per connection (`MaxInvalid`): the
  counter is only reported. Clients reconnect without bound.
- *Demo* has three writes over a channel of two, so that it fills in the middle of a batch with the
  poller draining in between; an empty batch, a refused and a malformed write; integers at the top of
  i64 (3 here) and one above it, a string that spells a number and one that does not; and two polls,
  enough to carry the counter over. `main` gives it no shutdown: the abort is in the other runs.
- *Sine* has six paths, of which the client uses the amplitude (the one that can be written), one
  write, by a batch of one, and `MaxU32` = 15: 16 and 2^32 have the same remainders modulo 2 and 10, so
  that the wrap around shifts the cadence of the paths as it does in the code. The client writes an
  integer or a string that spells a float that is not finite, and may send a list request that makes
  `run` panic; the datasource may panic too. Ctrl-C comes at every point of this, also when the abort finds
  the write in the queue. What every other JSON value becomes is in the theorem `SineValues`.
  *StaleSnapshot* adds the unsubscription.
- *Live* has one path and one write, because the properties are about one path or one write at a
  time, and two samples over a value channel of one, so that a client that does not read has it full
  (under a poller that waited for room, queued writes would stay where they are: that is the mutant
  of `QueuedWritesApplied`); *LiveReader* has two samples so that an old one can stand in the way of a new one,
  two statuses, and one request of every command that does not write, in its good and its
  malformed form.
- *Framing* has scripts of three items, prefixes of three symbols and digests of two, which gives a
  frame on both sides of a damaged or malformed item; payloads that contain the prefix or `>`
  imitate headers. `MaxUsize` is 63, more than a script is long: sizes near it are awaited in vain,
  those at it overflow. All ways of cutting the script are explored.
- *Watchables* has every sequence of up to three definitions over three paths and three kinds, and
  identifiers 0 to 2: the limit is reached, and paths are defined again. Chunk sizes 0 to 3 over
  lists of up to 3 give empty, exact and partly filled chunks. Details are asked of paths that may be
  unknown, and of one path twice.

In Feed and the other runs of `Spec` nothing stops the system but `Terminated`, and TLC checks for
deadlock in every run.

### Fairness

`FairSpec` assumes what tokio gives: a task that is ready runs (`WF` on the ticks of the poller,
which its timer makes ready again and again, on the steps of `dispatch`, on `Bind`, `ClearSender` and
`StopPoller`), and `select!`, which polls its branches in random order at each await, does not for
ever ignore a branch that is ready again and again (`SF` on applying writes, on the abort, on events,
on the status timer and on the two branches of the shutdown). Nothing is assumed of clients or of the
listener. `ReadingSpec` adds that the client takes what it is sent (`WF` on sending); only
LiveReader assumes that. So `ShutdownStops`, `AcquisitionFollows` and `QueuedWritesApplied` hold
with a client that never reads. `FairSineSpec` is the same for the steps of the composition, as long as
the process lives, and `WF` on the join in `main`; a batch that was taken is gone through (`BatchStep`,
which has no await), but no client need send or read anything, and Ctrl-C may never come. That is
what `CtrlCStops` is checked under; `WriteShows` has a premise, `ClientReads`, in front of it. Neither assumes
that a client writes.

What the liveness properties leave out, they name: `WriteShows` excuses a path whose last event met a
full channel (`lost`), a client that unsubscribes or leaves, a poller that died, and the instance's
bound on samples.

### Findings

Each is a run that TLC finds violated, against a sentence of the repository.

- *StaleSnapshot*: what answers a subscription is the stored value, stamped with the server's clock of
  that moment (server.rs:501-504), where server.rs:496 says "current values" and server.rs:50-51 that
  `t` is the data source's timestamp. A source may skip paths that nobody is subscribed to
  (datasource.rs:177): in the run the amplitude is sampled as 1, written as 2 and unsubscribed, skipped
  by the poll at which it is due, and subscribed again. The client is told that it is 1, now.
- *ReportedWrites*: a write that meets a full channel is reported as a success (server.rs:601, 607)
  and never reaches `write()`, though the poller lives and could make room: in the run it is the second
  of a batch over a channel of one. Writes lost with the poller are not held against the code.
- *EarlyStatus*: a client that connects before the first tick is shown `Connected`, which the data
  source may never have reported (server.rs:99, against server.rs:63).
- *ZeroChunk*: a list request with `max_per_response` 0 panics in `slice::chunks` and ends `run`
  without a shutdown (server.rs:422, against README.md:108). `TypeOK`, `SenderLifetime` and the
  other invariants are checked and proved with this step in the model; the poller survives it.
- *MalformedHeader*: after a header that does not parse, `decode` returns `Ok(None)` instead of
  retrying (framing.rs:85-87), so that a complete frame behind it waits for more bytes: in the run the
  next call would return a frame, and nothing makes the loop call.

One contradiction has no run, since the code does the same whatever happened before. The comment at
server.rs:782 says that aliases are not supported by `make_detailed` and that "caller should not pass Alias
entries", but both callers, `get_watchable_info` (server.rs:462-475) and `subscribe_watchable`
(server.rs:487), look a path up and pass on what they find. The answer has the type "alias" and nothing of
the watchable that the alias stands for. `Info` models this, and `DetailsAgreeWithList` says nothing of it: it is
about variables and RPVs.

## 4. Proofs

TLAPS proves what follows for all values of the constants that satisfy the assumptions named with
each table. Of the server (`ServerAssumption`: positive channel capacities, registered paths among
the names, a nonempty set of statuses, well-typed requests, bounds in Nat), in ServerProofs and
WriteProofs:

| theorem | property |
|---|---|
| `TypeCorrect` | `TypeOK` |
| `FeedInvariantHolds` | `FeedInvariant` |
| `SubscriptionsMirrored` | `SharedSetMirrorsGuard` |
| `SenderLives` | `SenderLifetime` |
| `StopIsClean` | `CleanStop` |
| `Convergence` | `Converged` |
| `ShutdownIsFinal` | `NoClientAfterShutdown` |
| `FeedRefinement` | `RefinesValueFeed` |
| `WritesAreAccountedFor` | `WritesAccountedFor` |
| `CompletionsFollow` | `CompletionsFollowWrites` |

Of the server around any implementor of the trait, with any state (`SourceAssumption`: it declares
a type for each path, the client's values are JSON, and a request to write a single watchable names one path),
in SourceProofs:

| theorem | what it says |
|---|---|
| `SourceImplementsServer` | `SourceSpec => Spec`: each step of the composition is a step of Server |
| `SourceWritesAccountedFor`, `SourceCompletions`, `SourceConverges` | `WritesAccountedFor`, `CompletionsFollowWrites` and `Converged` hold of the composition |
| `ContractedValuesAreDeclared` | `ValuesAreAsDeclared`, if the source keeps `Contract` and `StaysFinite` |

Of the two programs, in DemoProofs and SineProofs, for every width of the integers and every set of
clients' values (`DemoAssumption` and `SineAssumption` say no more than that the constants of
SourceServer are the operators of DemoSource or SineSource; TLC evaluates them):

| theorem | what it says |
|---|---|
| `DemoImplementsSource`, `SineImplementsSource` | `DemoSpec => SourceSpec`, `SineSpec => SourceSpec` |
| `DemoWrites` | `WritesAccountedFor`, `CompletionsFollowWrites` |
| `DemoValues`, `SineValues` | `ValuesAreAsDeclared`: both sources keep the contract |
| `OverflowNeedsWrite` | `OnlyWritesOverflow` |

Of the codec under its read loop (`FramingAssumption`: the prefix is not empty; `>` occurs neither in
it nor as the text of a header; lengths in a header are parsed into a usize, and a digest fits in one),
in FramingProofs:

| theorem | property |
|---|---|
| `FramingTypeCorrect` | `TypeOK` |
| `PendingIsRight` | `PendingIsInBuffer` |
| `OnlyOverflowPanics` | `PanicsOnlyOnOverflow` |
| `LeadingFramesDelivered` | `LeadingFrames`, of any script whatever |
| `CleanFramesInOrder`, `CleanFramesPrompt` | `FramesInOrder`, `FramesArePrompt`, of streams of frames up to the first that is rejected |

and of the registry and what is told of it (`DatastoreAssumption`; `ListAssumption`: paths and patterns
are sequences of characters), in WatchableProofs:

| theorem | property |
|---|---|
| `IdsUnique` | `RpvIdsAreUnique` |
| `RegistryFollowsDefinitions` | `LastDefinitionWins` |
| `WatchablesTypeCorrect` | `TypeOK` |
| `ListEndsMarked` | `LastResponseIsMarked` |
| `ListIsAll` | `ListIsComplete` |
| `CountsAgree` | `CountsAgreeWithList` |
| `DetailsAgree` | `DetailsAgreeWithList` |

**The inductive invariant of the server** is `TypeOK /\ FeedInvariant`, the second in five parts.
`LifeCycle` ties the program counters together: who is connected, who holds the sender, what is
empty without a client. `LoopState` says what the loops of `dispatch` have done so far. `BatchState`
says that the poller's batch is the *next* samples until they are stored and the *latest* until they
are published. `SamplesInRange` bounds every sample in flight by the client's connection and by the
store. `LastCarrierIsLatest` is the heart of `Converged`, which is not inductive: it follows the latest
sample of a path along its way (the batch to publish, else the last queued event that carries it,
else the update being sent, else the client) and says that the furthest carrier still holds the
latest one, unless the path is in `lost`. Each part has a lemma with one step per action. The
refinement needs `SamplesInRange` for `Deliver`, and `BatchState` for `Publish`.

**Writes.** The invariant is inductive on its own with `TypeOK`: the concatenation of `applied` and
`write_rx` increases, and with `lost_writes` partitions `1..issued`. The lemmas are about sequences:
moving the head of the second to the end of the first leaves the concatenation as it was. For the
completions, `CompletionOrder` says that `told` and then the completions in `outbox`, read in sequence,
are the numbers that follow `since`, what was issued before the client came: up to `issued`, or up to
where the batch began if one is in progress. `dispatch` only runs while `outbox` is
empty, so that the completions of a batch come behind all earlier ones, and sending moves the head of one
sequence to the end of the other. `CompletionsFollowWrites` is this with the order of the two
pieces spelled out.

**Composition.** `SourceServer` conjoins conditions and assignments of its own to the actions of Server,
so each of its steps implies one of Server's: one case per disjunct of `SourceNext`. What is proved of
`Spec` follows for every source. It also tells that the bound `Exhausted`, and a source that returns
fewer paths than Server's may, take behaviours away and add none.

**Values.** `Contract` is what an implementor of the trait promises about a set of states: it begins
in the set, `poll` and `write` stay in it, and `poll` returns values of the types that the source
declared, of paths that it registered. The invariant (`Emissions`, `ContentOfIssued`) says that the
n-th sample has its value and the n-th write its content, also between a poll and the store. JSON has
no number for a float that is not finite, and `to_json` makes null of it. `StaysFinite` promises
of another set of states that from there, and without a write of such a float, no such float is
returned; then `FiniteSoFar` holds, that as long as none was applied none was emitted, which rests on
`AppliedStays`: what was applied stays applied, with its content. That DemoSource and SineSource keep both
promises are lemmas about one call of each method.

**Overflow.** `OnlyWritesOverflow` is not inductive. `CounterBound` is: unless a value near the top
was applied, the counter is no further from the highest place where a write can have put it than it was
polled, which is as often as it was emitted. `CountingAssumption` (`MaxSamples < MaxInt`) says that the bound on
samples is not what brings the counter to the top; the code has no bound on samples, and counting from
zero to 2^63 takes longer than the program runs.

**Framing.** `FrameInvariant`: buffer and network together are the end of what the client wrote, a
remembered header is the one that the buffer begins with, and a panic has its cause. Most of its proof
is about `decode`: every way out of it leaves an end of the buffer. `LeadInvariant` follows the intact
frames at the start: as long as what comes next is a frame, intact or rejected, exactly the frames
before it are out and the buffer begins with it (`Synced`), or it was rejected (`Failed`); once
something else comes, those frames stay delivered. Its step needs what `decode` does *in* a frame: of
a part it awaits the rest and remembers its header, of a whole one it takes as many bytes as it has. A
prefix has no `>`, so that the first `>` behind it ends the header. The hypothesis of the two Clean
theorems is about `Scripts` alone, and scripts of any length with any number of frames satisfy it.

**Registry and answers.** The invariant adds to the properties that identifiers of RPV entries are
below `next_rpv_id`, and that `next_rpv_id` never exceeds `MaxU16`. `AnswerInvariant` adds that nothing
is told before the registry is complete, and that what was told is what the registry says: it does not
change afterwards. That a list is complete is then about one request: `GlobMatches` (`glob_match` finds
exactly what `Fits` says), `OfKindPicks` (the loop that picks a kind keeps each such entry, once),
`ChunksCover` (the cuts at multiples of the chunk size cover the list and do not overlap) and
`ResponsesAnswer`, which puts them together: there is an ordering of the selection of which the i-th
response is the i-th piece. `CountsAgree` exchanges sums: the lengths of the pieces add up to the number
of entries of the kind.

**Induction.** The library's theorems of induction take the property as an operator, which the
provers cannot instantiate. Induction.tla derives, from the well-foundedness of < as a set of pairs,
`SetInduction`: a set of numbers that has 0 and with n also n + 1 has all. A comprehension states the
property. With it go the facts about recursive definitions: `glob_match`, the loop `OfKind`, `FlattenSeq`, and
the fold that sums (`SumIs`).

**Only model-checked**: the liveness properties `ShutdownStops`, `AcquisitionFollows`,
`QueuedWritesApplied`, `SamplesReachReader`, `StatusReachesReader`, `WriteShows` and `CtrlCStops` (liveness
under fairness is out of the prover's reach); and `FramesInOrder` and `FramesArePrompt` of streams that
have stray bytes, malformed headers or overflowing lengths between frames. The bytes that `decode` skips
may, together with those that follow, imitate a prefix or a header, so that a statement for all scripts
needs to say which items do not; TLC explores the scripts of MCFraming, and `LeadingFrames` says of all
scripts what is not lost.

## 5. Not modelled

- Device information, server statistics and the layout of JSON: no property is about them. Zlib and
  MD5 are constants (`Decodes`, `Digest`).
- The growth of the codec's buffer behind a prefix without `>` (framing.rs:68): the code sets no limit
  that it could be compared with.
- `on_unsubscribed` at shutdown: the code does not call it, and nothing says that it would.
- The arithmetic of the sine wave, the rounding of large integers to f64, and timestamps, of which
  only the clock that they come from is kept (`clock` of `WatchableUpdate`).
- Argument parsing and logging of the two programs: they act once, before the server exists, and the
  address reaches the model as the success or failure of `Bind`.

## 6. Plan

Done: the server core with its invariant, refinement and liveness; the codec with its widths; the
registry and the queries; the data sources and the programs around the server, as a composition that
is proved to implement the server; and a proof of every safety property that the runs check, the two
of streams with skipped bytes excepted. The order was that of importance: the value feed first.

What is left: `FramesInOrder` and `FramesArePrompt` of streams in which stray bytes that contain no
part of a prefix come between frames, from `LeadInvariant` with the number of delivered frames in
place of the number of items.
